--------------------------- MODULE LifecycleProofs ---------------------------
(***************************************************************************)
(* Proofs about Lifecycle, for any limit of reconnections and any number   *)
(* of starts: its types, what stop() leaves, what the flags mean and how   *)
(* often a thread tries; and about its Listeners, for any callbacks and    *)
(* lists: that a notification calls all of them in order, and how many it  *)
(* may miss when some are removed.                                         *)
(***************************************************************************)
EXTENDS Lifecycle, Listeners, FiniteSetTheorems, SequenceTheorems,
        WellFoundedInduction, TLAPS

\* A thread that is alive is the one that the client knows.
ThreadKnown == worker \in Live => thread

\* run_forever() has a connection exactly from its beginning to on_close().
AppRuns ==
  /\ worker = "running" => app \in AppLive
  /\ worker \in {"flagged", "notifying"} => app = "closing"
  /\ app \in AppLive => worker \in {"running", "flagged", "notifying"}

\* Once stop() has joined the thread, it is not alive, and it is not while the
\* owner is idle after that; who waits for a connection has started the client.
StopJoined ==
  /\ upc = "joined" => worker \in Dead
  /\ upc \in {"polling", "abandoned"} => ended \in {"started", "skipped"}

\* A session that a lost connection leaves behind is covered by closed.
LossFlagged ==
  worker \in {"flagged", "notifying"} /\ spec = "connected" => closed

\* A thread that has left its loop was told to, or its client says so, until
\* somebody calls start(), which then finds the thread alive or makes another.
ExitFlagged ==
  /\ worker \in {"exiting", "dead"} =>
       \/ closed \/ stopEvent \/ upc = "starting"
       \/ ended # "started" /\ upc # "settling"
  /\ worker = "none" => ended # "started" /\ upc # "settling"

\* Only a thread that leaves its loop has counted beyond the limit.
CountBounded == worker \in Live \ {"exiting"} => retries <= Limit

\* Nobody clears the signal to stop, but a listener that calls start().
SignalStays == upc \in {"signalled", "joining"} /\ ~restarter => stopEvent

LInv ==
  /\ TypeOK
  /\ ThreadKnown
  /\ AppRuns
  /\ StopJoined
  /\ StopQuiescent
  /\ LossFlagged
  /\ IsConnectedTruthful
  /\ ExitFlagged
  /\ CountBounded
  /\ SignalStays

-----------------------------------------------------------------------------
\* max_reconnect_attempts or 3, a number in either case
LEMMA LimitNat == Limit \in Nat
BY LifecycleAssumption DEF Limit

\* A client that is made has no thread, no connection and no flag.
LEMMA InitHolds == Init => LInv
<1>1. Init => FlagsOK
  BY Zenon DEF Init, FlagsOK
<1>2. Init => PlacesOK
  BY LifecycleAssumption, LimitNat DEF Init, PlacesOK, Dead, Live, AppLive, Stopped
<1>3. Init => ThreadKnown /\ AppRuns /\ StopJoined /\ StopQuiescent
  BY DEF Init, ThreadKnown, AppRuns, StopJoined, StopQuiescent, Dead, Live, AppLive, Stopped
<1>4. Init => LossFlagged /\ IsConnectedTruthful /\ ExitFlagged /\ CountBounded /\ SignalStays
  BY DEF Init, LossFlagged, IsConnectedTruthful, IsConnected, ExitFlagged, CountBounded,
     SignalStays, Live
<1> QED
  BY <1>1, <1>2, <1>3, <1>4 DEF LInv, TypeOK

\* Each step leaves the flags to be flags.
LEMMA FlagsHold == FlagsOK /\ [Next]_vars => FlagsOK'
<1> SUFFICES ASSUME FlagsOK, [Next]_vars PROVE FlagsOK'
  OBVIOUS
<1> USE DEF FlagsOK
<1>0. CASE UNCHANGED vars
  BY <1>0 DEF vars, userVars, workerVars, flagVars
<1>1. UNCHANGED restarter /\ StartReset => FlagsOK'
  BY Zenon DEF StartReset, Reset, workerVars
<1>2. UNCHANGED restarter /\ Stop => FlagsOK'
  BY Zenon DEF Stop, workerVars, flagVars
<1>3. UNCHANGED restarter /\ Close => FlagsOK'
  BY Zenon DEF Close, workerVars, flagVars
<1>4. UNCHANGED restarter /\ StartThread => FlagsOK'
  BY Zenon DEF StartThread, Return, workerVars, flagVars
<1>5. UNCHANGED restarter /\ StartReturns => FlagsOK'
  BY Zenon DEF StartReturns, Return, workerVars, flagVars
<1>6. UNCHANGED restarter /\ WaitConnected => FlagsOK'
  BY Zenon DEF WaitConnected, workerVars, flagVars
<1>7. UNCHANGED restarter /\ StartClient => FlagsOK'
  BY Zenon DEF StartClient, workerVars, flagVars
<1>8. UNCHANGED restarter /\ StopSignal => FlagsOK'
  BY Zenon DEF StopSignal, workerVars
<1>9. UNCHANGED restarter /\ StopCloseSocket => FlagsOK'
  BY Zenon DEF StopCloseSocket, workerVars, flagVars
<1>10. UNCHANGED restarter /\ StopJoin => FlagsOK'
  BY Zenon DEF StopJoin, workerVars, flagVars
<1>11. UNCHANGED restarter /\ StopFinish => FlagsOK'
  BY Zenon DEF StopFinish, workerVars, flagVars
<1>12. UNCHANGED restarter /\ Guard => FlagsOK'
  BY Zenon DEF Guard, Work, userVars, flagVars
<1>13. UNCHANGED restarter /\ Make => FlagsOK'
  BY Zenon DEF Make, Work, userVars, flagVars
<1>14. UNCHANGED restarter /\ RunForever => FlagsOK'
  BY Zenon DEF RunForever, Work, userVars, flagVars
<1>15. UNCHANGED restarter /\ RunRaises => FlagsOK'
  BY Zenon DEF RunRaises, Work, userVars, flagVars
<1>16. UNCHANGED restarter /\ OnOpen => FlagsOK'
  BY Zenon DEF OnOpen, userVars, workerVars, flagVars
<1>17. UNCHANGED restarter /\ ConnectFails => FlagsOK'
  BY Zenon DEF ConnectFails, userVars, workerVars, flagVars
<1>18. UNCHANGED restarter /\ OnCloseFlag => FlagsOK'
  BY Zenon DEF OnCloseFlag, Work, userVars
<1>19. UNCHANGED restarter /\ OnCloseStopEvent => FlagsOK'
  BY Zenon DEF OnCloseStopEvent, Work, userVars
<1>20. UNCHANGED restarter /\ OnCloseNotify => FlagsOK'
  BY Zenon DEF OnCloseNotify, Reset, Work, flagVars
<1>21. UNCHANGED restarter /\ Ran => FlagsOK'
  BY Zenon DEF Ran, Work, userVars, flagVars
<1>22. UNCHANGED restarter /\ Count => FlagsOK'
  BY Zenon DEF Count, Work, userVars
<1>23. UNCHANGED restarter /\ Backoff => FlagsOK'
  BY Zenon DEF Backoff, Work, userVars, flagVars
<1>24. UNCHANGED restarter /\ Exit => FlagsOK'
  BY Zenon DEF Exit, Work, userVars, flagVars
<1>25. UNCHANGED restarter /\ LinkLost => FlagsOK'
  BY Zenon DEF LinkLost, userVars, workerVars, flagVars
<1>26. UNCHANGED restarter /\ SessionOpens => FlagsOK'
  BY Zenon DEF SessionOpens, userVars, workerVars, flagVars
<1>27. UNCHANGED restarter /\ ListenerStops => FlagsOK'
  BY Zenon DEF ListenerStops, userVars, workerVars
<1> QED
  BY <1>0, <1>1, <1>2, <1>3, <1>4, <1>5, <1>6, <1>7, <1>8, <1>9, <1>10, <1>11,
     <1>12, <1>13, <1>14, <1>15, <1>16, <1>17, <1>18, <1>19, <1>20, <1>21, <1>22,
     <1>23, <1>24, <1>25, <1>26, <1>27
  DEF Next, UserStep, WorkerStep

\* Each step leads to another place; the count needs its bound.
LEMMA PlacesHold == PlacesOK /\ CountBounded /\ [Next]_vars => PlacesOK'
<1> SUFFICES ASSUME PlacesOK, CountBounded, [Next]_vars PROVE PlacesOK'
  OBVIOUS
<1> USE LifecycleAssumption, LimitNat DEF PlacesOK, Dead, Live, AppLive, Stopped
<1>0. CASE UNCHANGED vars
  BY <1>0 DEF vars, userVars, workerVars, flagVars
<1>1. UNCHANGED restarter /\ StartReset => PlacesOK'
  BY DEF StartReset, Reset, InitConnection, Unknown, workerVars
<1>2. UNCHANGED restarter /\ Stop => PlacesOK'
  BY DEF Stop, workerVars, flagVars
<1>3. UNCHANGED restarter /\ Close => PlacesOK'
  BY DEF Close, workerVars, flagVars
<1>4. UNCHANGED restarter /\ StartThread => PlacesOK'
  BY DEF StartThread, Return, workerVars, flagVars
<1>5. UNCHANGED restarter /\ StartReturns => PlacesOK'
  BY DEF StartReturns, Return, workerVars, flagVars
<1>6. UNCHANGED restarter /\ WaitConnected => PlacesOK'
  BY DEF WaitConnected, workerVars, flagVars
<1>7. UNCHANGED restarter /\ StartClient => PlacesOK'
  BY DEF StartClient, workerVars, flagVars
<1>8. UNCHANGED restarter /\ StopSignal => PlacesOK'
  BY DEF StopSignal, workerVars
<1>9. UNCHANGED restarter /\ StopCloseSocket => PlacesOK'
  BY DEF StopCloseSocket, AppClosed, workerVars, flagVars
<1>10. UNCHANGED restarter /\ StopJoin => PlacesOK'
  BY DEF StopJoin, workerVars, flagVars
<1>11. UNCHANGED restarter /\ StopFinish => PlacesOK'
  BY DEF StopFinish, workerVars, flagVars
<1>12. UNCHANGED restarter /\ Guard => PlacesOK'
  BY DEF Guard, Work, userVars, flagVars
<1>13. UNCHANGED restarter /\ Make => PlacesOK'
  BY DEF Make, Work, userVars, flagVars
<1>14. UNCHANGED restarter /\ RunForever => PlacesOK'
  BY DEF RunForever, Work, userVars, flagVars
<1>15. UNCHANGED restarter /\ RunRaises => PlacesOK'
  BY DEF RunRaises, Work, userVars, flagVars
<1>16. UNCHANGED restarter /\ OnOpen => PlacesOK'
  BY DEF OnOpen, userVars, workerVars, flagVars
<1>17. UNCHANGED restarter /\ ConnectFails => PlacesOK'
  BY DEF ConnectFails, userVars, workerVars, flagVars
<1>18. UNCHANGED restarter /\ OnCloseFlag => PlacesOK'
  BY DEF OnCloseFlag, Work, userVars
<1>19. UNCHANGED restarter /\ OnCloseStopEvent => PlacesOK'
  BY DEF OnCloseStopEvent, Work, userVars
<1>20. UNCHANGED restarter /\ OnCloseNotify => PlacesOK'
  BY DEF OnCloseNotify, Reset, InitConnection, Work, flagVars
<1>21. UNCHANGED restarter /\ Ran => PlacesOK'
  BY DEF Ran, Work, userVars, flagVars
<1>22. UNCHANGED restarter /\ Count => PlacesOK'
  BY DEF Count, Work, userVars, CountBounded
<1>23. UNCHANGED restarter /\ Backoff => PlacesOK'
  BY DEF Backoff, Work, userVars, flagVars
<1>24. UNCHANGED restarter /\ Exit => PlacesOK'
  BY DEF Exit, Work, userVars, flagVars
<1>25. UNCHANGED restarter /\ LinkLost => PlacesOK'
  BY DEF LinkLost, userVars, workerVars, flagVars
<1>26. UNCHANGED restarter /\ SessionOpens => PlacesOK'
  BY DEF SessionOpens, userVars, workerVars, flagVars
<1>27. UNCHANGED restarter /\ ListenerStops => PlacesOK'
  BY DEF ListenerStops, AppClosed, userVars, workerVars
<1> QED
  BY <1>0, <1>1, <1>2, <1>3, <1>4, <1>5, <1>6, <1>7, <1>8, <1>9, <1>10, <1>11,
     <1>12, <1>13, <1>14, <1>15, <1>16, <1>17, <1>18, <1>19, <1>20, <1>21, <1>22,
     <1>23, <1>24, <1>25, <1>26, <1>27
  DEF Next, UserStep, WorkerStep

\* Each step of the owner and of the thread leaves all of it true.
LEMMA StepHolds == LInv /\ [Next]_vars => LInv'
<1> SUFFICES ASSUME LInv, [Next]_vars PROVE LInv'
  OBVIOUS
<1>t. TypeOK'
  BY FlagsHold, PlacesHold DEF LInv, TypeOK
<1> USE LimitNat, <1>t
    DEF LInv, ThreadKnown, AppRuns, StopJoined, StopQuiescent, LossFlagged,
        IsConnectedTruthful, IsConnected, ExitFlagged, CountBounded, SignalStays,
        Dead, Live, AppLive, Stopped
<1>0. CASE UNCHANGED vars
  BY <1>0 DEF vars, userVars, workerVars, flagVars
<1> HIDE DEF Limit
<1>1. UNCHANGED restarter /\ StartReset => LInv'
  <2>1. StartReset => ThreadKnown' /\ AppRuns' /\ StopJoined' /\ StopQuiescent'
    BY DEF StartReset, Reset, InitConnection, Unknown, workerVars
  <2>2. StartReset => LossFlagged' /\ IsConnectedTruthful'
    BY DEF StartReset, Reset, InitConnection, Unknown, workerVars
  <2>3. UNCHANGED restarter /\ StartReset => ExitFlagged' /\ CountBounded' /\ SignalStays'
    BY DEF StartReset, Reset, InitConnection, Unknown, workerVars
  <2> QED
    BY <2>1, <2>2, <2>3
<1>2. UNCHANGED restarter /\ Stop => LInv'
  BY DEF Stop, workerVars, flagVars
<1>3. UNCHANGED restarter /\ Close => LInv'
  BY DEF Close, workerVars, flagVars
<1>4. UNCHANGED restarter /\ StartThread => LInv'
  <2>1. StartThread => ThreadKnown' /\ AppRuns' /\ StopJoined' /\ StopQuiescent'
    BY DEF StartThread, Return, workerVars, flagVars
  <2>2. StartThread => LossFlagged' /\ IsConnectedTruthful'
    BY DEF StartThread, Return, workerVars, flagVars
  <2>3. UNCHANGED restarter /\ StartThread => ExitFlagged' /\ CountBounded' /\ SignalStays'
    BY DEF StartThread, Return, workerVars, flagVars
  <2> QED
    BY <2>1, <2>2, <2>3
<1>5. UNCHANGED restarter /\ StartReturns => LInv'
  BY DEF StartReturns, Return, workerVars, flagVars
<1>6. UNCHANGED restarter /\ WaitConnected => LInv'
  BY DEF WaitConnected, workerVars, flagVars
<1>7. UNCHANGED restarter /\ StartClient => LInv'
  BY DEF StartClient, workerVars, flagVars
<1>8. UNCHANGED restarter /\ StopSignal => LInv'
  BY DEF StopSignal, workerVars
<1>9. UNCHANGED restarter /\ StopCloseSocket => LInv'
  BY DEF StopCloseSocket, AppClosed, workerVars, flagVars
<1>10. UNCHANGED restarter /\ StopJoin => LInv'
  <2>0. StopJoin => worker \in Dead
    <3>1. worker \in Dead \cup Live /\ (worker \in Live => thread)
      BY DEF TypeOK, PlacesOK
    <3> QED
      BY <3>1 DEF StopJoin
  <2>1. StopJoin => ThreadKnown' /\ AppRuns' /\ StopJoined' /\ StopQuiescent'
    BY <2>0 DEF StopJoin, workerVars, flagVars
  <2>2. StopJoin => LossFlagged' /\ IsConnectedTruthful'
    BY DEF StopJoin, workerVars, flagVars
  <2>3. UNCHANGED restarter /\ StopJoin => ExitFlagged' /\ CountBounded' /\ SignalStays'
    BY DEF StopJoin, workerVars, flagVars
  <2> QED
    BY <2>1, <2>2, <2>3
<1>11. UNCHANGED restarter /\ StopFinish => LInv'
  BY DEF StopFinish, workerVars, flagVars
<1>12. UNCHANGED restarter /\ Guard => LInv'
  BY DEF Guard, Work, userVars, flagVars
<1>13. UNCHANGED restarter /\ Make => LInv'
  <2>1. Make => ThreadKnown' /\ AppRuns' /\ StopJoined' /\ StopQuiescent'
    BY DEF Make, Work, userVars, flagVars
  <2>2. Make => LossFlagged' /\ IsConnectedTruthful'
    BY DEF Make, Work, userVars, flagVars
  <2>3. UNCHANGED restarter /\ Make => ExitFlagged' /\ CountBounded' /\ SignalStays'
    BY DEF Make, Work, userVars, flagVars
  <2> QED
    BY <2>1, <2>2, <2>3
<1>14. UNCHANGED restarter /\ RunForever => LInv'
  BY DEF RunForever, Work, userVars, flagVars
<1>15. UNCHANGED restarter /\ RunRaises => LInv'
  BY DEF RunRaises, Work, userVars, flagVars
<1>16. UNCHANGED restarter /\ OnOpen => LInv'
  BY DEF OnOpen, userVars, workerVars, flagVars
<1>17. UNCHANGED restarter /\ ConnectFails => LInv'
  BY DEF ConnectFails, userVars, workerVars, flagVars
<1>18. UNCHANGED restarter /\ OnCloseFlag => LInv'
  BY DEF OnCloseFlag, Work, userVars
<1>19. UNCHANGED restarter /\ OnCloseStopEvent => LInv'
  BY DEF OnCloseStopEvent, Work, userVars
<1>20. UNCHANGED restarter /\ OnCloseNotify => LInv'
  <2>1. OnCloseNotify => ThreadKnown' /\ AppRuns' /\ StopJoined' /\ StopQuiescent'
    BY DEF OnCloseNotify, Reset, InitConnection, Work, flagVars
  <2>2. OnCloseNotify => LossFlagged' /\ IsConnectedTruthful'
    BY DEF OnCloseNotify, Reset, InitConnection, Work, flagVars
  <2>3. UNCHANGED restarter /\ OnCloseNotify => ExitFlagged' /\ CountBounded' /\ SignalStays'
    BY DEF OnCloseNotify, Reset, InitConnection, Work, flagVars
  <2> QED
    BY <2>1, <2>2, <2>3
<1>21. UNCHANGED restarter /\ Ran => LInv'
  BY DEF Ran, Work, userVars, flagVars
<1>22. UNCHANGED restarter /\ Count => LInv'
  <2>1. Count => ThreadKnown' /\ AppRuns' /\ StopJoined' /\ StopQuiescent'
    BY DEF Count, Work, userVars
  <2>2. Count => LossFlagged' /\ IsConnectedTruthful'
    BY DEF Count, Work, userVars
  <2>3. UNCHANGED restarter /\ Count => ExitFlagged' /\ CountBounded' /\ SignalStays'
    BY DEF Count, Work, userVars
  <2> QED
    BY <2>1, <2>2, <2>3
<1>23. UNCHANGED restarter /\ Backoff => LInv'
  BY DEF Backoff, Work, userVars, flagVars
<1>24. UNCHANGED restarter /\ Exit => LInv'
  BY DEF Exit, Work, userVars, flagVars
<1>25. UNCHANGED restarter /\ LinkLost => LInv'
  BY DEF LinkLost, userVars, workerVars, flagVars
<1>26. UNCHANGED restarter /\ SessionOpens => LInv'
  <2>1. SessionOpens => ThreadKnown' /\ AppRuns' /\ StopJoined' /\ StopQuiescent'
    BY DEF SessionOpens, userVars, workerVars, flagVars
  <2>2. SessionOpens => LossFlagged' /\ IsConnectedTruthful'
    BY DEF SessionOpens, userVars, workerVars, flagVars
  <2>3. UNCHANGED restarter /\ SessionOpens => ExitFlagged' /\ CountBounded' /\ SignalStays'
    BY DEF SessionOpens, userVars, workerVars, flagVars
  <2> QED
    BY <2>1, <2>2, <2>3
<1>27. UNCHANGED restarter /\ ListenerStops => LInv'
  BY DEF ListenerStops, AppClosed, userVars, workerVars
<1> QED
  BY <1>0, <1>1, <1>2, <1>3, <1>4, <1>5, <1>6, <1>7, <1>8, <1>9, <1>10, <1>11,
     <1>12, <1>13, <1>14, <1>15, <1>16, <1>17, <1>18, <1>19, <1>20, <1>21, <1>22,
     <1>23, <1>24, <1>25, <1>26, <1>27
  DEF Next, UserStep, WorkerStep

-----------------------------------------------------------------------------
\* The inductive invariant of the two threads.
THEOREM LifecycleInductive == Spec => []LInv
BY InitHolds, StepHolds, PTL DEF Spec

\* The flags, the places of both threads and the count of reconnections stay
\* within what start(), stop(), the loop and the callbacks make of them.
THEOREM LifecycleTypes == Spec => []TypeOK
<1>1. LInv => TypeOK
  BY DEF LInv
<1> QED
  BY <1>1, LifecycleInductive, PTL

\* Once stop() or close() has returned, nothing of the client is left behind:
\* the thread was joined, and a thread that is joined has no connection.
THEOREM StopLeavesNothing == Spec => []StopQuiescent
<1>1. LInv => StopQuiescent
  BY DEF LInv
<1> QED
  BY <1>1, LifecycleInductive, PTL

\* is_connected() tells the truth, but for a session that start() carried over:
\* on_close() sets closed before anything else.
THEOREM ConnectedIsTrue == Spec => []IsConnectedTruthful
<1>1. LInv => IsConnectedTruthful
  BY DEF LInv
<1> QED
  BY <1>1, LifecycleInductive, PTL

\* A thread that start() made and that has ended has left the client marked: by
\* the last count, by on_close(), or by whoever told it to stop.
THEOREM DeadIsDown == Spec => []DeadMeansDown
<1>1. LInv => DeadMeansDown
  BY DEF LInv, ExitFlagged, DeadMeansDown, Dead
<1> QED
  BY <1>1, LifecycleInductive, PTL

\* A thread connects once and then as often as max_reconnect_attempts says,
\* whatever start() resets under its feet.
THEOREM AttemptsAreBounded == Spec => []AttemptsBounded
<1>1. LInv => AttemptsBounded
  BY LifecycleAssumption DEF LInv, CountBounded, AttemptsBounded, Limit, Live
<1> QED
  BY <1>1, LifecycleInductive, PTL

\* Only the guard of the loop leads to a connection, and it reads stop_event,
\* which nobody clears between the signal of stop() and its join().
THEOREM StopIsHeard == Spec => NoConnectAfterStop
<1> DEFINE Quiet == upc \in {"signalled", "joining"} /\ worker # "make" /\ ~restarter
<1>1. LInv /\ [Next]_vars => [Quiet => ~(worker' = "make")]_vars
  <2> SUFFICES ASSUME LInv, Next, Quiet PROVE worker' # "make"
    BY DEF vars
  <2>1. stopEvent
    BY DEF LInv, SignalStays
  <2>2. \/ UNCHANGED worker
        \/ StartThread
        \/ WorkerStep
    BY DEF Next, UserStep, StartReset, Stop, Close, StartReturns, WaitConnected,
       StartClient, StopSignal, StopCloseSocket, StopJoin, StopFinish, LinkLost,
       SessionOpens, ListenerStops, workerVars
  <2>3. StartThread => worker' # "make"
    BY DEF StartThread
  <2>4. WorkerStep => worker' # "make"
    BY <2>1 DEF WorkerStep, Guard, Make, RunForever, RunRaises, OnOpen, ConnectFails,
       OnCloseFlag, OnCloseStopEvent, OnCloseNotify, Ran, Count, Backoff, Exit,
       Work, workerVars
  <2> QED
    BY <2>2, <2>3, <2>4
<1> QED
  BY <1>1, LifecycleInductive, PTL DEF Spec, NoConnectAfterStop

-----------------------------------------------------------------------------
(***************************************************************************)
(* Listeners: the inductive invariant                                      *)
(***************************************************************************)

\* The lists hold callbacks, and the counters count.
ListsOK ==
  /\ listeners \in Seq(Callbacks)
  /\ expected \in Seq(Callbacks)
  /\ called \in Seq(Callbacks)
  /\ phase \in {"idle", "running", "ended", "escaped"}
  /\ index \in Nat \ {0}
  /\ removals \in Nat
  /\ changes \in Nat

\* Nothing is walked before an event.
NotBegun == phase = "idle" => index = 1 /\ called = <<>> /\ removals = 0

\* As long as nothing is removed, the list begins with what was registered, and
\* what has been called is what the index has passed.
WalkedInOrder ==
  phase = "running" /\ removals = 0 =>
    /\ Len(expected) <= Len(listeners)
    /\ \A k \in 1..Len(expected) : listeners[k] = expected[k]
    /\ Len(called) = index - 1
    /\ index - 1 <= Len(listeners)
    /\ \A k \in 1..(index - 1) : called[k] = listeners[k]

\* An exception escapes only from a callback that has no name.
EscapedFrom == phase = "escaped" => called # <<>> /\ Last(called) \in Failing \cap Nameless

\* The registrations of a list that have not been called
Uncalled(regs, done) == {k \in DOMAIN regs : regs[k] \notin ToSet(done)}

\* f tells of each of them where in the list the walk will come to it, or 0: it
\* is lost, and n bounds how many are.
Tracks(f, regs, done, list, i, n) ==
  LET rest == Uncalled(regs, done)
  IN /\ \A k \in rest : f[k] # 0 => f[k] \in i..Len(list) /\ list[f[k]] = regs[k]
     /\ \A j, k \in rest : f[j] = f[k] /\ f[j] # 0 => j = k
     /\ Cardinality({k \in rest : f[k] = 0}) <= n

\* No more registrations are lost to the walk than were removed.
LostBounded ==
  /\ phase = "running" =>
       \E f \in [DOMAIN expected -> Nat] :
         Tracks(f, expected, called, listeners, index, removals)
  /\ phase = "ended" => Cardinality(Uncalled(expected, called)) <= removals

WInv ==
  /\ ListsOK
  /\ NotBegun
  /\ WalkedInOrder
  /\ EscapedFrom
  /\ LostBounded
  /\ AllCalledInOrder

-----------------------------------------------------------------------------
(***************************************************************************)
(* What list.remove() does to a list                                       *)
(***************************************************************************)

\* A set of numbers that is not empty has a least one.
LEMMA LeastIsIn ==
  ASSUME NEW S \in SUBSET Nat, S # {}
  PROVE  Min(S) \in S
<1>1. PICK x \in S : \A y \in S : ~(<<y, x>> \in OpToRel(<, Nat))
  BY NatLessThanWellFounded, WFMin
<1>2. ASSUME NEW y \in S PROVE ~(y < x)
  <2>1. y \in Nat /\ x \in Nat /\ <<y, x>> \in Nat \X Nat
    OBVIOUS
  <2>2. y < x => <<y, x>> \in OpToRel(<, Nat)
    BY <2>1, Zenon DEF OpToRel
  <2> QED
    BY <1>1, <2>2
<1>3. \A y \in S : x <= y
  BY <1>2
<1> QED
  BY <1>3 DEF Min

\* list.remove() leaves the list as it is, or takes out the callback at one place.
LEMMA WithoutShape ==
  ASSUME NEW list \in Seq(Callbacks), NEW cb \in Callbacks
  PROVE  \/ Without(list, cb) = list
         \/ \E p \in 1..Len(list) :
              /\ Without(list, cb) \in Seq(Callbacks)
              /\ Len(Without(list, cb)) = Len(list) - 1
              /\ \A j \in 1..(Len(list) - 1) :
                   Without(list, cb)[j] = list[IF j < p THEN j ELSE j + 1]
<1> DEFINE places == {i \in 1..Len(list) : list[i] = cb}
           p == SelectInSeq(list, LAMBDA x : x = cb)
<1> SUFFICES ASSUME \E k \in DOMAIN list : list[k] = cb
             PROVE  /\ p \in 1..Len(list)
                    /\ RemoveAt(list, p) \in Seq(Callbacks)
                    /\ Len(RemoveAt(list, p)) = Len(list) - 1
                    /\ \A j \in 1..(Len(list) - 1) :
                         RemoveAt(list, p)[j] = list[IF j < p THEN j ELSE j + 1]
  BY Zenon DEF Without
<1>1. p \in 1..Len(list)
  <2>1. places # {} /\ places \in SUBSET Nat /\ Len(list) \in Nat
    OBVIOUS
  <2>2. p = Min(places)
    BY <2>1 DEF SelectInSeq
  <2> QED
    BY <2>1, <2>2, LeastIsIn
<1> HIDE DEF p
<1>2. Len(list) \in Nat /\ p - 1 \in Int /\ p + 1 \in Int
  BY <1>1
<1> DEFINE before == SubSeq(list, 1, p - 1)
           after == SubSeq(list, p + 1, Len(list))
<1>3. /\ before \in Seq(Callbacks) /\ Len(before) = p - 1
      /\ \A i \in 1..(p - 1) : before[i] = list[i]
  BY <1>1, <1>2, SubSeqProperties
<1>4. /\ after \in Seq(Callbacks) /\ Len(after) = Len(list) - p
      /\ \A i \in 1..(Len(list) - p) : after[i] = list[p + i]
  BY <1>1, <1>2, SubSeqProperties
<1> HIDE DEF before, after
<1>5. /\ before \o after \in Seq(Callbacks)
      /\ Len(before \o after) = Len(list) - 1
      /\ \A j \in 1..(Len(list) - 1) :
           (before \o after)[j] = IF j <= p - 1 THEN before[j] ELSE after[j - (p - 1)]
  <2>1. /\ before \o after \in Seq(Callbacks)
        /\ Len(before \o after) = Len(before) + Len(after)
        /\ \A j \in 1..(Len(before) + Len(after)) :
             (before \o after)[j] = IF j <= Len(before) THEN before[j]
                                    ELSE after[j - Len(before)]
    BY <1>3, <1>4, ConcatProperties
  <2>2. Len(before) + Len(after) = Len(list) - 1
    BY <1>1, <1>2, <1>3, <1>4
  <2> QED
    BY <1>3, <2>1, <2>2
<1>6. ASSUME NEW j \in 1..(Len(list) - 1)
      PROVE  (before \o after)[j] = list[IF j < p THEN j ELSE j + 1]
  BY <1>1, <1>2, <1>3, <1>4, <1>5, <1>6
<1>7. RemoveAt(list, p) = before \o after
  BY DEF RemoveAt, before, after
<1> QED
  BY <1>1, <1>5, <1>6, <1>7

\* A removal loses at most one registration to the walk: the one that was at
\* its place or, when that is behind the index, the one that the index was at.
LEMMA RemovalStep ==
  ASSUME NEW regs \in Seq(Callbacks), NEW done, NEW list \in Seq(Callbacks),
         NEW cb \in Callbacks, NEW i \in Nat \ {0}, NEW n \in Nat,
         NEW f \in [DOMAIN regs -> Nat], Tracks(f, regs, done, list, i, n)
  PROVE  \E g \in [DOMAIN regs -> Nat] :
           Tracks(g, regs, done, Without(list, cb), i, n + 1)
<1> DEFINE rest == Uncalled(regs, done)
           lost == {k \in rest : f[k] = 0}
           new == Without(list, cb)
<1>1. /\ \A k \in rest : f[k] # 0 => f[k] \in i..Len(list) /\ list[f[k]] = regs[k]
      /\ \A j, k \in rest : f[j] = f[k] /\ f[j] # 0 => j = k
      /\ Cardinality(lost) <= n
  BY DEF Tracks
<1>2. rest \subseteq DOMAIN regs /\ IsFiniteSet(lost) /\ Cardinality(lost) \in Nat
  <2>1. DOMAIN regs = 1..Len(regs) /\ Len(regs) \in Nat
    OBVIOUS
  <2>2. IsFiniteSet(DOMAIN regs)
    BY <2>1, FS_Interval
  <2>3. lost \in SUBSET DOMAIN regs
    BY DEF Uncalled
  <2>4. IsFiniteSet(lost)
    BY <2>2, <2>3, FS_Subset
  <2> QED
    BY <2>4, FS_CardinalityType DEF Uncalled
<1> HIDE DEF rest, lost, new
<1>3. CASE new = list
  <2>1. Tracks(f, regs, done, new, i, n + 1)
    BY <1>1, <1>2, <1>3 DEF Tracks, rest, lost
  <2> QED
    BY <2>1 DEF new
<1>4. ASSUME NEW p \in 1..Len(list), Len(new) = Len(list) - 1,
             \A j \in 1..(Len(list) - 1) : new[j] = list[IF j < p THEN j ELSE j + 1]
      PROVE  \E g \in [DOMAIN regs -> Nat] : Tracks(g, regs, done, new, i, n + 1)
  <2> DEFINE hole == IF p >= i THEN p ELSE i
             g == [k \in DOMAIN regs |-> IF f[k] = hole THEN 0
                                         ELSE IF f[k] > p THEN f[k] - 1 ELSE f[k]]
             lostNow == {k \in rest : g[k] = 0}
  <2>1. g \in [DOMAIN regs -> Nat]
    BY <1>4
  <2>2. \A k \in rest : f[k] \in Nat /\ Len(list) \in Nat
    BY <1>2
  <2>3. \A k \in rest : g[k] = IF f[k] = hole THEN 0
                               ELSE IF f[k] > p THEN f[k] - 1 ELSE f[k]
    BY <1>2
  <2> HIDE DEF g
  <2>4. ASSUME NEW k \in rest, g[k] # 0
        PROVE  /\ f[k] # 0 /\ f[k] # hole
               /\ g[k] \in i..Len(new) /\ new[g[k]] = regs[k]
    <3>1. f[k] # 0 /\ f[k] # hole /\ g[k] = IF f[k] > p THEN f[k] - 1 ELSE f[k]
      BY <2>2, <2>3, <2>4
    <3>2. f[k] \in i..Len(list) /\ list[f[k]] = regs[k]
      BY <1>1, <3>1
    <3>3. g[k] \in i..Len(new) /\ g[k] \in 1..(Len(list) - 1)
      BY <1>4, <2>2, <3>1, <3>2
    <3>4. new[g[k]] = list[IF g[k] < p THEN g[k] ELSE g[k] + 1]
      BY <1>4, <3>3
    <3>5. (IF g[k] < p THEN g[k] ELSE g[k] + 1) = f[k]
      BY <1>4, <3>1, <3>2
    <3> QED
      BY <3>1, <3>2, <3>3, <3>4, <3>5
  <2>5. ASSUME NEW j \in rest, NEW k \in rest, g[j] = g[k], g[j] # 0
        PROVE  j = k
    <3>1. f[j] = f[k]
      <4>1. f[j] \in Nat /\ f[k] \in Nat /\ f[j] \in i..Len(list) /\ f[k] \in i..Len(list)
        BY <1>1, <2>2, <2>4, <2>5
      <4>2. f[j] # hole /\ f[k] # hole
        BY <2>4, <2>5
      <4> QED
        BY <1>4, <2>3, <2>5, <4>1, <4>2
    <3> QED
      BY <1>1, <2>4, <2>5, <3>1
  <2>6. Cardinality(lostNow) <= n + 1
    <3>1. PICK x : lostNow \subseteq lost \cup {x}
      <4>1. \A j, k \in lostNow \ lost : j = k
        <5> SUFFICES ASSUME NEW j \in lostNow \ lost, NEW k \in lostNow \ lost
                     PROVE  j = k
          OBVIOUS
        <5>1. j \in rest /\ f[j] # 0 /\ g[j] = 0 /\ k \in rest /\ f[k] # 0 /\ g[k] = 0
          BY DEF lost
        <5>2. f[j] = hole /\ f[k] = hole
          BY <1>4, <2>2, <2>3, <5>1
        <5> QED
          BY <1>1, <5>1, <5>2
      <4>2. CASE lostNow \subseteq lost
        BY <4>2
      <4>3. CASE \E x \in lostNow : x \notin lost
        BY <4>1, <4>3
      <4> QED
        BY <4>2, <4>3
    <3>2. IsFiniteSet(lost \cup {x}) /\ Cardinality(lost \cup {x}) <= Cardinality(lost) + 1
      <4>1. /\ IsFiniteSet(lost \cup {x})
            /\ Cardinality(lost \cup {x}) =
                 IF x \in lost THEN Cardinality(lost) ELSE Cardinality(lost) + 1
        BY <1>2, FS_AddElement
      <4> QED
        BY <1>2, <4>1
    <3>3. Cardinality(lostNow) <= Cardinality(lost \cup {x})
      BY <3>1, <3>2, FS_Subset
    <3>4. Cardinality(lostNow) \in Nat /\ Cardinality(lost \cup {x}) \in Nat
      BY <3>1, <3>2, FS_Subset, FS_CardinalityType
    <3> QED
      BY <1>1, <1>2, <3>2, <3>3, <3>4
  <2>7. Tracks(g, regs, done, new, i, n + 1)
    BY <2>4, <2>5, <2>6 DEF Tracks, rest
  <2> QED
    BY <2>1, <2>7
<1> QED
  BY <1>3, <1>4, WithoutShape DEF new

-----------------------------------------------------------------------------
(***************************************************************************)
(* The steps                                                               *)
(***************************************************************************)

\* list.remove() makes a list of callbacks.
LEMMA WithoutType ==
  ASSUME NEW list \in Seq(Callbacks), NEW cb \in Callbacks
  PROVE  Without(list, cb) \in Seq(Callbacks)
BY WithoutShape

\* What is uncalled of a list is some of its places, and finitely many.
LEMMA UncalledFinite ==
  ASSUME NEW regs \in Seq(Callbacks), NEW done
  PROVE  IsFiniteSet(Uncalled(regs, done))
<1>1. DOMAIN regs = 1..Len(regs) /\ Len(regs) \in Nat
  OBVIOUS
<1>2. IsFiniteSet(DOMAIN regs)
  BY <1>1, FS_Interval
<1>3. Uncalled(regs, done) \in SUBSET DOMAIN regs
  BY DEF Uncalled
<1> QED
  BY <1>2, <1>3, FS_Subset

\* A list that agrees with the beginning of another one is a prefix of it.
LEMMA PrefixOf ==
  ASSUME NEW s \in Seq(Callbacks), NEW t \in Seq(Callbacks),
         Len(s) <= Len(t), \A k \in 1..Len(s) : s[k] = t[k]
  PROVE  IsPrefix(s, t)
<1> DEFINE n == Len(s)
<1>1. n \in Nat /\ 1 \in Int /\ n \in Int
  OBVIOUS
<1>2. /\ SubSeq(s, 1, n) \in Seq(Callbacks) /\ Len(SubSeq(s, 1, n)) = n
      /\ \A k \in 1..n : SubSeq(s, 1, n)[k] = s[k]
  BY <1>1, SubSeqProperties
<1>3. /\ SubSeq(t, 1, n) \in Seq(Callbacks) /\ Len(SubSeq(t, 1, n)) = n
      /\ \A k \in 1..n : SubSeq(t, 1, n)[k] = t[k]
  BY <1>1, SubSeqProperties
<1>4. SubSeq(s, 1, n) = SubSeq(t, 1, n)
  BY <1>2, <1>3, SeqEqual
<1> QED
  BY <1>4 DEF IsPrefix

\* The types of a removal
LEMMA UnlistTypes ==
  ASSUME ListsOK, NEW cb \in Callbacks, Unlist(cb)
  PROVE  listeners' \in Seq(Callbacks) /\ removals' \in {removals, removals + 1}
BY WithoutType DEF ListsOK, Unlist

\* The types are kept.
LEMMA ListsStep ==
  ASSUME ListsOK, [ListenersNext]_listenerVars
  PROVE  ListsOK'
<1>1. ASSUME NEW cb \in Callbacks, AddListener(cb)
      PROVE  ListsOK'
  BY <1>1 DEF AddListener, ListsOK
<1>2. ASSUME NEW cb \in Callbacks, RemoveListener(cb)
      PROVE  ListsOK'
  BY <1>2, UnlistTypes DEF RemoveListener, ListsOK
<1>3. CASE Begin
  BY <1>3 DEF Begin, ListsOK
<1>4. CASE CallNext
  <2> DEFINE cb == listeners[index]
  <2>1. cb \in Callbacks
    BY <1>4 DEF CallNext, ListsOK
  <2>2. listeners' \in Seq(Callbacks) /\ removals' \in Nat
    BY <1>4, <2>1, UnlistTypes DEF CallNext, Called, ListsOK
  <2>3. called' \in Seq(Callbacks)
    BY <1>4, <2>1 DEF CallNext, Called, ListsOK
  <2> QED
    BY <1>4, <2>2, <2>3 DEF CallNext, Called, AfterCall, ListsOK
<1>5. CASE End
  BY <1>5 DEF End, ListsOK
<1>6. CASE UNCHANGED listenerVars
  BY <1>6 DEF listenerVars, ListsOK
<1> QED
  BY <1>1, <1>2, <1>3, <1>4, <1>5, <1>6 DEF ListenersNext

\* So is the order of the walk.
LEMMA OrderStep ==
  ASSUME WInv, [ListenersNext]_listenerVars
  PROVE  NotBegun' /\ WalkedInOrder' /\ EscapedFrom' /\ AllCalledInOrder'
<1> USE DEF WInv, NotBegun, WalkedInOrder, EscapedFrom, AllCalledInOrder, ListsOK
<1>1. ASSUME NEW cb \in Callbacks, AddListener(cb)
      PROVE  NotBegun' /\ WalkedInOrder' /\ EscapedFrom' /\ AllCalledInOrder'
  <2>1. /\ Len(listeners') = Len(listeners) + 1
        /\ \A k \in 1..Len(listeners) : listeners'[k] = listeners[k]
    BY <1>1 DEF AddListener
  <2>2. UNCHANGED <<phase, index, expected, called, removals>>
    BY <1>1 DEF AddListener
  <2> QED
    BY <2>1, <2>2
<1>2. ASSUME NEW cb \in Callbacks, RemoveListener(cb)
      PROVE  NotBegun' /\ WalkedInOrder' /\ EscapedFrom' /\ AllCalledInOrder'
  BY <1>2 DEF RemoveListener, Unlist
<1>3. CASE Begin
  BY <1>3 DEF Begin
<1>4. CASE CallNext
  <2> DEFINE cb == listeners[index]
  <2>1. cb \in Callbacks /\ index <= Len(listeners) /\ phase = "running"
    BY <1>4 DEF CallNext
  <2>2. /\ Len(called') = Len(called) + 1
        /\ called'[Len(called) + 1] = cb
        /\ \A k \in 1..Len(called) : called'[k] = called[k]
        /\ phase' = AfterCall(cb)
        /\ index' = index + 1 /\ UNCHANGED expected
    BY <1>4, <2>1 DEF CallNext, Called
  <2>3. removals' = 0 => removals = 0 /\ UNCHANGED listeners
    BY <1>4, <2>1 DEF CallNext, Called, Unlist
  <2>4. called' # <<>> /\ Last(called') = cb
    BY <2>2 DEF Last
  <2>5. phase' = "running" \/ (phase' = "escaped" /\ cb \in Failing \cap Nameless)
    BY <2>2 DEF AfterCall
  <2>6. NotBegun' /\ EscapedFrom' /\ AllCalledInOrder'
    BY <2>4, <2>5
  <2>7. WalkedInOrder'
    <3> SUFFICES ASSUME phase' = "running", removals' = 0 PROVE WalkedInOrder'
      OBVIOUS
    <3>1. /\ removals = 0 /\ listeners' = listeners /\ expected' = expected
          /\ index' = index + 1 /\ Len(called) = index - 1
          /\ Len(expected) <= Len(listeners)
          /\ \A k \in 1..Len(expected) : listeners[k] = expected[k]
          /\ \A k \in 1..(index - 1) : called[k] = listeners[k]
      BY <2>1, <2>2, <2>3
    <3>2. Len(called') = index' - 1 /\ index' - 1 <= Len(listeners')
      BY <2>1, <2>2, <3>1
    <3>3. ASSUME NEW k \in 1..(index' - 1) PROVE called'[k] = listeners'[k]
      BY <2>2, <3>1
    <3> QED
      BY <3>1, <3>2, <3>3
  <2> QED
    BY <2>6, <2>7
<1>5. CASE End
  <2>1. UNCHANGED <<listeners, index, expected, called, removals>> /\ phase' = "ended"
        /\ phase = "running" /\ index > Len(listeners)
    BY <1>5 DEF End
  <2>2. removals = 0 => IsPrefix(expected, called)
    <3> SUFFICES ASSUME removals = 0 PROVE IsPrefix(expected, called)
      OBVIOUS
    <3>1. /\ Len(expected) <= Len(called)
          /\ \A k \in 1..Len(expected) : expected[k] = called[k]
      BY <2>1
    <3> QED
      BY <3>1, PrefixOf
  <2> QED
    BY <2>1, <2>2
<1>6. CASE UNCHANGED listenerVars
  BY <1>6 DEF listenerVars
<1> QED
  BY <1>1, <1>2, <1>3, <1>4, <1>5, <1>6 DEF ListenersNext

\* A removal is counted, and loses no more than it counts.
LEMMA UnlistLoses ==
  ASSUME ListsOK, phase = "running", NEW cb \in Callbacks, Unlist(cb),
         NEW done, NEW i \in Nat \ {0}, NEW f \in [DOMAIN expected -> Nat],
         Tracks(f, expected, done, listeners, i, removals)
  PROVE  \E g \in [DOMAIN expected -> Nat] :
           Tracks(g, expected, done, listeners', i, removals')
<1>1. listeners \in Seq(Callbacks) /\ expected \in Seq(Callbacks) /\ removals \in Nat
  BY DEF ListsOK
<1>2. \E g \in [DOMAIN expected -> Nat] :
        Tracks(g, expected, done, Without(listeners, cb), i, removals + 1)
  BY <1>1, RemovalStep
<1>3. listeners' = Without(listeners, cb) /\ removals' = removals + 1
  BY DEF Unlist
<1> QED
  BY <1>2, <1>3

\* Who has been called is no longer waited for.
LEMMA CallStep ==
  ASSUME ListsOK, index <= Len(listeners), NEW f \in [DOMAIN expected -> Nat],
         Tracks(f, expected, called, listeners, index, removals)
  PROVE  Tracks(f, expected, Append(called, listeners[index]), listeners,
                index + 1, removals)
<1> DEFINE cb == listeners[index]
           rest == Uncalled(expected, called)
           left == Uncalled(expected, Append(called, cb))
<1>1. left \subseteq rest /\ \A k \in left : expected[k] # cb
  <2>1. ToSet(Append(called, cb)) = ToSet(called) \cup {cb}
    <3>1. cb \in Callbacks /\ called \in Seq(Callbacks) /\ Len(called) \in Nat
      BY DEF ListsOK
    <3>2. /\ DOMAIN Append(called, cb) = 1..(Len(called) + 1)
          /\ DOMAIN called = 1..Len(called)
          /\ Append(called, cb)[Len(called) + 1] = cb
          /\ \A k \in 1..Len(called) : Append(called, cb)[k] = called[k]
      BY <3>1
    <3>3. \A k \in 1..(Len(called) + 1) : k \in 1..Len(called) \/ k = Len(called) + 1
      BY <3>1
    <3>4. Len(called) + 1 \in 1..(Len(called) + 1) /\ 1..Len(called) \subseteq 1..(Len(called) + 1)
      BY <3>1
    <3> QED
      BY <3>2, <3>3, <3>4, Zenon DEF ToSet
  <2> QED
    BY <2>1 DEF Uncalled
<1>2. /\ \A k \in rest : f[k] # 0 => f[k] \in index..Len(listeners) /\ listeners[f[k]] = expected[k]
      /\ \A j, k \in rest : f[j] = f[k] /\ f[j] # 0 => j = k
      /\ Cardinality({k \in rest : f[k] = 0}) <= removals
  BY DEF Tracks
<1>3. \A k \in left : f[k] # 0 => f[k] \in (index + 1)..Len(listeners) /\ listeners[f[k]] = expected[k]
  BY <1>1, <1>2 DEF ListsOK
<1>4. Cardinality({k \in left : f[k] = 0}) <= removals
  <2>1. {k \in left : f[k] = 0} \in SUBSET {k \in rest : f[k] = 0}
    BY <1>1
  <2>2. IsFiniteSet(rest) /\ {k \in rest : f[k] = 0} \in SUBSET rest
    BY UncalledFinite DEF ListsOK
  <2> HIDE DEF left, rest
  <2>3. IsFiniteSet({k \in rest : f[k] = 0})
    BY <2>2, FS_Subset
  <2>4. /\ Cardinality({k \in left : f[k] = 0}) <= Cardinality({k \in rest : f[k] = 0})
        /\ IsFiniteSet({k \in left : f[k] = 0})
    BY <2>1, <2>3, FS_Subset
  <2>5. /\ Cardinality({k \in left : f[k] = 0}) \in Nat
        /\ Cardinality({k \in rest : f[k] = 0}) \in Nat
    BY <2>3, <2>4, FS_CardinalityType
  <2> QED
    BY <1>2, <2>4, <2>5 DEF ListsOK
<1> HIDE DEF left, rest
<1>5. \A j, k \in left : f[j] = f[k] /\ f[j] # 0 => j = k
  BY <1>1, <1>2
<1> QED
  BY <1>3, <1>4, <1>5 DEF Tracks, left

\* And no step loses more than it removes.
LEMMA LostStep ==
  ASSUME WInv, [ListenersNext]_listenerVars
  PROVE  LostBounded'
<1> USE DEF WInv, ListsOK
<1>1. ASSUME NEW cb \in Callbacks, AddListener(cb)
      PROVE  LostBounded'
  <2>1. /\ Len(listeners') = Len(listeners) + 1
        /\ \A k \in 1..Len(listeners) : listeners'[k] = listeners[k]
        /\ UNCHANGED <<phase, index, expected, called, removals>>
    BY <1>1 DEF AddListener
  <2>2. ASSUME NEW f \in [DOMAIN expected -> Nat],
               Tracks(f, expected, called, listeners, index, removals)
        PROVE  Tracks(f, expected, called, listeners', index, removals)
    BY <2>1, <2>2 DEF Tracks, Uncalled
  <2> QED
    BY <2>1, <2>2 DEF LostBounded
<1>2. ASSUME NEW cb \in Callbacks, RemoveListener(cb)
      PROVE  LostBounded'
  <2>1. Unlist(cb) /\ UNCHANGED <<phase, index, expected, called>>
    BY <1>2 DEF RemoveListener
  <2>2. CASE phase = "running"
    BY <2>1, <2>2, UnlistLoses DEF LostBounded
  <2>3. CASE phase # "running"
    BY <2>1, <2>3 DEF LostBounded, Unlist
  <2> QED
    BY <2>2, <2>3
<1>3. CASE Begin
  <2> DEFINE f == [k \in DOMAIN expected' |-> k]
  <2>1. /\ expected' = listeners /\ called = <<>> /\ index = 1 /\ removals = 0
        /\ phase' = "running" /\ UNCHANGED <<listeners, called, index, removals>>
    BY <1>3 DEF Begin, NotBegun
  <2>2. f \in [DOMAIN expected' -> Nat] /\ \A k \in DOMAIN expected' : f[k] = k /\ k # 0
    BY <2>1
  <2>3. {k \in Uncalled(expected', called') : f[k] = 0} = {}
    BY <2>2 DEF Uncalled
  <2>4. Cardinality({k \in Uncalled(expected', called') : f[k] = 0}) = 0
    BY <2>3, FS_EmptySet
  <2> HIDE DEF f
  <2>5. Tracks(f, expected', called', listeners', index', removals')
    BY <2>1, <2>2, <2>4 DEF Tracks, Uncalled
  <2> QED
    BY <2>1, <2>2, <2>5 DEF LostBounded
<1>4. CASE CallNext
  <2> DEFINE cb == listeners[index]
  <2>1. /\ cb \in Callbacks /\ phase = "running" /\ index <= Len(listeners)
        /\ called' = Append(called, cb) /\ index' = index + 1 /\ UNCHANGED expected
        /\ phase' # "ended"
        /\ Unlist(cb) \/ UNCHANGED <<listeners, removals>>
    BY <1>4 DEF CallNext, Called, AfterCall
  <2>2. PICK f \in [DOMAIN expected -> Nat] :
          Tracks(f, expected, called, listeners, index, removals)
    BY <2>1 DEF LostBounded
  <2>3. Tracks(f, expected, called', listeners, index + 1, removals)
    BY <2>1, <2>2, CallStep
  <2>4. \E g \in [DOMAIN expected -> Nat] :
          Tracks(g, expected, called', listeners', index + 1, removals')
    <3>1. index + 1 \in Nat \ {0}
      OBVIOUS
    <3>2. CASE Unlist(cb)
      BY <2>1, <2>3, <3>1, <3>2, UnlistLoses
    <3>3. CASE UNCHANGED <<listeners, removals>>
      BY <2>3, <3>3
    <3> QED
      BY <2>1, <3>2, <3>3
  <2> QED
    BY <2>1, <2>4 DEF LostBounded
<1>5. CASE End
  <2>1. /\ phase = "running" /\ phase' = "ended" /\ index > Len(listeners)
        /\ UNCHANGED <<expected, called, removals>>
    BY <1>5 DEF End
  <2>2. PICK f \in [DOMAIN expected -> Nat] :
          Tracks(f, expected, called, listeners, index, removals)
    BY <2>1 DEF LostBounded
  <2>3. {k \in Uncalled(expected, called) : f[k] = 0} = Uncalled(expected, called)
    BY <2>1, <2>2 DEF Tracks
  <2>4. Cardinality(Uncalled(expected, called)) <= removals
    BY <2>2, <2>3 DEF Tracks
  <2> QED
    BY <2>1, <2>4 DEF LostBounded
<1>6. CASE UNCHANGED listenerVars
  BY <1>6 DEF listenerVars, LostBounded
<1> QED
  BY <1>1, <1>2, <1>3, <1>4, <1>5, <1>6 DEF ListenersNext

\* The invariant holds of every reachable state.
LEMMA WalkInductive == ListenersSpec => []WInv
<1>1. ListenersInit => WInv
  <2> SUFFICES ASSUME ListenersInit PROVE WInv
    OBVIOUS
  <2>1. listeners \in Seq(Callbacks)
    BY DEF ListenersInit, Lists
  <2> QED
    BY <2>1 DEF ListenersInit, WInv, ListsOK, NotBegun, WalkedInOrder,
                EscapedFrom, LostBounded, AllCalledInOrder
<1>2. WInv /\ [ListenersNext]_listenerVars => WInv'
  BY ListsStep, OrderStep, LostStep DEF WInv
<1> QED
  BY <1>1, <1>2, PTL DEF ListenersSpec

\* Without a removal, a notification calls every listener that was registered,
\* in order: _notify_listeners(), for any callbacks and lists.
THEOREM NotifiesInOrder == ListenersSpec => []AllCalledInOrder
<1>1. WInv => AllCalledInOrder
  BY DEF WInv
<1> QED
  BY <1>1, WalkInductive, PTL

\* However removals and calls interleave, a notification misses at most one
\* listener for each removal.
THEOREM SkipsAreBounded == ListenersSpec => []SkipsBounded
<1>1. WInv => SkipsBounded
  <2> SUFFICES ASSUME WInv, phase = "ended"
               PROVE  Cardinality(Skipped) <= removals
    BY DEF SkipsBounded
  <2> DEFINE rest == Uncalled(expected, called)
  <2>1. Skipped \in SUBSET rest
    BY DEF Skipped, Uncalled
  <2>2. IsFiniteSet(rest)
    BY UncalledFinite DEF WInv, ListsOK
  <2>3. Cardinality(rest) <= removals /\ removals \in Nat
    BY DEF WInv, LostBounded, ListsOK
  <2> HIDE DEF rest
  <2>4. Cardinality(Skipped) <= Cardinality(rest) /\ IsFiniteSet(Skipped)
    BY <2>1, <2>2, FS_Subset
  <2>5. Cardinality(Skipped) \in Nat /\ Cardinality(rest) \in Nat
    BY <2>2, <2>4, FS_CardinalityType
  <2> QED
    BY <2>3, <2>4, <2>5
<1> QED
  BY <1>1, WalkInductive, PTL

=============================================================================
