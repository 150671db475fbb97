-------------------------- MODULE TransactionsProofs --------------------------
(***************************************************************************)
(* Proofs about Transactions, for any number of threads that share the     *)
(* client, of transactions and of late requests: the results that users    *)
(* are told are true, and client and server agree as long as nothing has   *)
(* upset them.                                                             *)
(***************************************************************************)
EXTENDS Transactions, TLAPS

\* What was not opened yet is unknown to the server.
NotYetOpened == \A t \in Txs : t > opened => server[t] = "unknown"

\* A request that ends a transaction names one.
Addressed ==
  /\ \A u \in Users :
       doing[u] \in Endings /\ stage[u] # "found" => arg[u] \in Txs
  /\ \A req \in late : req.op \in Endings => req.tx \in Txs

\* What the server has done is done while its answer is under way ...
DoneIsDone ==
  \A u \in Users : doing[u] \in Endings /\ stage[u] = "done" =>
    server[arg[u]] = Outcome(doing[u])

\* ... and when its caller was told.
ToldIsDone ==
  \A u \in Users : told[u].result = "true" =>
    /\ told[u].op \in Endings
    /\ told[u].tx \in Txs
    /\ server[told[u].tx] = Outcome(told[u].op)

TInv == TypeOK /\ NotYetOpened /\ Addressed /\ DoneIsDone /\ ToldIsDone

-----------------------------------------------------------------------------
\* What a transaction ended with, it keeps.
Over == {"committed", "rolledBack"}

\* The server opens transactions that are not known, and ends or discards open
\* ones.
LEMMA OverIsOver ==
  TInv /\ [Next]_vars => \A t \in Txs : server[t] \in Over => server'[t] = server[t]
<1> SUFFICES ASSUME TInv, [Next]_vars, NEW t \in Txs, server[t] \in Over
             PROVE  server'[t] = server[t]
  OBVIOUS
<1>0. server \in [Txs -> Status] /\ opened \in 0..MaxTx
  BY DEF TInv, TypeOK
<1>1. OpenNext => server'[t] = server[t]
  BY <1>0 DEF OpenNext, TInv, NotYetOpened, Over, Txs
<1>2. \A op \in Endings, r \in Txs : Serve(op, r) \/ RefuseTo(op, r) => server'[t] = server[t]
  BY <1>0 DEF Serve, RefuseTo, Over
<1>3. ASSUME NEW u \in Users, ServerStart(u) PROVE server'[t] = server[t]
  BY <1>1, <1>3 DEF ServerStart
<1>4. ASSUME NEW u \in Users, ServerFinish(u) PROVE server'[t] = server[t]
  BY <1>2, <1>4 DEF ServerFinish, TInv, Addressed
<1>5. ASSUME NEW req \in late, ServerLate(req) PROVE server'[t] = server[t]
  BY <1>1, <1>2, <1>5 DEF ServerLate, TInv, Addressed
<1>6. ASSUME NEW u \in Users, UserStep(u) PROVE server' = server
  BY <1>6 DEF UserStep, Find, Start, StartAgain, FinishNothing, Finish, StartAnswered,
     FinishAnswered, Raises, serverVars
<1> QED
  BY <1>3, <1>4, <1>5, <1>6 DEF Next, vars, serverVars

\* What the operations of one user may be in
Operations ==
  /\ doing \in [Users -> Requests \cup {"nothing"}]
  /\ stage \in [Users -> {"idle", "found", "sent", "done", "refused", "error"}]
  /\ arg \in [Users -> Txs \cup {NoTx}]
  /\ told \in [Users ->
       [op : Requests \cup {"none"}, tx : Txs \cup {NoTx},
        result : {"none", "returned", "true", "false", "raised"}]]

\* A request, and a result, are about one transaction or none.
LEMMA AskAndTell ==
  ASSUME TypeOK, NEW u \in Users, NEW op \in Requests, NEW tx \in Txs \cup {NoTx},
         NEW res \in {"none", "returned", "true", "false", "raised"},
         Ask(u, op, tx) \/ Tell(u, op, tx, res)
  PROVE  Operations'
<1>1. Ask(u, op, tx) => Operations'
  BY DEF TypeOK, Operations, Ask, Nothing
<1>2. Tell(u, op, tx, res) => Operations'
  <2> SUFFICES ASSUME Tell(u, op, tx, res) PROVE Operations'
    OBVIOUS
  <2> DEFINE end == [op |-> op, tx |-> tx, result |-> res]
  <2>1. end \in [op : Requests \cup {"none"}, tx : Txs \cup {NoTx},
                 result : {"none", "returned", "true", "false", "raised"}]
    OBVIOUS
  <2>2. told' = [told EXCEPT ![u] = end]
    BY DEF Tell
  <2> HIDE DEF end
  <2>3. told' \in [Users ->
          [op : Requests \cup {"none"}, tx : Txs \cup {NoTx},
           result : {"none", "returned", "true", "false", "raised"}]]
    BY <2>1, <2>2 DEF TypeOK
  <2> QED
    BY <2>3 DEF TypeOK, Operations, Tell
<1> QED
  BY <1>1, <1>2

\* The variables keep their types.
LEMMA TypesHold == TInv /\ [Next]_vars => TypeOK'
<1> SUFFICES ASSUME TInv, [Next]_vars PROVE TypeOK'
  OBVIOUS
<1> USE TransactionsAssumption DEF TypeOK, Requests, Endings
<1>0. TypeOK /\ Addressed
  BY DEF TInv
<1>1. CASE UNCHANGED vars
  BY <1>0, <1>1 DEF vars, serverVars
<1>2. ASSUME NEW u \in Users, NEW op \in Requests, Find(u, op) PROVE TypeOK'
  BY <1>0, <1>2 DEF Find, Overlaps, Nothing, serverVars
<1>3. ASSUME NEW u \in Users, Start(u) PROVE TypeOK'
  BY <1>0, <1>3 DEF Start, Overlaps, Ask, Nothing, serverVars
<1>4. ASSUME NEW u \in Users, StartAgain(u) PROVE TypeOK'
  BY <1>0, <1>4 DEF StartAgain, Tell, serverVars
<1>5. ASSUME NEW u \in Users, NEW op \in Endings, FinishNothing(u, op) PROVE TypeOK'
  BY <1>0, <1>5 DEF FinishNothing, Overlaps, Tell, serverVars
<1>6. ASSUME NEW u \in Users, Finish(u) PROVE TypeOK'
  <2>1. doing[u] \in Requests
    BY <1>6 DEF Finish
  <2>2. Operations'
    BY <1>0, <1>6, <2>1, AskAndTell DEF Finish
  <2> QED
    BY <1>0, <1>6, <2>2 DEF Finish, Operations, serverVars
<1>7. ASSUME NEW u \in Users, StartAnswered(u) PROVE TypeOK'
  <2>1. active' \in Txs \cup {NoTx} /\ UNCHANGED <<serverVars, upset>>
    BY <1>0, <1>7 DEF StartAnswered
  <2>2. Operations'
    BY <1>0, <1>7, AskAndTell DEF StartAnswered
  <2> QED
    BY <1>0, <2>1, <2>2 DEF Operations, serverVars
<1>8. ASSUME NEW u \in Users, FinishAnswered(u) PROVE TypeOK'
  BY <1>0, <1>8 DEF FinishAnswered, Fails, Tell, serverVars
<1>9. ASSUME NEW u \in Users, Raises(u) PROVE TypeOK'
  BY <1>0, <1>9 DEF Raises, Idle, Tell
<1>o. OpenNext => /\ opened + 1 \in Txs
                  /\ opened' \in 0..MaxTx
                  /\ server' \in [Txs -> Status]
  BY <1>0 DEF OpenNext, Txs, Status
<1>s. ASSUME NEW op \in Endings, NEW t \in Txs, Serve(op, t) \/ RefuseTo(op, t)
      PROVE  server' \in [Txs -> Status]
  BY <1>0, <1>s DEF Serve, RefuseTo, Outcome, AfterRefusal, Status
<1>10. ASSUME NEW u \in Users, ServerStart(u) PROVE TypeOK'
  BY <1>0, <1>10, <1>o DEF ServerStart, OpenNext
<1>11. ASSUME NEW u \in Users, ServerFinish(u) PROVE TypeOK'
  BY <1>0, <1>11 DEF ServerFinish, Serve, RefuseTo, Outcome, AfterRefusal, Addressed, Status
<1>12. ASSUME NEW req \in late, ServerLate(req) PROVE TypeOK'
  <2>1. server' \in [Txs -> Status] /\ opened' \in 0..MaxTx
    BY <1>0, <1>12, <1>o, <1>s DEF ServerLate, Addressed
  <2> QED
    BY <1>0, <1>12, <2>1 DEF ServerLate
<1> QED
  BY <1>1, <1>2, <1>3, <1>4, <1>5, <1>6, <1>7, <1>8, <1>9, <1>10, <1>11, <1>12
  DEF Next, UserStep

\* A transaction becomes known by being opened, one after the other.
LEMMA NotYetOpenedHolds == TInv /\ [Next]_vars => NotYetOpened'
<1> SUFFICES ASSUME TInv, [Next]_vars, NEW t \in Txs, t > opened'
             PROVE  server'[t] = "unknown"
  BY DEF NotYetOpened
<1>0. /\ server \in [Txs -> Status] /\ opened \in 0..MaxTx
      /\ t > opened => server[t] = "unknown"
  BY DEF TInv, TypeOK, NotYetOpened
<1>1. OpenNext => server'[t] = "unknown"
  BY <1>0, TransactionsAssumption DEF OpenNext, Txs
<1>2. ASSUME UNCHANGED opened, NEW op \in Endings, NEW r \in Txs,
             Serve(op, r) \/ RefuseTo(op, r)
      PROVE  server'[t] = "unknown"
  BY <1>0, <1>2 DEF Serve, RefuseTo
<1>3. ASSUME NEW u \in Users, ServerStart(u) PROVE server'[t] = "unknown"
  BY <1>0, <1>1, <1>3 DEF ServerStart
<1>4. ASSUME NEW u \in Users, ServerFinish(u) PROVE server'[t] = "unknown"
  BY <1>0, <1>2, <1>4 DEF ServerFinish, TInv, Addressed
<1>5. ASSUME NEW req \in late, ServerLate(req) PROVE server'[t] = "unknown"
  BY <1>1, <1>2, <1>5 DEF ServerLate, TInv, Addressed
<1>6. ASSUME NEW u \in Users, UserStep(u) PROVE UNCHANGED <<server, opened>>
  BY <1>6 DEF UserStep, Find, Start, StartAgain, FinishNothing, Finish, StartAnswered,
     FinishAnswered, Raises, serverVars
<1> QED
  BY <1>0, <1>3, <1>4, <1>5, <1>6 DEF Next, vars, serverVars

\* An operation that ends a transaction names the one that its user found.
LEMMA AddressedHolds == TInv /\ [Next]_vars => Addressed'
<1> SUFFICES ASSUME TInv, [Next]_vars PROVE Addressed'
  OBVIOUS
<1> USE TransactionsAssumption DEF TypeOK, Endings, Addressed
<1>0. TypeOK /\ Addressed
  BY DEF TInv
<1>1. CASE UNCHANGED vars
  BY <1>0, <1>1 DEF vars, serverVars
<1>2. ASSUME NEW u \in Users, NEW op \in Requests, Find(u, op) PROVE Addressed'
  BY <1>0, <1>2 DEF Find, serverVars
<1>3. ASSUME NEW u \in Users, Start(u) PROVE Addressed'
  BY <1>0, <1>3 DEF Start, Ask, serverVars
<1>4. ASSUME NEW u \in Users, NEW op, NEW tx, NEW res, Tell(u, op, tx, res), UNCHANGED late
      PROVE  Addressed'
  BY <1>0, <1>4 DEF Tell
<1>5. ASSUME NEW u \in Users, Finish(u) PROVE Addressed'
  BY <1>0, <1>4, <1>5 DEF Finish, Ask, serverVars
<1>6. ASSUME NEW u \in Users,
             StartAgain(u) \/ (\E op \in Endings : FinishNothing(u, op))
               \/ StartAnswered(u) \/ FinishAnswered(u)
      PROVE  Addressed'
  BY <1>4, <1>6 DEF StartAgain, FinishNothing, StartAnswered, FinishAnswered, serverVars
<1>7. ASSUME NEW u \in Users, Raises(u) PROVE Addressed'
  <2>1. \A req \in late' : req.op \in Endings => req.tx \in Txs
    BY <1>0, <1>7 DEF Raises
  <2> QED
    BY <1>0, <1>7, <2>1 DEF Raises, Tell
<1>8. ASSUME NEW u \in Users, ServerStart(u) \/ ServerFinish(u) PROVE Addressed'
  BY <1>0, <1>8 DEF ServerStart, ServerFinish
<1>9. ASSUME NEW req \in late, ServerLate(req) PROVE Addressed'
  BY <1>0, <1>9 DEF ServerLate
<1> QED
  BY <1>1, <1>2, <1>3, <1>5, <1>6, <1>7, <1>8, <1>9 DEF Next, UserStep

\* What the server has done, it has done for good.
LEMMA DoneIsDoneHolds == TInv /\ [Next]_vars => DoneIsDone'
<1> SUFFICES ASSUME TInv, [Next]_vars,
                    NEW v \in Users, doing'[v] \in Endings, stage'[v] = "done"
             PROVE  server'[arg'[v]] = Outcome(doing'[v])
  BY DEF DoneIsDone
<1> USE DEF Endings
<1>0. TypeOK /\ Addressed /\ DoneIsDone
  BY DEF TInv
<1>1. ASSUME doing'[v] = doing[v], stage'[v] = "done" => stage[v] = "done", arg'[v] = arg[v]
      PROVE  server'[arg'[v]] = Outcome(doing'[v])
  <2>1. arg[v] \in Txs /\ server[arg[v]] = Outcome(doing[v])
    BY <1>0, <1>1 DEF Addressed, DoneIsDone
  <2> QED
    BY <1>1, <2>1, OverIsOver DEF Outcome, Over
<1>2. ASSUME NEW u \in Users, UserStep(u) PROVE server'[arg'[v]] = Outcome(doing'[v])
  BY <1>0, <1>1, <1>2 DEF UserStep, Find, Start, StartAgain, FinishNothing, Finish,
     StartAnswered, FinishAnswered, Raises, Ask, Tell, TypeOK
<1>3. ASSUME NEW u \in Users, ServerStart(u) PROVE server'[arg'[v]] = Outcome(doing'[v])
  BY <1>0, <1>1, <1>3 DEF ServerStart, TypeOK
<1>4. ASSUME NEW u \in Users, ServerFinish(u) PROVE server'[arg'[v]] = Outcome(doing'[v])
  <2>1. CASE u = v
    BY <1>0, <1>1, <1>4, <2>1 DEF ServerFinish, Serve, Addressed, TypeOK
  <2>2. CASE u # v
    BY <1>0, <1>1, <1>4, <2>2 DEF ServerFinish, TypeOK
  <2> QED
    BY <2>1, <2>2
<1>5. ASSUME NEW req \in late, ServerLate(req) PROVE server'[arg'[v]] = Outcome(doing'[v])
  BY <1>1, <1>5 DEF ServerLate
<1> QED
  BY <1>1, <1>2, <1>3, <1>4, <1>5 DEF Next, vars

\* A user is told that it is done when the server has done it.
LEMMA ToldIsDoneHolds == TInv /\ [Next]_vars => ToldIsDone'
<1> SUFFICES ASSUME TInv, [Next]_vars, NEW v \in Users, told'[v].result = "true"
             PROVE  /\ told'[v].op \in Endings
                    /\ told'[v].tx \in Txs
                    /\ server'[told'[v].tx] = Outcome(told'[v].op)
  BY DEF ToldIsDone
<1> DEFINE Goal == /\ told'[v].op \in Endings
                   /\ told'[v].tx \in Txs
                   /\ server'[told'[v].tx] = Outcome(told'[v].op)
<1> USE DEF Endings
<1>0. TypeOK /\ Addressed /\ DoneIsDone /\ ToldIsDone
  BY DEF TInv
<1>1. ASSUME told'[v] = told[v] PROVE Goal
  BY <1>0, <1>1, OverIsOver DEF ToldIsDone, Outcome, Over
<1>2. ASSUME NEW u \in Users, told' = [told EXCEPT ![u] = Nothing] PROVE Goal
  BY <1>0, <1>1, <1>2 DEF TypeOK, Nothing
<1>3. ASSUME NEW u \in Users, NEW op, NEW tx, NEW res, Tell(u, op, tx, res), res # "true"
      PROVE  Goal
  BY <1>0, <1>1, <1>3 DEF TypeOK, Tell
<1>4. ASSUME NEW u \in Users, FinishAnswered(u) PROVE Goal
  <2>1. CASE stage[u] = "done"
    <3>1. arg[u] \in Txs /\ server[arg[u]] = Outcome(doing[u])
      BY <1>0, <1>4, <2>1 DEF FinishAnswered, Addressed, DoneIsDone
    <3>2. server' = server
      BY <1>4 DEF FinishAnswered, serverVars
    <3> QED
      BY <1>0, <1>1, <1>4, <2>1, <3>1, <3>2 DEF FinishAnswered, Tell, TypeOK
  <2>2. CASE stage[u] # "done"
    BY <1>3, <1>4, <2>2 DEF FinishAnswered
  <2> QED
    BY <2>1, <2>2
<1>5. ASSUME NEW u \in Users, UserStep(u) PROVE Goal
  BY <1>2, <1>3, <1>4, <1>5 DEF UserStep, Find, Start, StartAgain, FinishNothing, Finish,
     StartAnswered, Raises, Ask
<1>6. CASE UNCHANGED told
  BY <1>1, <1>6
<1> QED
  BY <1>5, <1>6 DEF Next, vars, ServerStart, ServerFinish, ServerLate

\* A client that is made has no transaction, and nobody was told anything.
LEMMA InitTransactions == Init => TInv
<1> SUFFICES ASSUME Init PROVE TInv
  OBVIOUS
<1> USE DEF Init, Nothing, Status, Requests, Endings
<1>b. {keeps, upset} \subseteq BOOLEAN
  <2>1. keeps \in BOOLEAN /\ upset \in BOOLEAN
    BY Zenon
  <2> QED
    BY <2>1, Zenon
<1>t. told \in [Users ->
        [op : Requests \cup {"none"}, tx : Txs \cup {NoTx},
         result : {"none", "returned", "true", "false", "raised"}]]
  OBVIOUS
<1>n. opened \in 0..MaxTx /\ server \in [Txs -> Status]
  BY TransactionsAssumption DEF Txs
<1>1. TypeOK
  BY <1>b, <1>t, <1>n DEF TypeOK
<1> QED
  BY <1>1 DEF TInv, NotYetOpened, Addressed, DoneIsDone, ToldIsDone

\* The inductive invariant of the client and the server.
THEOREM TransactionsInductive == Spec => []TInv
<1>1. TInv /\ [Next]_vars => TInv'
  BY TypesHold, NotYetOpenedHolds, AddressedHolds, DoneIsDoneHolds, ToldIsDoneHolds DEF TInv
<1> QED
  BY <1>1, InitTransactions, PTL DEF Spec

\* A commit or a rollback that returns True has happened, whatever other threads
\* do with the same client and whatever is lost or late.
THEOREM ResultsAreTrue == Spec => []ToldTheTruth
<1>1. TInv => ToldTheTruth
  BY DEF TInv, ToldIsDone, ToldTheTruth
<1> QED
  BY <1>1, TransactionsInductive, PTL

-----------------------------------------------------------------------------
(***************************************************************************)
(* Agreement, as long as nothing has upset it                              *)
(***************************************************************************)

Agreed == \A t \in Txs : server[t] = "open" <=> active = t

\* What holds of the one operation in progress
WhileIn(u) ==
  /\ stage[u] = "found" => active # NoTx
  /\ stage[u] \in {"found", "sent", "error"} => Agreed
  /\ doing[u] = "start" /\ stage[u] # "found" => active = NoTx
  /\ doing[u] = "start" /\ stage[u] = "refused" => Agreed
  /\ doing[u] = "start" /\ stage[u] = "done" =>
       arg[u] \in Txs /\ \A t \in Txs : server[t] = "open" <=> t = arg[u]
  /\ doing[u] \in Endings /\ stage[u] # "found" => active = arg[u]
  /\ doing[u] \in Endings /\ stage[u] = "done" => \A t \in Txs : server[t] # "open"
  /\ doing[u] \in Endings /\ stage[u] = "refused" =>
       \A t \in Txs : server[t] = "open" <=> t = arg[u] /\ AfterRefusal(doing[u]) = "open"

\* Until then no request is late, one user at a time is in an operation, and
\* between two operations client and server agree.
Calm ==
  ~upset =>
    /\ late = {}
    /\ \A u, v \in Users : ~Idle(u) /\ ~Idle(v) => u = v
    /\ (\A u \in Users : Idle(u)) => Agreed
    /\ \A u \in Users : ~Idle(u) => WhileIn(u)

\* After a step of the only user that is in an operation, it is enough to look
\* at that one.
LEMMA StepOfOne ==
  ASSUME NEW u \in Users, late' = {}, \A v \in Users \ {u} : Idle(v)',
         Idle(u)' => Agreed', ~Idle(u)' => WhileIn(u)'
  PROVE  Calm'
BY DEF Calm

\* Whoever begins an operation that overlaps none begins in agreement.
LEMMA BeginsAlone ==
  ASSUME TInv, Calm, ~upset', NEW u \in Users, Idle(u), Overlaps(u)
  PROVE  ~upset /\ late = {} /\ Agreed /\ \A v \in Users \ {u} : Idle(v)
<1>1. ~upset /\ \A v \in Users \ {u} : Idle(v)
  BY Zenon DEF Overlaps
<1> QED
  BY <1>1 DEF Calm

\* Whoever is in an operation is alone with it.
LEMMA GoesOnAlone ==
  ASSUME TInv, Calm, ~upset, NEW u \in Users, ~Idle(u)
  PROVE  late = {} /\ WhileIn(u) /\ \A v \in Users \ {u} : Idle(v)
BY DEF Calm

\* A step that upsets nothing leaves it so.
LEMMA CalmHolds == TInv /\ Calm /\ [Next]_vars => Calm'
<1> SUFFICES ASSUME TInv, Calm, [Next]_vars, ~upset' PROVE Calm'
  BY DEF Calm
<1> USE TransactionsAssumption DEF TypeOK, Idle, Endings, Txs
<1>0. TypeOK /\ NotYetOpened /\ Addressed
  BY DEF TInv
<1>1. CASE UNCHANGED vars
  BY <1>1 DEF vars, serverVars, Calm, Agreed, WhileIn, AfterRefusal
<1>2. ASSUME NEW u \in Users, NEW op \in Requests, Find(u, op) PROVE Calm'
  <2>1. Idle(u) /\ ~upset /\ late = {} /\ Agreed /\ \A v \in Users \ {u} : Idle(v)
    BY <1>2, BeginsAlone DEF Find
  <2>2. late' = {} /\ Agreed' /\ \A v \in Users \ {u} : Idle(v)'
    BY <1>0, <1>2, <2>1 DEF Find, Agreed, serverVars
  <2>3. WhileIn(u)'
    BY <1>0, <1>2, <2>2 DEF Find, WhileIn
  <2> QED
    BY <2>2, <2>3, StepOfOne
<1>3. ASSUME NEW u \in Users, Start(u) PROVE Calm'
  <2>1. Idle(u) /\ ~upset /\ late = {} /\ Agreed /\ \A v \in Users \ {u} : Idle(v)
    BY <1>3, BeginsAlone DEF Start
  <2>2. late' = {} /\ Agreed' /\ \A v \in Users \ {u} : Idle(v)'
    BY <1>0, <1>3, <2>1 DEF Start, Ask, Agreed, serverVars
  <2>3. WhileIn(u)'
    BY <1>0, <1>3, <2>2 DEF Start, Ask, WhileIn
  <2> QED
    BY <2>2, <2>3, StepOfOne
<1>4. ASSUME NEW u \in Users, NEW op \in Endings, FinishNothing(u, op) PROVE Calm'
  <2>1. Idle(u) /\ ~upset /\ late = {} /\ Agreed /\ \A v \in Users \ {u} : Idle(v)
    BY <1>4, BeginsAlone DEF FinishNothing
  <2>2. late' = {} /\ Agreed' /\ (\A v \in Users \ {u} : Idle(v)') /\ Idle(u)'
    BY <1>0, <1>4, <2>1 DEF FinishNothing, Tell, Agreed, serverVars
  <2> QED
    BY <2>2, StepOfOne
<1>5. ASSUME NEW u \in Users, StartAgain(u) PROVE Calm'
  <2>1. ~Idle(u) /\ ~upset
    BY <1>5, Zenon DEF StartAgain
  <2>2. late = {} /\ WhileIn(u) /\ \A v \in Users \ {u} : Idle(v)
    BY <2>1, GoesOnAlone
  <2>3. late' = {} /\ (\A v \in Users \ {u} : Idle(v)') /\ Idle(u)' /\ Agreed'
    BY <1>0, <1>5, <2>2 DEF StartAgain, Tell, WhileIn, Agreed, serverVars
  <2> QED
    BY <2>3, StepOfOne
<1>6. ASSUME NEW u \in Users, Finish(u) PROVE Calm'
  <2>1. ~Idle(u) /\ ~upset
    BY <1>6 DEF Finish
  <2>2. late = {} /\ WhileIn(u) /\ \A v \in Users \ {u} : Idle(v)
    BY <2>1, GoesOnAlone
  <2>3. late' = {} /\ Agreed' /\ (\A v \in Users \ {u} : Idle(v)')
    BY <1>0, <1>6, <2>2 DEF Finish, Ask, Tell, WhileIn, Agreed, serverVars
  <2>4. ~Idle(u)' => WhileIn(u)'
    BY <1>0, <1>6, <2>3 DEF Finish, Ask, Tell, WhileIn
  <2> QED
    BY <2>3, <2>4, StepOfOne
<1>7. ASSUME NEW u \in Users, StartAnswered(u) PROVE Calm'
  <2>1. ~Idle(u) /\ ~upset
    BY <1>7 DEF StartAnswered
  <2>2. late = {} /\ WhileIn(u) /\ \A v \in Users \ {u} : Idle(v)
    BY <2>1, GoesOnAlone
  <2>3. late' = {} /\ (\A v \in Users \ {u} : Idle(v)') /\ Idle(u)'
    BY <1>0, <1>7, <2>2 DEF StartAnswered, Tell, serverVars
  <2>4. Agreed'
    BY <1>0, <1>7, <2>2 DEF StartAnswered, WhileIn, Agreed, serverVars
  <2> QED
    BY <2>3, <2>4, StepOfOne
<1>8. ASSUME NEW u \in Users, FinishAnswered(u) PROVE Calm'
  <2>1. ~upset /\ ~(stage[u] = "refused" /\ doing[u] = (IF keeps THEN "commitGetMsg" ELSE "commit"))
    BY <1>8, Zenon DEF FinishAnswered, Fails
  <2>2. late = {} /\ WhileIn(u) /\ \A v \in Users \ {u} : Idle(v)
    BY <1>8, <2>1, GoesOnAlone DEF FinishAnswered
  <2>3. late' = {} /\ (\A v \in Users \ {u} : Idle(v)') /\ Idle(u)'
    BY <1>0, <1>8, <2>2 DEF FinishAnswered, Tell, serverVars
  <2>4. Agreed'
    BY <1>0, <1>8, <2>1, <2>2 DEF FinishAnswered, WhileIn, Agreed, serverVars, Clears,
       AfterRefusal
  <2> QED
    BY <2>3, <2>4, StepOfOne
<1>9. ASSUME NEW u \in Users, Raises(u) PROVE FALSE
  BY <1>9 DEF Raises
<1>10. ASSUME NEW u \in Users, ServerStart(u) PROVE Calm'
  <2>1. ~Idle(u) /\ ~upset
    BY <1>10 DEF ServerStart
  <2>2. late = {} /\ WhileIn(u) /\ \A v \in Users \ {u} : Idle(v)
    BY <2>1, GoesOnAlone
  <2>3. late' = {} /\ (\A v \in Users \ {u} : Idle(v)') /\ ~Idle(u)'
    BY <1>10, <2>1, <2>2 DEF ServerStart
  <2>4. WhileIn(u)'
    <3>1. CASE OpenNext
      BY <1>0, <1>10, <2>2, <3>1 DEF ServerStart, OpenNext, WhileIn, Agreed, NotYetOpened
    <3>2. CASE ~OpenNext
      BY <1>0, <1>10, <2>2, <3>2 DEF ServerStart, WhileIn, Agreed
    <3> QED
      BY <3>1, <3>2
  <2> QED
    BY <2>3, <2>4, StepOfOne
<1>11. ASSUME NEW u \in Users, ServerFinish(u) PROVE Calm'
  <2>1. ~Idle(u) /\ ~upset
    BY <1>11 DEF ServerFinish
  <2>2. late = {} /\ WhileIn(u) /\ \A v \in Users \ {u} : Idle(v)
    BY <2>1, GoesOnAlone
  <2>3. late' = {} /\ (\A v \in Users \ {u} : Idle(v)') /\ ~Idle(u)'
    BY <1>11, <2>1, <2>2 DEF ServerFinish
  <2>4. arg[u] \in Txs /\ active = arg[u] /\ Agreed
    BY <1>0, <1>11, <2>2 DEF ServerFinish, Addressed, WhileIn
  <2>5. WhileIn(u)'
    <3>1. CASE stage'[u] = "done"
      BY <1>0, <1>11, <2>4, <3>1 DEF ServerFinish, Serve, Outcome, WhileIn, Agreed
    <3>2. CASE stage'[u] = "refused"
      BY <1>0, <1>11, <2>4, <3>2 DEF ServerFinish, RefuseTo, AfterRefusal, WhileIn, Agreed
    <3>3. CASE stage'[u] \notin {"done", "refused"}
      BY <1>0, <1>11, <2>4, <3>3 DEF ServerFinish, WhileIn, Agreed
    <3> QED
      BY <3>1, <3>2, <3>3
  <2> QED
    BY <2>3, <2>5, StepOfOne
<1>12. ASSUME NEW req \in late, ServerLate(req) PROVE FALSE
  BY <1>12 DEF ServerLate, Calm
<1> QED
  BY <1>1, <1>2, <1>3, <1>4, <1>5, <1>6, <1>7, <1>8, <1>9, <1>10, <1>11, <1>12
  DEF Next, UserStep

\* Both parts of the invariant
LEMMA AgreementInductive == Spec => [](TInv /\ Calm)
<1>1. Init => Calm
  BY TransactionsAssumption DEF Init, Calm, Agreed, Txs, Idle
<1>2. TInv /\ Calm /\ [Next]_vars => Calm'
  BY CalmHolds
<1> QED
  BY <1>1, <1>2, TransactionsInductive, PTL DEF Spec

\* As long as nothing raised, overlapped or failed in the other way, the client
\* remembers, between two operations, the one transaction that is open.
THEOREM ClientAndServerAgree == Spec => []InStep
<1>1. Calm => InStep
  BY DEF Calm, Agreed, InStep
<1> QED
  BY <1>1, AgreementInductive, PTL

\* Under the same conditions what start_transaction() returns is open, the
\* transaction it has just opened as well as the one it found.
THEOREM StartedIsOpen == Spec => StartGivesOpen
<1>1. TInv /\ Calm /\ [Next]_vars =>
        [\A u \in Users :
           /\ ~upset'
           /\ told'[u].op = "start" /\ told'[u].result = "returned"
           /\ told'[u] # told[u]
           => server[told'[u].tx] = "open"]_vars
  <2> SUFFICES ASSUME TInv, Calm, Next, NEW u \in Users, ~upset',
                      told'[u].op = "start", told'[u].result = "returned",
                      told'[u] # told[u]
               PROVE  server[told'[u].tx] = "open"
    BY DEF vars
  <2>0. TypeOK
    BY DEF TInv
  <2>1. StartAgain(u) \/ StartAnswered(u)
    <3>1. told' # told /\ told'[u] # Nothing
      BY DEF Nothing
    <3>2. ASSUME NEW v \in Users, told' = [told EXCEPT ![v] = Nothing] PROVE FALSE
      BY <2>0, <3>1, <3>2 DEF TypeOK
    <3>3. ASSUME NEW v \in Users, NEW op, NEW tx, NEW res, Tell(v, op, tx, res)
          PROVE  v = u /\ op = "start" /\ res = "returned"
      BY <2>0, <3>3 DEF TypeOK, Tell
    <3>4. PICK v \in Users : UserStep(v)
      BY <3>1 DEF Next, ServerStart, ServerFinish, ServerLate
    <3>n. ASSUME NEW op \in Endings, FinishNothing(v, op) PROVE FALSE
      BY <3>3, <3>n DEF FinishNothing
    <3>f. ~Finish(v) /\ ~FinishAnswered(v)
      BY <3>2, <3>3 DEF Finish, FinishAnswered, Ask, Endings
    <3>r. ~Raises(v)
      BY <3>3 DEF Raises
    <3>b. ~Start(v) /\ \A op : ~Find(v, op)
      BY <3>2 DEF Start, Find, Ask
    <3>5. StartAgain(v) \/ StartAnswered(v)
      BY <3>4, <3>n, <3>f, <3>r, <3>b DEF UserStep
    <3>6. v = u
      BY <3>3, <3>5 DEF StartAgain, StartAnswered
    <3> QED
      BY <3>5, <3>6
  <2>2. ~upset /\ ~Idle(u)
    <3>1. UNCHANGED upset
      BY <2>1, Zenon DEF StartAgain, StartAnswered
    <3>2. doing[u] = "start"
      BY <2>1, Zenon DEF StartAgain, StartAnswered
    <3> QED
      BY <3>1, <3>2 DEF Idle
  <2>3. WhileIn(u)
    BY <2>2, GoesOnAlone
  <2>4. CASE StartAgain(u)
    BY <2>0, <2>3, <2>4 DEF StartAgain, Tell, WhileIn, Agreed, TypeOK
  <2>5. CASE StartAnswered(u)
    BY <2>0, <2>3, <2>5 DEF StartAnswered, Tell, WhileIn, TypeOK
  <2> QED
    BY <2>1, <2>4, <2>5
<1> QED
  BY <1>1, AgreementInductive, PTL DEF Spec, StartGivesOpen

=============================================================================
