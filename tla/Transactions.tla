---------------------------- MODULE Transactions ----------------------------
(***************************************************************************)
(* The transactions of ETPClient: start_transaction(),                     *)
(* rollback_transaction(), commit_transaction() and                        *)
(* commit_transaction_get_msg() (src/py_etp_client/etpclient.py).          *)
(*                                                                         *)
(* The client remembers one transaction, active_transaction; the server    *)
(* knows them all.  Each operation tests active_transaction, reads it      *)
(* again, waits in send_and_wait() for the answer of the server, and only  *)
(* then writes it: threads that share the client interleave there, and     *)
(* the exceptions of send_and_wait() leave it as it was.                   *)
(*                                                                         *)
(* The server is external: it opens, commits and rolls back transactions   *)
(* or refuses to.                                                          *)
(***************************************************************************)
EXTENDS Naturals, FiniteSets

CONSTANTS
  Users,        \* the threads that share the client
  NoTx,         \* None
  MaxTx,        \* bound: transactions the server opens
  MaxLate       \* bound: requests under way whose caller gave up

ASSUME TransactionsAssumption ==
  /\ {MaxTx, MaxLate} \subseteq Nat
  /\ NoTx \notin 1..MaxTx

VARIABLES
  active,   \* active_transaction
  doing,    \* the request each user waits for, or "nothing"
  stage,    \* active_transaction was "found", or the request is "sent" to the
            \* server, which has "done" it, "refused" it in a response that says
            \* so, or answered with a ProtocolException, an "error"
  arg,      \* the transaction it is about, or that the server opened
  told,     \* history: how the last operation of each idle user ended
  server,   \* what the server knows of each transaction
  opened,   \* how many it has opened
  keeps,    \* it keeps a transaction open whose commit has failed
  late,     \* the requests it has yet to serve though their caller gave up
  upset     \* history: an operation raised, two overlapped, or a commit failed
            \* whose variant expects the other kind of server

serverVars == <<server, opened, keeps, late>>
vars == <<active, doing, stage, arg, told, serverVars, upset>>

-----------------------------------------------------------------------------
Txs == 1..MaxTx
Endings == {"commit", "commitGetMsg", "rollback"}
Requests == {"start"} \cup Endings

\* How an operation ended: which one, with which transaction, and the result.
Nothing == [op |-> "none", tx |-> NoTx, result |-> "none"]

Init ==
  /\ active = NoTx
  /\ doing  = [u \in Users |-> "nothing"]
  /\ stage  = [u \in Users |-> "idle"]
  /\ arg    = [u \in Users |-> NoTx]
  /\ told   = [u \in Users |-> Nothing]
  /\ server = [t \in Txs |-> "unknown"]
  /\ opened = 0
  /\ keeps \in BOOLEAN
  /\ late = {}
  /\ upset = FALSE

Idle(u) == doing[u] = "nothing"

\* The other users' operations, which one that begins overlaps.
Overlaps(u) == upset' = (upset \/ \E v \in Users \ {u} : ~Idle(v))

Ask(u, op, tx) ==
  /\ doing' = [doing EXCEPT ![u] = op]
  /\ stage' = [stage EXCEPT ![u] = "sent"]
  /\ arg'   = [arg EXCEPT ![u] = tx]
  /\ told'  = [told EXCEPT ![u] = Nothing]

\* The operation of u ends.
Tell(u, op, tx, res) ==
  /\ doing' = [doing EXCEPT ![u] = "nothing"]
  /\ stage' = [stage EXCEPT ![u] = "idle"]
  /\ arg'   = [arg EXCEPT ![u] = NoTx]
  /\ told'  = [told EXCEPT ![u] = [op |-> op, tx |-> tx, result |-> res]]

-----------------------------------------------------------------------------
(***************************************************************************)
(* The client                                                              *)
(***************************************************************************)

\* if self.active_transaction is not None, which the other operations need and
\* start_transaction() returns.
Find(u, op) ==
  /\ Idle(u)
  /\ Overlaps(u)
  /\ active # NoTx
  /\ doing' = [doing EXCEPT ![u] = op]
  /\ stage' = [stage EXCEPT ![u] = "found"]
  /\ told'  = [told EXCEPT ![u] = Nothing]
  /\ UNCHANGED <<active, arg, serverVars>>

\* start_transaction() without an active transaction asks for one.
Start(u) ==
  /\ Idle(u)
  /\ Overlaps(u)
  /\ active = NoTx
  /\ Ask(u, "start", NoTx)
  /\ UNCHANGED <<active, serverVars>>

\* With one it returns active_transaction, read once more.
StartAgain(u) ==
  /\ UNCHANGED upset
  /\ doing[u] = "start" /\ stage[u] = "found"
  /\ Tell(u, "start", active, IF active = NoTx THEN "none" ELSE "returned")
  /\ UNCHANGED <<active, serverVars>>

\* The other operations do nothing without an active transaction ...
FinishNothing(u, op) ==
  /\ Idle(u)
  /\ Overlaps(u)
  /\ active = NoTx
  /\ Tell(u, op, NoTx, "false")
  /\ UNCHANGED <<active, serverVars>>

\* ... and otherwise send the one they read; a request cannot be made of None.
Finish(u) ==
  /\ UNCHANGED upset
  /\ doing[u] \in Endings /\ stage[u] = "found"
  /\ \/ /\ active # NoTx
        /\ Ask(u, doing[u], active)
     \/ /\ active = NoTx
        /\ Tell(u, doing[u], NoTx, "raised")
  /\ UNCHANGED <<active, serverVars>>

\* The answer to StartTransaction: an identifier, or None for anything else.
StartAnswered(u) ==
  /\ UNCHANGED upset
  /\ doing[u] = "start"
  /\ \/ /\ stage[u] = "done"
        /\ active' = arg[u]
        /\ Tell(u, "start", arg[u], "returned")
     \/ /\ stage[u] \in {"refused", "error"}
        /\ active' = active
        /\ Tell(u, "start", NoTx, "none")
  /\ UNCHANGED serverVars

\* Seeded bug: any answer clears the active transaction.
ClearsAlways(op, result) ==
  op \in Requests /\ result # "none"

\* Seeded bug: a success does not clear the active transaction.
ClearsNever(op, result) ==
  result = "none" \/ (op = "commitGetMsg" /\ result = "refused")

\* A response that reports a failed commit clears the active transaction in one
\* of the two variants, a success in both and in rollback_transaction().
Clears(op, result) ==
  result = "done" \/ (op = "commitGetMsg" /\ result = "refused")

\* A commit fails at a server that does not do what its variant expects.
Fails(u) ==
  upset' = (upset \/ /\ stage[u] = "refused"
                     /\ doing[u] = (IF keeps THEN "commitGetMsg" ELSE "commit"))

\* Seeded bug: any answer is taken for a success.
FinishSaysTrue(u) ==
  /\ Fails(u)
  /\ doing[u] \in Endings
  /\ stage[u] \in {"done", "refused", "error"}
  /\ active' = IF Clears(doing[u], stage[u]) THEN NoTx ELSE active
  /\ Tell(u, doing[u], arg[u], "true")
  /\ UNCHANGED serverVars

FinishAnswered(u) ==
  /\ Fails(u)
  /\ doing[u] \in Endings
  /\ stage[u] \in {"done", "refused", "error"}
  /\ active' = IF Clears(doing[u], stage[u]) THEN NoTx ELSE active
  /\ Tell(u, doing[u], arg[u], IF stage[u] = "done" THEN "true" ELSE "false")
  /\ UNCHANGED serverVars

\* TimeoutError or RuntimeError, whatever the server has made of the request:
\* one it has not seen yet may still reach it.
Raises(u) ==
  /\ ~Idle(u) /\ stage[u] # "found"
  /\ Tell(u, doing[u], NoTx, "raised")
  /\ upset' = TRUE
  /\ \/ late' = late
     \/ /\ stage[u] = "sent" /\ Cardinality(late) < MaxLate
        /\ late' = late \cup {[op |-> doing[u], tx |-> arg[u]]}
  /\ UNCHANGED <<active, server, opened, keeps>>

-----------------------------------------------------------------------------
(***************************************************************************)
(* The server                                                              *)
(***************************************************************************)

OpenNext ==
  /\ opened < MaxTx
  /\ opened' = opened + 1
  /\ server' = [server EXCEPT ![opened + 1] = "open"]

ServerStart(u) ==
  /\ doing[u] = "start" /\ stage[u] = "sent"
  /\ \/ /\ OpenNext
        /\ arg'    = [arg EXCEPT ![u] = opened + 1]
        /\ stage'  = [stage EXCEPT ![u] = "done"]
     \/ /\ \E no \in {"refused", "error"} : stage' = [stage EXCEPT ![u] = no]
        /\ UNCHANGED <<opened, server, arg>>
  /\ UNCHANGED <<active, doing, told, keeps, late, upset>>

Outcome(op) == IF op = "rollback" THEN "rolledBack" ELSE "committed"

\* What a refusal leaves of a transaction that was open.
AfterRefusal(op) == IF op = "rollback" \/ keeps THEN "open" ELSE "discarded"

Serve(op, t) ==
  /\ server[t] = "open"
  /\ server' = [server EXCEPT ![t] = Outcome(op)]

RefuseTo(op, t) ==
  server' = [server EXCEPT ![t] = IF @ = "open" THEN AfterRefusal(op) ELSE @]

ServerFinish(u) ==
  /\ doing[u] \in Endings /\ stage[u] = "sent"
  /\ \/ /\ Serve(doing[u], arg[u])
        /\ stage'  = [stage EXCEPT ![u] = "done"]
     \/ /\ RefuseTo(doing[u], arg[u])
        /\ stage'  = [stage EXCEPT ![u] = "refused"]
     \/ /\ stage'  = [stage EXCEPT ![u] = "error"]
        /\ UNCHANGED server
  /\ UNCHANGED <<active, doing, arg, told, opened, keeps, late, upset>>

\* A request whose caller has given up is served, refused or lost.
ServerLate(req) ==
  /\ late' = late \ {req}
  /\ \/ req.op = "start" /\ OpenNext
     \/ /\ req.op \in Endings
        /\ Serve(req.op, req.tx) \/ RefuseTo(req.op, req.tx)
        /\ UNCHANGED opened
  /\ UNCHANGED <<active, doing, stage, arg, told, keeps, upset>>

-----------------------------------------------------------------------------
UserStep(u) ==
  \/ \E op \in Requests : Find(u, op)
  \/ Start(u) \/ StartAgain(u)
  \/ \E op \in Endings : FinishNothing(u, op)
  \/ Finish(u)
  \/ StartAnswered(u) \/ FinishAnswered(u) \/ Raises(u)

Next ==
  \/ \E u \in Users : UserStep(u) \/ ServerStart(u) \/ ServerFinish(u)
  \/ \E req \in late : ServerLate(req)

Spec == Init /\ [][Next]_vars

-----------------------------------------------------------------------------
(***************************************************************************)
(* Properties                                                              *)
(***************************************************************************)

Status == {"unknown", "open", "committed", "rolledBack", "discarded"}

\* The client remembers one transaction or none, and each user is in one
\* operation or in none.
TypeOK ==
  /\ active \in Txs \cup {NoTx}
  /\ doing \in [Users -> Requests \cup {"nothing"}]
  /\ stage \in [Users -> {"idle", "found", "sent", "done", "refused", "error"}]
  /\ arg \in [Users -> Txs \cup {NoTx}]
  /\ told \in [Users ->
       [op : Requests \cup {"none"}, tx : Txs \cup {NoTx},
        result : {"none", "returned", "true", "false", "raised"}]]
  /\ server \in [Txs -> Status]
  /\ opened \in 0..MaxTx
  /\ {keeps, upset} \subseteq BOOLEAN
  /\ late \subseteq [op : Requests, tx : Txs \cup {NoTx}]

\* As long as no operation raised, none overlapped another and commits that
\* fail do so as their variant expects: between two operations, the transaction
\* the client remembers is open at the server, and no other transaction is.
InStep ==
  ~upset /\ (\A u \in Users : Idle(u)) =>
    \A t \in Txs : server[t] = "open" <=> active = t

\* A user who is told that the transaction was committed, or rolled back, is
\* told the truth, whatever the other users do with the same client and
\* whatever is lost.
ToldTheTruth ==
  \A u \in Users : told[u].result = "true" =>
    server[told[u].tx] = Outcome(told[u].op)

\* Under the conditions of InStep, the identifier that start_transaction()
\* returns is one of a transaction that is open.
StartGivesOpen ==
  [][\A u \in Users :
       /\ ~upset'
       /\ told'[u].op = "start" /\ told'[u].result = "returned"
       /\ told'[u] # told[u]
       => server[told'[u].tx] = "open"]_vars

=============================================================================
