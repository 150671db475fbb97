------------------------------ MODULE Transfer ------------------------------
(***************************************************************************)
(* transfert_data(): objects copied from a source server to a target one   *)
(* in a transaction (src/py_etp_client/etpscript.py), with the operations  *)
(* of DataStorage and ETPClient that it uses.                              *)
(*                                                                         *)
(* The target is a DataStorage over an ETPClient.  An object with arrays   *)
(* refers to the part that holds them; when it has one, transfert_data()   *)
(* calls itself for that part in the middle of its own transaction, which  *)
(* the inner call commits.  No call rolls a transaction back.              *)
(*                                                                         *)
(* Both servers are external.  A list of URIs is a set here, read in any   *)
(* order; every request may be refused, answered or lost.                  *)
(***************************************************************************)
EXTENDS Naturals, Sequences, SequencesExt

CONSTANTS
  Items,    \* what the source has
  Arrayed,  \* the items that have arrays
  Proxy,    \* for each of those, the item that holds them
  NoProxy   \* ... or none

ASSUME TransferAssumption ==
  /\ Arrayed \subseteq Items
  /\ NoProxy \notin Items
  /\ Proxy \in [Arrayed -> (Items \ Arrayed) \cup {NoProxy}]

VARIABLES
  stored,   \* what the target holds
  staged,   \* what its open transaction would add
  open,     \* the target has a transaction open for this session
  active,   \* active_transaction is set in the client of the target
  late,     \* a commit that the client gave up may still be served
  frames,   \* the calls in progress, the outer one first
  outcome,  \* how the last outer call ended
  acked,    \* history: what it was told was put
  wasOpen   \* history: a transaction was open or active when it began

targetVars == <<stored, staged, open, active, late>>
vars == <<targetVars, frames, outcome, acked, wasOpen>>

-----------------------------------------------------------------------------
Steps == {"list", "fetch", "start", "put", "read", "link", "array", "commit"}

\* A call: what is left to put, what is left to look at for its arrays, and
\* whether the source answered with a ProtocolException in place of objects.
Frames == [overwrite : BOOLEAN, step : Steps, toPut : SUBSET Items,
           toLink : SUBSET Items, broken : BOOLEAN]

Call(items, overwrite) ==
  [overwrite |-> overwrite, step |-> IF overwrite THEN "fetch" ELSE "list",
   toPut |-> items, toLink |-> {}, broken |-> FALSE]

Running(step) == frames # <<>> /\ Last(frames).step = step

Become(frame) == frames' = [frames EXCEPT ![Len(frames)] = frame]
Goto(step) == frames' = [frames EXCEPT ![Len(frames)].step = step]

\* The innermost call returns.
Leave(how) ==
  /\ frames' = Front(frames)
  /\ outcome' = IF Len(frames) = 1 THEN how ELSE outcome

\* An exception that nobody handles ends them all.
Escape ==
  /\ frames' = <<>>
  /\ outcome' = "raised"

Init ==
  /\ stored \in SUBSET Items
  /\ staged = {}
  /\ open = FALSE
  /\ active = FALSE
  /\ late = FALSE
  /\ frames = <<>>
  /\ outcome = "none"
  /\ acked = {}
  /\ wasOpen = FALSE

Transfer(items, overwrite) ==
  /\ frames = <<>> /\ ~late
  /\ frames' = <<Call(items, overwrite)>>
  /\ outcome' = "none"
  /\ acked' = {}
  /\ wasOpen' = (open \/ active)
  /\ UNCHANGED targetVars

-----------------------------------------------------------------------------
(***************************************************************************)
(* The operations of the clients                                           *)
(***************************************************************************)

\* A request is served, in whole or in part, answered by nothing or by a
\* ProtocolException, or send_and_wait() raises.
Answers == {"whole", "part", "nothing", "refused", "raises"}

\* get_data_object(): the objects by the order of their keys, each of which
\* must be there; a ProtocolException is returned as it is.
GetDataObject(answer) ==
  CASE answer = "whole"              -> "objects"
    [] answer = "nothing"            -> "none"
    [] answer = "refused"            -> "exception"
    [] answer \in {"part", "raises"} -> "raised"

\* put_data_object_str(): the objects that the answer lists; anything else is
\* only logged.
PutDataObjectStr(answer, o) ==
  IF answer = "whole" THEN {o} ELSE {}

\* start_transaction() of a DataStorage: the client has one active, and the
\* target has opened it, or nobody knows of one, or only the target does; an
\* exception is swallowed.
Started ==
  \/ active /\ UNCHANGED <<active, open>>
  \/ ~active /\ ~open /\ active' \in BOOLEAN /\ open' = TRUE
  \/ ~active /\ UNCHANGED <<active, open>>

-----------------------------------------------------------------------------
\* Seeded bug: what exists is not taken out.
ListUnfiltered ==
  /\ Running("list")
  /\ \/ Goto("fetch") /\ UNCHANGED outcome
     \/ Escape
  /\ UNCHANGED <<targetVars, acked, wasOpen>>

\* The items that exist at the target are taken out; a server may or may not
\* show what its open transaction has added.
List ==
  /\ Running("list")
  /\ \/ \E shown \in {stored, stored \cup staged} :
          LET left == Last(frames).toPut \ shown IN
          IF left = {}
            THEN Leave("returned")
            ELSE /\ Become([Last(frames) EXCEPT !.toPut = left, !.step = "fetch"])
                 /\ UNCHANGED outcome
     \/ Escape
  /\ UNCHANGED <<targetVars, acked, wasOpen>>

\* The objects are fetched; without any, the call returns.
Fetch ==
  /\ Running("fetch")
  /\ \E answer \in Answers : LET got == GetDataObject(answer) IN
       \/ /\ got \in {"objects", "exception"}
          /\ Become([Last(frames) EXCEPT !.step = "start",
                                         !.broken = (got = "exception")])
          /\ UNCHANGED outcome
       \/ got = "none" /\ Leave("returned")
       \/ got = "raised" /\ Escape
  /\ UNCHANGED <<targetVars, acked, wasOpen>>

\* The transaction is started; a ProtocolException in place of the objects is
\* then counted, which raises.
StartTransaction ==
  /\ Running("start")
  /\ Started
  /\ IF Last(frames).broken
       THEN Escape
       ELSE Goto("put") /\ UNCHANGED outcome
  /\ UNCHANGED <<stored, staged, late, acked, wasOpen>>

\* What the target does with an object it accepts.
Accept(o) ==
  /\ staged' = IF open THEN staged \cup {o} ELSE staged
  /\ stored' = IF open THEN stored ELSE stored \cup {o}

\* put_data_objects() of one object
Put(o) ==
  /\ Running("put")
  /\ o \in Last(frames).toPut
  /\ LET done == [Last(frames) EXCEPT !.toPut = @ \ {o}, !.toLink = @ \cup {o}]
         next == [done EXCEPT !.step = IF done.toPut = {} THEN "read" ELSE "put"]
     IN \/ \E answer \in {"whole", "nothing", "refused"} :
            /\ acked' = acked \cup PutDataObjectStr(answer, o)
            /\ IF answer = "whole" THEN Accept(o) ELSE UNCHANGED <<stored, staged>>
            /\ Become(next) /\ UNCHANGED outcome
        \/ /\ Accept(o) \/ UNCHANGED <<stored, staged>>
           /\ Escape /\ UNCHANGED acked
  /\ UNCHANGED <<open, active, late, wasOpen>>

\* The objects are parsed, once all of them are put.
Read ==
  /\ Running("read")
  /\ \/ Goto("link") /\ UNCHANGED outcome
     \/ Escape
  /\ UNCHANGED <<targetVars, acked, wasOpen>>

\* The arrays of an object: the part that holds them is looked for at the
\* source and transferred, without overwriting; without a part, the next object.
Link(o) ==
  /\ Running("link")
  /\ o \in Last(frames).toLink \cap Arrayed
  /\ LET rest == [Last(frames) EXCEPT !.toLink = @ \ {o}]
         calling == [rest EXCEPT !.step = "array"]
     IN \/ /\ Proxy[o] # NoProxy
           /\ frames' = Front(frames) \o <<calling, Call({Proxy[o]}, FALSE)>>
           /\ UNCHANGED outcome
        \/ /\ Proxy[o] # NoProxy
           /\ Become(rest) /\ UNCHANGED outcome
        \/ /\ Proxy[o] = NoProxy
           /\ Become(calling) /\ UNCHANGED outcome
        \/ /\ Proxy[o] # NoProxy
           /\ Escape
  /\ UNCHANGED <<targetVars, acked, wasOpen>>

\* get_data_array() may return None; put_data_array() is called with an
\* argument that it does not have, which raises.
Array ==
  /\ Running("array")
  /\ \/ Goto("link") /\ UNCHANGED outcome
     \/ Escape
  /\ UNCHANGED <<targetVars, acked, wasOpen>>

Linked ==
  /\ Running("link")
  /\ Last(frames).toLink \cap Arrayed = {}
  /\ Goto("commit")
  /\ UNCHANGED <<targetVars, outcome, acked, wasOpen>>

\* What the target does with a commit that it serves.
Served ==
  /\ stored' = stored \cup staged
  /\ staged' = {}
  /\ open' = FALSE

\* A commit that fails keeps the transaction or ends it.
Refused ==
  /\ UNCHANGED stored
  /\ \/ UNCHANGED <<staged, open>>
     \/ staged' = {} /\ open' = FALSE

\* Seeded bug: a commit that succeeded keeps the transaction active.
CommittedActive == active /\ open /\ Served /\ UNCHANGED <<active, late>>

\* commit_transaction() of a DataStorage, as seen by its caller: it succeeds, it
\* is refused, or it raises in the client, before or after the target served it,
\* with no transaction active or with the answer lost.  An exception is
\* swallowed, and active_transaction is cleared by a success only.
Committed == active /\ open /\ Served /\ active' = FALSE /\ UNCHANGED late

NotCommitted ==
  /\ UNCHANGED active
  /\ \/ UNCHANGED <<stored, staged, open, late>>
     \/ active /\ Refused /\ UNCHANGED late
     \/ active /\ open /\ Served /\ UNCHANGED late
     \/ active /\ open /\ late' = TRUE /\ UNCHANGED <<stored, staged, open>>

\* Seeded bug: the result of commit_transaction() is not looked at.
CommitUnchecked ==
  /\ Running("commit")
  /\ (Committed \/ NotCommitted) /\ Leave("returned")
  /\ UNCHANGED <<acked, wasOpen>>

\* The target is listed, which may raise, and the transaction is committed;
\* whatever does not succeed is logged, and nothing else is done about it.
Commit ==
  /\ Running("commit")
  /\ \/ Committed /\ Leave("returned")
     \/ NotCommitted /\ Leave("complained")
  /\ UNCHANGED <<acked, wasOpen>>

\* A commit that the client gave up reaches the target, or is lost.
CommitLate ==
  /\ late /\ frames = <<>>
  /\ late' = FALSE
  /\ IF open THEN Served \/ UNCHANGED <<stored, staged, open>>
             ELSE UNCHANGED <<stored, staged, open>>
  /\ UNCHANGED <<active, frames, outcome, acked, wasOpen>>

Next ==
  \/ \E items \in (SUBSET Items) \ {{}}, overwrite \in BOOLEAN :
       Transfer(items, overwrite)
  \/ List \/ Fetch \/ StartTransaction \/ Read \/ Array \/ Linked \/ Commit
  \/ CommitLate
  \/ \E o \in Items : Put(o) \/ Link(o)

Spec == Init /\ [][Next]_vars

-----------------------------------------------------------------------------
(***************************************************************************)
(* Properties                                                              *)
(***************************************************************************)

\* The types, and that calls are nested once: a part has no arrays of its own.
TypeOK ==
  /\ {stored, staged, acked} \subseteq SUBSET Items
  /\ {open, active, late, wasOpen} \subseteq BOOLEAN
  /\ frames \in Seq(Frames) /\ Len(frames) <= 2
  /\ outcome \in {"none", "returned", "complained", "raised"}

\* Without overwrite_existing, a call puts nothing that the target holds, also
\* when it is the inner call of one that overwrites or works in a transaction
\* that an earlier call left open.
NoOverwrite ==
  \A i \in DOMAIN frames :
    ~frames[i].overwrite /\ frames[i].step \in {"fetch", "start", "put"}
      => frames[i].toPut \cap stored = {}

\* A call that returns without a complaint has stored whatever it, or the calls
\* it made, was told was put.
AckedIsStored ==
  frames = <<>> /\ outcome = "returned" => acked \subseteq stored

\* ... and leaves no transaction behind that was not there before it.
LeavesNothingOpen ==
  frames = <<>> /\ outcome = "returned" /\ ~wasOpen =>
    ~active /\ ~open /\ staged = {}

=============================================================================
