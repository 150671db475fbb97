----------------------------- MODULE Discovery -----------------------------
(***************************************************************************)
(* ETPClient.get_all_related_objects_uris(): the walk over the objects of  *)
(* a server that are related to some given ones                            *)
(* (src/py_etp_client/etpclient.py).                                       *)
(*                                                                         *)
(* Each turn of the walk takes a URI from to_check, asks the server for    *)
(* the resources within two relations of it, and queues those that it has  *)
(* not met.  get_resources() may return a ProtocolException, which the     *)
(* walk iterates over and logs as if it held no resource, or raise.        *)
(*                                                                         *)
(* The server and the relations between its objects are external; they do  *)
(* not change during the walk.                                             *)
(***************************************************************************)
EXTENDS Naturals, Sequences, SequencesExt

CONSTANTS
  Uris,       \* the objects of the server
  Relations,  \* what they may be related to: functions from Uris to sets
  RootLists   \* the arguments: sequences of URIs

ASSUME DiscoveryAssumption ==
  /\ Relations \subseteq [Uris -> SUBSET Uris]
  /\ RootLists \subseteq Seq(Uris)

VARIABLES
  related,   \* what each object is related to, in the scope of the call
  itself,    \* the scope includes the object itself
  roots,     \* the argument
  toCheck,   \* to_check
  checked,   \* allready_checked
  phase,     \* where the walk is
  found,     \* the resources of the answer that were not looked at yet
  refused    \* history: the URIs whose answer was a ProtocolException

fixedVars == <<related, itself, roots>>
vars == <<fixedVars, toCheck, checked, phase, found, refused>>

-----------------------------------------------------------------------------
\* The object asked for is in its own scope when the scope says "self".
Itself(u) == IF itself THEN {u} ELSE {}

\* Seeded bug: the request has the opposite scope.
NearSources(u) == {v \in Uris : u \in related[v]} \cup Itself(u)

\* The resources that a request of depth two and of the scope has for u.
Near(u) ==
  related[u] \cup (UNION {related[v] : v \in related[u]}) \cup Itself(u)

Init ==
  /\ related \in Relations
  /\ itself \in BOOLEAN
  /\ roots \in RootLists
  /\ toCheck = roots
  /\ checked = <<>>
  /\ phase = "next"
  /\ found = {}
  /\ refused = {}

\* to_check.pop(0), and the answer of the server
CheckNext ==
  /\ phase = "next"
  /\ toCheck # <<>>
  /\ toCheck' = Tail(toCheck)
  /\ checked' = Append(checked, Head(toCheck))
  /\ \/ /\ phase' = "looking"
        /\ found' = Near(Head(toCheck))
        /\ refused' = refused
     \/ /\ phase' = "looking"
        /\ found' = {}
        /\ refused' = refused \cup {Head(toCheck)}
     \/ /\ phase' = "raised"
        /\ UNCHANGED <<found, refused>>
  /\ UNCHANGED fixedVars

\* Seeded bug: what is queued already is queued again.
MetChecked(u) == u \in ToSet(checked)

\* if r.uri not in allready_checked and r.uri not in to_check
Met(u) == u \in ToSet(checked) \cup ToSet(toCheck)

\* Seeded bug: a resource that was met is looked at for ever.
LookStuck(u) ==
  /\ phase = "looking"
  /\ u \in found
  /\ found' = IF Met(u) THEN found ELSE found \ {u}
  /\ toCheck' = IF Met(u) THEN toCheck ELSE Append(toCheck, u)
  /\ UNCHANGED <<fixedVars, checked, phase, refused>>

Look(u) ==
  /\ phase = "looking"
  /\ u \in found
  /\ found' = found \ {u}
  /\ toCheck' = IF Met(u) THEN toCheck ELSE Append(toCheck, u)
  /\ UNCHANGED <<fixedVars, checked, phase, refused>>

Looked ==
  /\ phase = "looking"
  /\ found = {}
  /\ phase' = "next"
  /\ UNCHANGED <<fixedVars, toCheck, checked, found, refused>>

\* Seeded bug: while len(to_check) > 1.
ReturnEarly ==
  /\ phase = "next"
  /\ Len(toCheck) <= 1
  /\ phase' = "returned"
  /\ UNCHANGED <<fixedVars, toCheck, checked, found, refused>>

Return ==
  /\ phase = "next"
  /\ toCheck = <<>>
  /\ phase' = "returned"
  /\ UNCHANGED <<fixedVars, toCheck, checked, found, refused>>

Next ==
  \/ CheckNext \/ Looked \/ Return
  \/ \E u \in Uris : Look(u)

Spec == Init /\ [][Next]_vars

\* Every request ends, by an answer or by its timeout.
FairSpec == Spec /\ WF_vars(Next)

-----------------------------------------------------------------------------
(***************************************************************************)
(* Properties                                                              *)
(***************************************************************************)

\* The lists of get_all_related_objects_uris() hold URIs.
TypeOK ==
  /\ related \in [Uris -> SUBSET Uris]
  /\ itself \in BOOLEAN
  /\ roots \in Seq(Uris)
  /\ toCheck \in Seq(Uris)
  /\ checked \in Seq(Uris)
  /\ phase \in {"next", "looking", "returned", "raised"}
  /\ found \subseteq Uris
  /\ refused \subseteq Uris

Distinct(s) == \A i, j \in DOMAIN s : s[i] = s[j] => i = j

\* No URI is asked for twice, nor returned twice, however the answers overlap
\* and whatever cycles the relations have: but a root given twice.
NoRepeats == Distinct(roots) => Distinct(checked \o toCheck)

\* What get_all_related_objects_uris() returns holds its argument and, with
\* each URI whose request was not refused, everything related to it.
Complete ==
  phase = "returned" =>
    /\ ToSet(roots) \subseteq ToSet(checked)
    /\ \A u \in ToSet(checked) \ refused : Near(u) \subseteq ToSet(checked)

\* It returns nothing else: what it has met is in every set of objects that
\* holds the roots and what is related to its members.
Minimal ==
  \A S \in SUBSET Uris :
    ToSet(roots) \subseteq S /\ (\A u \in S : related[u] \subseteq S)
      => ToSet(checked) \cup ToSet(toCheck) \subseteq S

\* The walk ends, also on relations that have cycles.
Ends == <>(phase \in {"returned", "raised"})

=============================================================================
