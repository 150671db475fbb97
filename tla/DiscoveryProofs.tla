-------------------------- MODULE DiscoveryProofs --------------------------
(***************************************************************************)
(* The walk of get_all_related_objects_uris() repeats nothing, misses      *)
(* nothing and adds nothing, for every server, relation and argument.      *)
(***************************************************************************)
EXTENDS Discovery, SequenceTheorems, TLAPS

-----------------------------------------------------------------------------
(***************************************************************************)
(* The inductive invariant                                                 *)
(***************************************************************************)

\* What the walk has met so far.
Known == ToSet(checked) \cup ToSet(toCheck)

\* There is nothing left to look at but between the pop and the next turn.
FoundWhile == phase \in {"next", "returned"} => found = {}

QueueEmpty == phase = "returned" => toCheck = <<>>

RootsKnown == ToSet(roots) \subseteq Known

\* What is related to a URI that was checked is known, or about to be.
NearKnown ==
  phase # "raised" =>
    \A u \in ToSet(checked) \ refused : Near(u) \subseteq Known \cup found

\* A set of objects that holds the roots and what is related to its members.
Closed(S) ==
  /\ ToSet(roots) \subseteq S
  /\ \A u \in S : related[u] \subseteq S

WithinClosed == \A S \in SUBSET Uris : Closed(S) => Known \cup found \subseteq S

DInv ==
  /\ TypeOK
  /\ NoRepeats
  /\ FoundWhile
  /\ QueueEmpty
  /\ RootsKnown
  /\ NearKnown
  /\ WithinClosed

-----------------------------------------------------------------------------
(***************************************************************************)
(* Sequences and the sets of their elements                                *)
(***************************************************************************)

\* Appending an element adds it to the set.
LEMMA ToSetAppend ==
  ASSUME NEW T, NEW s \in Seq(T), NEW e \in T
  PROVE  ToSet(Append(s, e)) = ToSet(s) \cup {e}
<1>1. Append(s, e) \in Seq(T) /\ Len(Append(s, e)) = Len(s) + 1
  OBVIOUS
<1>2. ToSet(Append(s, e)) \subseteq ToSet(s) \cup {e}
  BY <1>1 DEF ToSet
<1>3. ToSet(s) \subseteq ToSet(Append(s, e))
  BY <1>1 DEF ToSet
<1>4. e \in ToSet(Append(s, e))
  <2>1. Append(s, e)[Len(s) + 1] = e /\ Len(s) + 1 \in DOMAIN Append(s, e)
    BY <1>1
  <2> QED BY <2>1 DEF ToSet
<1> QED BY <1>2, <1>3, <1>4

\* The elements are the first one and the others.
LEMMA ToSetHeadTail ==
  ASSUME NEW T, NEW s \in Seq(T), s # <<>>
  PROVE  /\ Head(s) \in T
         /\ Tail(s) \in Seq(T)
         /\ ToSet(s) = {Head(s)} \cup ToSet(Tail(s))
<1>1. /\ Head(s) \in T
      /\ Tail(s) \in Seq(T)
      /\ Len(Tail(s)) = Len(s) - 1
      /\ Len(s) \in Nat \ {0}
      /\ \A i \in 1..Len(Tail(s)) : Tail(s)[i] = s[i + 1]
      /\ s[1] = Head(s)
  OBVIOUS
<1>2. ToSet(s) \subseteq {Head(s)} \cup ToSet(Tail(s))
  <2> SUFFICES ASSUME NEW i \in 1..Len(s), i # 1
               PROVE  s[i] \in ToSet(Tail(s))
    BY <1>1 DEF ToSet
  <2>1. i - 1 \in DOMAIN Tail(s) /\ Tail(s)[i - 1] = s[i]
    BY <1>1
  <2> QED BY <2>1 DEF ToSet
<1>3. {Head(s)} \cup ToSet(Tail(s)) \subseteq ToSet(s)
  <2>1. \A i \in 1..Len(Tail(s)) : i + 1 \in 1..Len(s)
    BY <1>1
  <2> QED BY <1>1, <2>1 DEF ToSet
<1> QED BY <1>1, <1>2, <1>3

\* Taking the first element of a queue to the end of the list before it
\* leaves the two in a row unchanged.
LEMMA MoveHead ==
  ASSUME NEW T, NEW s \in Seq(T), NEW t \in Seq(T), t # <<>>
  PROVE  Append(s, Head(t)) \o Tail(t) = s \o t
OBVIOUS

\* Queueing an element that is neither in the list nor in the queue keeps
\* them free of repetitions.
LEMMA DistinctAppend ==
  ASSUME NEW T, NEW s \in Seq(T), NEW t \in Seq(T), NEW e \in T,
         Distinct(s \o t), e \notin ToSet(s) \cup ToSet(t)
  PROVE  Distinct(s \o Append(t, e))
<1> DEFINE q == s \o t
           r == s \o Append(t, e)
<1>1. /\ q \in Seq(T) /\ r \in Seq(T)
      /\ Len(q) = Len(s) + Len(t) /\ Len(r) = Len(q) + 1
      /\ \A i \in 1..Len(q) : r[i] = q[i]
      /\ r[Len(q) + 1] = e
  OBVIOUS
<1>2. \A i \in 1..Len(q) : q[i] # e
  <2> SUFFICES ASSUME NEW i \in 1..Len(q)
               PROVE  q[i] \in ToSet(s) \cup ToSet(t)
    OBVIOUS
  <2>1. CASE i <= Len(s)
    <3>1. i \in DOMAIN s /\ q[i] = s[i]
      BY <2>1
    <3> QED BY <3>1 DEF ToSet
  <2>2. CASE i > Len(s)
    <3>1. i - Len(s) \in DOMAIN t /\ q[i] = t[i - Len(s)]
      BY <1>1, <2>2
    <3> QED BY <3>1 DEF ToSet
  <2> QED BY <1>1, <2>1, <2>2
<1>3. Distinct(q)
  OBVIOUS
<1> HIDE DEF q, r
<1>4. \A i, j \in 1..Len(r) : r[i] = r[j] => i = j
  <2> SUFFICES ASSUME NEW i \in 1..Len(r), NEW j \in 1..Len(r), r[i] = r[j]
               PROVE  i = j
    OBVIOUS
  <2>1. Len(q) \in Nat /\ DOMAIN q = 1..Len(q)
    BY <1>1
  <2>2. CASE i \in 1..Len(q) /\ j \in 1..Len(q)
    <3>1. q[i] = q[j]
      BY <1>1, <2>2
    <3> QED BY <1>3, <2>1, <2>2, <3>1 DEF Distinct
  <2>3. CASE i = Len(q) + 1 /\ j = Len(q) + 1
    BY <2>3
  <2>4. CASE i \in 1..Len(q) /\ j = Len(q) + 1
    BY <1>1, <1>2, <2>4
  <2>5. CASE i = Len(q) + 1 /\ j \in 1..Len(q)
    <3>1. r[i] = e /\ r[j] = q[j] /\ q[j] # e
      BY <1>1, <1>2, <2>5
    <3> QED BY <3>1
  <2>6. /\ i \in 1..Len(q) \/ i = Len(q) + 1
        /\ j \in 1..Len(q) \/ j = Len(q) + 1
    BY <1>1, <2>1
  <2> QED BY <2>2, <2>3, <2>4, <2>5, <2>6
<1>5. Distinct(r)
  BY <1>1, <1>4 DEF Distinct
<1> QED BY <1>5 DEF r

-----------------------------------------------------------------------------
(***************************************************************************)
(* DInv holds initially                                                    *)
(***************************************************************************)

\* The walk begins with its roots, and nothing checked.
LEMMA Initially == Init => DInv
<1> SUFFICES ASSUME Init PROVE DInv
  OBVIOUS
<1> USE DiscoveryAssumption DEF Init
<1>1. TypeOK
  BY DEF TypeOK
<1>2. ToSet(checked) = {} /\ Known = ToSet(roots)
  BY DEF ToSet, Known
<1>3. checked \o toCheck = roots
  BY <1>1 DEF TypeOK
<1>4. NoRepeats
  BY <1>3 DEF NoRepeats
<1>5. FoundWhile /\ QueueEmpty /\ RootsKnown /\ NearKnown /\ WithinClosed
  BY <1>2 DEF FoundWhile, QueueEmpty, RootsKnown, NearKnown, WithinClosed, Closed
<1> QED BY <1>1, <1>4, <1>5 DEF DInv

-----------------------------------------------------------------------------
(***************************************************************************)
(* Every step keeps DInv                                                   *)
(***************************************************************************)

\* A set that holds u, what is related to u, and what is related to that,
\* holds what is near u.
LEMMA NearWithin ==
  ASSUME NEW u, NEW S, u \in S, related[u] \subseteq S,
         \A v \in related[u] : related[v] \subseteq S
  PROVE  Near(u) \subseteq S
<1>1. UNION {related[v] : v \in related[u]} \subseteq S
  OBVIOUS
<1>2. Itself(u) \subseteq S
  BY DEF Itself
<1> QED BY <1>1, <1>2 DEF Near

\* What is near a member of a closed set belongs to it.
LEMMA NearClosed ==
  ASSUME TypeOK, NEW S \in SUBSET Uris, Closed(S), NEW u \in S
  PROVE  Near(u) \subseteq S
<1>1. related[u] \subseteq S
  BY DEF Closed
<1>2. \A v \in related[u] : related[v] \subseteq S
  BY <1>1 DEF Closed
<1> QED BY <1>1, <1>2, NearWithin

\* The next URI is checked, and its relations asked for.
LEMMA CheckNextKeeps == DInv /\ CheckNext => DInv'
<1> SUFFICES ASSUME DInv, CheckNext PROVE DInv'
  OBVIOUS
<1> USE DEF DInv
<1> DEFINE u == Head(toCheck)
<1>1. /\ toCheck # <<>> /\ phase = "next"
      /\ toCheck' = Tail(toCheck) /\ checked' = Append(checked, u)
      /\ UNCHANGED fixedVars
      /\ phase' \in {"looking", "raised"}
  BY DEF CheckNext
<1>2. /\ toCheck \in Seq(Uris) /\ checked \in Seq(Uris)
      /\ u \in Uris /\ Tail(toCheck) \in Seq(Uris)
      /\ ToSet(toCheck) = {u} \cup ToSet(Tail(toCheck))
  BY <1>1, ToSetHeadTail DEF TypeOK
<1>3. ToSet(checked') = ToSet(checked) \cup {u}
  BY <1>1, <1>2, ToSetAppend
<1>4. Known' = Known
  BY <1>1, <1>2, <1>3 DEF Known
<1>5. found = {}
  BY <1>1 DEF FoundWhile
<1>6. Near(u) \subseteq Uris
  <2>1. \A v \in Uris : related[v] \subseteq Uris
    BY DEF TypeOK
  <2>2. related[u] \subseteq Uris /\ u \in Uris
    BY <1>2, <2>1
  <2>3. \A v \in related[u] : related[v] \subseteq Uris
    BY <2>1, <2>2
  <2> HIDE DEF u
  <2> QED BY <2>2, <2>3, NearWithin
<1>7. TypeOK'
  BY <1>1, <1>2, <1>6 DEF TypeOK, CheckNext, fixedVars
<1>8. NoRepeats'
  <2>1. checked' \o toCheck' = checked \o toCheck
    BY <1>1, <1>2, MoveHead
  <2> QED BY <1>1, <2>1 DEF NoRepeats, fixedVars
<1>9. FoundWhile' /\ QueueEmpty'
  BY <1>1 DEF FoundWhile, QueueEmpty
<1>10. RootsKnown'
  BY <1>1, <1>4 DEF RootsKnown, fixedVars
<1>11. NearKnown'
  <2> SUFFICES ASSUME phase' = "looking",
                      NEW v \in ToSet(checked') \ refused'
               PROVE  Near(v)' \subseteq Known \cup found'
    BY <1>1, <1>4 DEF NearKnown
  <2>1. Near(v)' = Near(v)
    BY <1>1 DEF Near, Itself, fixedVars
  <2>2. CASE v \in ToSet(checked) \ refused
    BY <1>1, <1>5, <2>1, <2>2 DEF NearKnown
  <2>3. CASE v = u
    BY <2>1, <2>3 DEF CheckNext
  <2> QED BY <1>3, <2>2, <2>3 DEF CheckNext
<1>12. WithinClosed'
  <2> SUFFICES ASSUME NEW S \in SUBSET Uris, Closed(S)
               PROVE  Known \cup found' \subseteq S
    BY <1>1, <1>4 DEF WithinClosed, Closed, fixedVars
  <2>1. Known \subseteq S
    BY DEF WithinClosed
  <2>2. u \in S
    BY <1>2, <2>1 DEF Known
  <2>3. Near(u) \subseteq S
    BY <2>2, NearClosed
  <2>4. found' \subseteq {} \cup Near(u)
    BY <1>5 DEF CheckNext
  <2> QED BY <2>1, <2>3, <2>4
<1> QED BY <1>7, <1>8, <1>9, <1>10, <1>11, <1>12

\* One resource of the answer is looked at, and queued when it is new.
LEMMA LookKeeps ==
  ASSUME DInv, NEW u \in Uris, Look(u)
  PROVE  DInv'
<1> USE DEF DInv
<1>1. /\ phase = "looking" /\ phase' = phase
      /\ u \in found /\ found' = found \ {u}
      /\ checked' = checked /\ refused' = refused
      /\ UNCHANGED fixedVars
  BY DEF Look
<1>2. /\ toCheck \in Seq(Uris) /\ checked \in Seq(Uris)
      /\ toCheck' \in Seq(Uris)
  BY DEF TypeOK, Look
<1>3. Known' \cup found' = Known \cup found /\ Known \subseteq Known'
  <2>1. CASE Met(u)
    BY <1>1, <2>1 DEF Look, Met, Known
  <2>2. CASE ~Met(u)
    <3>1. ToSet(toCheck') = ToSet(toCheck) \cup {u}
      BY <1>2, <2>2, ToSetAppend DEF Look
    <3> QED BY <1>1, <3>1 DEF Known
  <2> QED BY <2>1, <2>2
<1>4. TypeOK'
  BY <1>1, <1>2 DEF TypeOK, fixedVars
<1>5. NoRepeats'
  <2> SUFFICES ASSUME Distinct(roots) PROVE Distinct(checked' \o toCheck')
    BY <1>1 DEF NoRepeats, fixedVars
  <2>1. Distinct(checked \o toCheck)
    BY DEF NoRepeats
  <2>2. CASE Met(u)
    BY <1>1, <2>1, <2>2 DEF Look
  <2>3. CASE ~Met(u)
    <3>1. toCheck' = Append(toCheck, u) /\ u \notin ToSet(checked) \cup ToSet(toCheck)
      BY <2>3 DEF Look, Met
    <3> QED BY <1>1, <1>2, <2>1, <3>1, DistinctAppend
  <2> QED BY <2>2, <2>3
<1>6. FoundWhile' /\ QueueEmpty'
  BY <1>1 DEF FoundWhile, QueueEmpty
<1>7. RootsKnown'
  BY <1>1, <1>3 DEF RootsKnown, fixedVars
<1>8. NearKnown'
  <2>1. \A v \in Uris : Near(v)' = Near(v)
    BY <1>1 DEF Near, Itself, fixedVars
  <2>2. ToSet(checked) \subseteq Uris
    BY <1>2 DEF ToSet
  <2> QED BY <1>1, <1>3, <2>1, <2>2 DEF NearKnown
<1>9. WithinClosed'
  BY <1>1, <1>3 DEF WithinClosed, Closed, fixedVars
<1> QED BY <1>4, <1>5, <1>6, <1>7, <1>8, <1>9

\* The end of an answer, the end of the walk, and no step at all.
LEMMA OtherStepsKeep == DInv /\ (Looked \/ Return \/ UNCHANGED vars) => DInv'
<1> SUFFICES ASSUME DInv, Looked \/ Return \/ UNCHANGED vars PROVE DInv'
  OBVIOUS
<1> USE DEF DInv
<1>1. UNCHANGED <<fixedVars, toCheck, checked, found, refused>>
  BY DEF Looked, Return, vars
<1>2. Known' = Known /\ \A u : Near(u)' = Near(u)
  BY <1>1 DEF Known, Near, Itself, fixedVars
<1>3. TypeOK'
  BY <1>1 DEF TypeOK, fixedVars, Looked, Return, vars
<1>4. NoRepeats'
  BY <1>1 DEF NoRepeats, fixedVars
<1>5. FoundWhile' /\ QueueEmpty'
  BY <1>1 DEF FoundWhile, QueueEmpty, Looked, Return, vars
<1>6. RootsKnown'
  BY <1>1, <1>2 DEF RootsKnown, fixedVars
<1>7. NearKnown'
  BY <1>1, <1>2 DEF NearKnown, Looked, Return, vars
<1>8. WithinClosed'
  BY <1>1, <1>2 DEF WithinClosed, Closed, fixedVars
<1> QED BY <1>3, <1>4, <1>5, <1>6, <1>7, <1>8

-----------------------------------------------------------------------------
(***************************************************************************)
(* Theorems                                                                *)
(***************************************************************************)

\* DInv is an invariant of the walk: pop, look, queue and return keep it.
THEOREM WalkInductive == Spec => []DInv
<1>1. DInv /\ [Next]_vars => DInv'
  BY CheckNextKeeps, LookKeeps, OtherStepsKeep DEF Next
<1> QED BY Initially, <1>1, PTL DEF Spec

\* The variables of the walk keep their types.
THEOREM WalkTypes == Spec => []TypeOK
<1>1. DInv => TypeOK
  BY DEF DInv
<1> QED BY WalkInductive, <1>1, PTL

\* get_all_related_objects_uris() asks for no URI twice and returns none twice.
THEOREM WalkRepeatsNothing == Spec => []NoRepeats
<1>1. DInv => NoRepeats
  BY DEF DInv
<1> QED BY WalkInductive, <1>1, PTL

\* It returns everything its argument is related to, over any number of
\* relations, but behind a request that was refused.
THEOREM WalkMissesNothing == Spec => []Complete
<1>1. DInv => Complete
  <2> SUFFICES ASSUME DInv, phase = "returned"
               PROVE  /\ ToSet(roots) \subseteq ToSet(checked)
                      /\ \A u \in ToSet(checked) \ refused :
                           Near(u) \subseteq ToSet(checked)
    BY DEF Complete
  <2>1. ToSet(toCheck) = {} /\ found = {}
    BY DEF DInv, FoundWhile, QueueEmpty, ToSet
  <2> QED BY <2>1 DEF DInv, RootsKnown, NearKnown, Known
<1> QED BY WalkInductive, <1>1, PTL

\* It meets nothing that its argument is not related to.
THEOREM WalkAddsNothing == Spec => []Minimal
<1>1. DInv => Minimal
  BY DEF DInv, WithinClosed, Closed, Known, Minimal
<1> QED BY WalkInductive, <1>1, PTL

=============================================================================
