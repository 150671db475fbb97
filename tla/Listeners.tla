----------------------------- MODULE Listeners -----------------------------
(***************************************************************************)
(* add_listener(), remove_listener() and _notify_listeners() of            *)
(* ETPSimpleClient, for the list of one type of event                      *)
(* (src/py_etp_client/etpsimpleclient.py).                                 *)
(*                                                                         *)
(* A notification walks the list itself, by index as Python does, while    *)
(* the callbacks it calls and the other threads may change that list.      *)
(***************************************************************************)
EXTENDS Naturals, Sequences, FiniteSets, SequencesExt

CONSTANTS
  Callbacks,   \* the callables that are registered
  OneShots,    \* those that remove themselves when they are called
  Failing,     \* those that raise
  Nameless,    \* those without a __name__ (a partial, an instance)
  Removers,    \* those another thread may remove at any moment
  MaxLen,      \* bound: length of the list
  MaxChanges   \* bound: changes made by the other threads

ASSUME ListenersAssumption ==
  /\ OneShots \cup Failing \cup Nameless \cup Removers \subseteq Callbacks
  /\ MaxLen \in Nat
  /\ MaxChanges \in Nat

VARIABLES
  listeners,   \* listeners[event_type]
  phase,       \* of the notification
  index,       \* the iterator's index in the list
  expected,    \* history: the list when the notification began
  called,      \* history: the callbacks called, in order
  removals,    \* history: registrations removed since
  changes      \* history: changes made by other threads

listenerVars == <<listeners, phase, index, expected, called, removals, changes>>

Lists(n) == UNION {[1..k -> Callbacks] : k \in 0..n}

\* What was registered before the first event.
ListenersInit ==
  /\ listeners \in Lists(MaxLen)
  /\ phase = "idle"
  /\ index = 1
  /\ expected = <<>>
  /\ called = <<>>
  /\ removals = 0
  /\ changes = 0

\* list.remove(): the first occurrence, if there is one.
Without(list, cb) ==
  IF \E k \in DOMAIN list : list[k] = cb
  THEN RemoveAt(list, SelectInSeq(list, LAMBDA x : x = cb))
  ELSE list

\* list.remove() of a listener, by anybody.
Unlist(cb) ==
  /\ listeners' = Without(listeners, cb)
  /\ removals' = IF phase = "running" THEN removals + 1 ELSE removals

-----------------------------------------------------------------------------
\* Another thread calls add_listener() or remove_listener().
AddListener(cb) ==
  /\ changes < MaxChanges
  /\ Len(listeners) < MaxLen
  /\ listeners' = Append(listeners, cb)
  /\ changes' = changes + 1
  /\ UNCHANGED <<phase, index, expected, called, removals>>

RemoveListener(cb) ==
  /\ cb \in Removers
  /\ changes < MaxChanges
  /\ Unlist(cb)
  /\ changes' = changes + 1
  /\ UNCHANGED <<phase, index, expected, called>>

Begin ==
  /\ phase = "idle"
  /\ phase' = "running"
  /\ expected' = listeners
  /\ UNCHANGED <<listeners, index, called, removals, changes>>

\* Seeded bug: the exception of a callback is not caught.
AfterCallEscapes(cb) == IF cb \in Failing THEN "escaped" ELSE "running"

\* The exception of a callback is caught; logging it reads its __name__, and
\* the AttributeError of a callback that has none ends the notification.
AfterCall(cb) == IF cb \in Failing \cap Nameless THEN "escaped" ELSE "running"

\* The callback is called, and may remove itself.
Called(cb) ==
  /\ called' = Append(called, cb)
  /\ phase' = AfterCall(cb)
  /\ \/ cb \in OneShots /\ Unlist(cb)
     \/ cb \notin OneShots /\ UNCHANGED <<listeners, removals>>

CallNext ==
  /\ phase = "running"
  /\ index <= Len(listeners)
  /\ Called(listeners[index])
  /\ index' = index + 1
  /\ UNCHANGED <<expected, changes>>

\* Seeded bug: the walk stops one short.
EndEarly ==
  /\ phase = "running"
  /\ index >= Len(listeners)
  /\ phase' = "ended"
  /\ UNCHANGED <<listeners, index, expected, called, removals, changes>>

End ==
  /\ phase = "running"
  /\ index > Len(listeners)
  /\ phase' = "ended"
  /\ UNCHANGED <<listeners, index, expected, called, removals, changes>>

ListenersNext ==
  \/ \E cb \in Callbacks : AddListener(cb) \/ RemoveListener(cb)
  \/ Begin \/ CallNext \/ End

ListenersSpec == ListenersInit /\ [][ListenersNext]_listenerVars

-----------------------------------------------------------------------------
(***************************************************************************)
(* Properties                                                              *)
(***************************************************************************)

\* A notification during which nothing is removed calls every listener that was
\* registered when the event occurred, in the order of registration and before
\* the ones that were added since, whatever the listeners raise: only one that
\* fails without a name cuts it short.
AllCalledInOrder ==
  phase \in {"ended", "escaped"} /\ removals = 0 =>
    IsPrefix(expected, called) \/ Last(called) \in Failing \cap Nameless

\* The registrations of the beginning that are still there but were not called.
Skipped == {k \in DOMAIN expected : /\ expected[k] \in ToSet(listeners)
                                    /\ expected[k] \notin ToSet(called)}

\* A removal while the list is walked makes the notification miss at most one
\* other listener, however the removals and the calls interleave.
SkipsBounded == phase = "ended" => Cardinality(Skipped) <= removals

=============================================================================
