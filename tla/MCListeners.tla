---------------------------- MODULE MCListeners ----------------------------
(***************************************************************************)
(* Three callbacks on one list.                                            *)
(***************************************************************************)
EXTENDS Listeners

CONSTANTS a, b, c

ThreeCallbacks == {a, b, c}
OnlyA == {a}
OnlyB == {b}
OnlyC == {c}
AAndC == {a, c}

=============================================================================
