----------------------------- MODULE MCRestart -----------------------------
(***************************************************************************)
(* A client started once more, with calls of the first connection still    *)
(* running.                                                                *)
(***************************************************************************)
EXTENDS Restart

CONSTANTS c1, c2, l1

TwoCalls == {c1, c2}
WithInner == {c1, c2, l1}
OneInner == {l1}
NoPost == {}
AnyRestart == {"lost", "stopped"}

=============================================================================
