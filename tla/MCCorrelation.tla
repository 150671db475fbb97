--------------------------- MODULE MCCorrelation ---------------------------
(***************************************************************************)
(* Small instances of Correlation: a call that posts (on_open's            *)
(* RequestSession) and calls that wait.                                    *)
(***************************************************************************)
EXTENDS CorrelationInv, TLC

CONSTANTS c1, c2, p1

TwoCalls == {c1, c2}
CallsAndPost == {c1, c2, p1}
OnePost == {p1}
NoPost == {}

\* The waiting calls are interchangeable.
CallSymmetry == Permutations(TwoCalls)

=============================================================================
