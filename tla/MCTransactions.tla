--------------------------- MODULE MCTransactions ---------------------------
(***************************************************************************)
(* Two threads that share a client.                                        *)
(***************************************************************************)
EXTENDS Transactions, TLC

CONSTANTS u1, u2

TwoUsers == {u1, u2}
UserSymmetry == Permutations(TwoUsers)

=============================================================================
