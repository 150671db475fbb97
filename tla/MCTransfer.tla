----------------------------- MODULE MCTransfer -----------------------------
(***************************************************************************)
(* Constants for Transfer: an object without arrays, one whose arrays are  *)
(* in a part, that part, and an object that holds its arrays itself.       *)
(***************************************************************************)
EXTENDS Transfer

CONSTANTS plain, linked, part, alone

SomeItems == {plain, linked, part, alone}
SomeArrayed == {linked, alone}
SomeProxy == [o \in SomeArrayed |-> IF o = linked THEN part ELSE NoProxy]

=============================================================================
