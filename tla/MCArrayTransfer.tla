-------------------------- MODULE MCArrayTransfer --------------------------
(***************************************************************************)
(* ArrayTransfer on every array of a few rows: none, as many as fill the   *)
(* messages exactly, one more, and rows that fit in no message; of cells   *)
(* that messages carry as they are held, wider or narrower, or in as many  *)
(* bytes as their value needs.                                             *)
(***************************************************************************)
EXTENDS ArrayTransfer

SmallShapes == [rows : 0..5, cells : 0..2]

SomeDTypes == {[kind |-> "int", width |-> 8], [kind |-> "int", width |-> 4],
               [kind |-> "int", width |-> 1], [kind |-> "uint", width |-> 8],
               [kind |-> "float", width |-> 8], [kind |-> "float", width |-> 2],
               [kind |-> "bool", width |-> 1], [kind |-> "str", width |-> 8],
               [kind |-> "other", width |-> 16]}

SplitChunks == {"chunk"}

=============================================================================
