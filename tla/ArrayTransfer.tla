--------------------------- MODULE ArrayTransfer ---------------------------
(***************************************************************************)
(* The transfer of one data array by ETPClient, in one message or in       *)
(* chunks of rows: put_data_array_safe() and get_data_array_safe(), with   *)
(* the requests they make (src/py_etp_client/etpclient.py).                *)
(*                                                                         *)
(* An array is cut along its first dimension only, so a row stands for     *)
(* the cells under one index of it.  The writer reckons the bytes of a row *)
(* by the dtype of numpy, the reader by the type in which messages carry   *)
(* the array (src/py_etp_client/etp_requests.py), which may be another.    *)
(*                                                                         *)
(* A writer puts the version "new" over what the server holds, and a       *)
(* reader gets the array, possibly at the same time.  The server is        *)
(* external: it serves a request or refuses it, and send_and_wait() may    *)
(* raise after either, or return only the first part of an answer.         *)
(***************************************************************************)
EXTENDS Naturals, Sequences

CONSTANTS
  Shapes,       \* the arrays: rows, the first dimension, and cells of a row
  DTypes,       \* what a cell is: a kind and a number of bytes
  MaxMessage,   \* max_subarray_size, or the capability of the session
  Refusals,     \* requests may be refused
  Raising,      \* send_and_wait() may raise
  Empty,        \* a response may list no success
  Splits        \* answers in several parts: to a "whole" GetDataArrays,
                \* or to a GetDataSubarrays for a "chunk"

Kinds == {"int", "uint", "float", "bool", "bytes", "str", "other"}

ASSUME ArrayAssumption ==
  /\ Shapes \subseteq [rows : Nat, cells : Nat]
  /\ DTypes \subseteq [kind : Kinds, width : Nat \ {0}]
  /\ MaxMessage \in Nat \ {0}
  /\ {Refusals, Raising, Empty} \subseteq BOOLEAN
  /\ Splits \subseteq {"whole", "chunk"}

VARIABLES
  shape,    \* the shape of the array
  dtype,    \* and the type of its cells, which do not change
  stored,   \* the rows the server holds: "old", "raw" (uninitialized) or "new"
  wpc,      \* where the writer is in put_data_array_safe()
  wstart,   \* its start0
  wres,     \* its res: "empty", "true" or "false"
  rpc,      \* where the reader is in get_data_array_safe()
  rstart,   \* its start0
  array,    \* its array: the rows received, with the version of each
  sizes     \* history: the bytes that the cells of each message sent or asked for
            \* may take, and those that a cell was reckoned at

writerVars == <<wpc, wstart, wres>>
readerVars == <<rpc, rstart, array>>
arrayVars == <<shape, dtype>>
vars == <<arrayVars, stored, writerVars, readerVars, sizes>>

-----------------------------------------------------------------------------
Rows == shape.rows
RowSet == 0..(Rows - 1)
Versions == {"old", "raw", "new"}

\* get_array_class_from_dtype() and get_any_array_type(): in what a message
\* carries the array.  A narrow integer or float is widened, whatever has no
\* class of its own goes as float.
Transport(d) ==
  LET wide == d.width = 8 IN
  CASE d.kind = "int" /\ wide                          -> "long"
    [] d.kind = "uint" \/ (d.kind = "int" /\ ~wide)     -> "int"
    [] d.kind = "float" /\ wide                         -> "double"
    [] d.kind = "other" \/ (d.kind = "float" /\ ~wide)  -> "float"
    [] OTHER                                            -> d.kind

\* get_any_array_type_size()
SizeOf(type) == CASE type \in {"long", "double"} -> 8
                  [] type \in {"int", "float"}   -> 4
                  [] OTHER                       -> 1

\* get_type_size(): the bytes of a cell, and of a row, as numpy holds them
HeldWidth == dtype.width
HeldBytes == shape.cells * HeldWidth

\* ... and as the reader reckons them from the metadata.
ReckonedWidth == SizeOf(Transport(dtype))
ReckonedBytes == shape.cells * ReckonedWidth

\* total_size_bytes <= max_msg_size
OneMessage(rowBytes) == Rows * rowBytes <= MaxMessage

\* Seeded bug: the number of rows of a message is rounded up.
MaxCountRoundsUp(rowBytes) ==
  LET n == (MaxMessage \div rowBytes) + 1 IN IF n > Rows THEN Rows ELSE n

\* max_dim0_count: how many rows fit in a message, and not more than there are.
MaxCount(rowBytes) ==
  LET n == MaxMessage \div rowBytes IN IF n > Rows THEN Rows ELSE n

\* Seeded bug: the last chunk is one row short.
CountDropsLast(start, rowBytes) ==
  IF MaxCount(rowBytes) < Rows - start THEN MaxCount(rowBytes)
                                       ELSE Rows - start - 1

\* min(max_dim0_count, dim0 - start0)
Count(start, rowBytes) ==
  IF MaxCount(rowBytes) < Rows - start THEN MaxCount(rowBytes) ELSE Rows - start

\* The rows of a chunk that the writer sends.
Chunk(start) == start .. (start + Count(start, HeldBytes) - 1)

\* The most that a cell takes in the binary encoding of Avro: an integer is a
\* varint, seven bits a byte with one more for its sign, and a text follows its
\* length, a varint of at most five.
Widest(d) ==
  CASE Transport(d) \in {"long", "int"} -> (8 * d.width + 7) \div 7
    [] Transport(d) = "double"          -> 8
    [] Transport(d) = "float"           -> 4
    [] Transport(d) = "bool"            -> 1
    [] OTHER                            -> d.width + 5

\* get_any_array(): n rows, in the type that carries them
Carry(n, cell) ==
  sizes' = sizes \cup {[bytes |-> n * shape.cells * Widest(dtype), cell |-> cell]}

Init ==
  /\ shape \in Shapes
  /\ dtype \in DTypes
  /\ stored = [r \in RowSet |-> "old"]
  /\ wpc = "idle" /\ wstart = 0 /\ wres = "empty"
  /\ rpc = "idle" /\ rstart = 0 /\ array = <<>>
  /\ sizes = {}

WriteRows(rows, version) ==
  stored' = [r \in RowSet |-> IF r \in rows THEN version ELSE stored[r]]

WGoto(from, to) == wpc = from /\ wpc' = to
RGoto(from, to) == rpc = from /\ rpc' = to

\* What the server makes of a request, and what send_and_wait() makes of that.
Served  == {"ok"} \cup (IF Raising THEN {"late"} ELSE {})
Failed  == (IF Refusals THEN {"refused"} ELSE {})
             \cup (IF Raising THEN {"lost"} ELSE {})
             \cup (IF Empty THEN {"empty"} ELSE {})

-----------------------------------------------------------------------------
(***************************************************************************)
(* put_data_array_safe()                                                   *)
(***************************************************************************)

\* One message, or chunks: an array whose rows do not fit is refused.
Put ==
  /\ WGoto("idle", IF OneMessage(HeldBytes) THEN "single"
                   ELSE IF MaxCount(HeldBytes) = 0 THEN "none" ELSE "uninitialized")
  /\ UNCHANGED <<stored, wstart, wres, readerVars, sizes>>

\* put_data_array()
PutSingle ==
  /\ wpc = "single"
  /\ Carry(Rows, HeldWidth)
  /\ \/ \E s \in Served :
          /\ WriteRows(RowSet, "new")
          /\ WGoto("single", IF s = "ok" THEN "returned" ELSE "raised")
          /\ wres' = IF s = "ok" THEN "true" ELSE wres
     \/ \E f \in Failed :
          /\ WGoto("single", IF f = "lost" THEN "raised" ELSE "returned")
          /\ UNCHANGED <<stored, wres>>
  /\ UNCHANGED <<wstart, readerVars>>

\* put_uninitialized_data_array()
PutUninitialized ==
  /\ \/ \E s \in Served :
          /\ WriteRows(RowSet, "raw")
          /\ WGoto("uninitialized", IF s = "ok" THEN "chunks" ELSE "raised")
     \/ \E f \in Failed :
          /\ WGoto("uninitialized", IF f = "lost" THEN "raised" ELSE "none")
          /\ UNCHANGED stored
  /\ UNCHANGED <<wstart, wres, readerVars, sizes>>

\* One turn of the loop.  A ProtocolException ends it; any response of the
\* right type is taken for a success, whether or not it lists one.
PutChunk ==
  /\ wpc = "chunks"
  /\ wstart < Rows
  /\ Carry(Count(wstart, HeldBytes), HeldWidth)
  /\ \/ \E s \in Served :
          /\ WriteRows(Chunk(wstart), "new")
          /\ WGoto("chunks", IF s = "ok" THEN "chunks" ELSE "raised")
          /\ wres' = IF s = "ok" THEN "true" ELSE wres
          /\ wstart' = wstart + MaxCount(HeldBytes)
     \/ /\ "empty" \in Failed
        /\ WGoto("chunks", "chunks")
        /\ wres' = "true"
        /\ wstart' = wstart + MaxCount(HeldBytes)
        /\ UNCHANGED stored
     \/ \E f \in Failed \ {"empty"} :
          /\ WGoto("chunks", IF f = "lost" THEN "raised" ELSE "returned")
          /\ wres' = IF f = "lost" THEN wres ELSE "false"
          /\ UNCHANGED <<stored, wstart>>
  /\ UNCHANGED readerVars

\* Seeded bug: the loop ends one turn late.
PutDoneLate ==
  /\ wstart > Rows
  /\ WGoto("chunks", "returned")
  /\ UNCHANGED <<stored, wstart, wres, readerVars, sizes>>

PutDone ==
  /\ wstart >= Rows
  /\ WGoto("chunks", "returned")
  /\ UNCHANGED <<stored, wstart, wres, readerVars, sizes>>

-----------------------------------------------------------------------------
(***************************************************************************)
(* get_data_array_safe()                                                   *)
(***************************************************************************)

\* get_data_array_metadata(): the dimensions and the type, or nothing.
GetMetadata == {"known"} \cup (IF Refusals THEN {"none"} ELSE {})
                         \cup (IF Raising THEN {"raised"} ELSE {})

\* The metadata tell what a row takes; without them nothing is read.
Get ==
  /\ \E metadata \in GetMetadata :
       RGoto("idle", IF metadata # "known" THEN metadata
                     ELSE IF OneMessage(ReckonedBytes) THEN "single"
                     ELSE IF MaxCount(ReckonedBytes) = 0 THEN "none" ELSE "chunks")
  /\ UNCHANGED <<stored, writerVars, rstart, array, sizes>>

\* How many rows the first part of the answer for a chunk of n may hold.
PartSizes(n) == IF "chunk" \in Splits THEN 1..n ELSE {n}

\* The rows of an answer, in the order of their index.
RowsOf(start, n) ==
  [k \in 1..n |-> [row |-> start + k - 1, version |-> stored[start + k - 1]]]

\* get_data_array(): the first part of the answer is all it is given, and it
\* is shaped by the dimensions of that part.
GetSingle ==
  /\ rpc = "single"
  /\ Carry(Rows, ReckonedWidth)
  /\ \/ /\ \E n \in (IF "whole" \in Splits /\ Rows > 1 THEN 1..Rows ELSE {Rows}) :
             array' = RowsOf(0, n)
        /\ RGoto("single", "returned")
     \/ Refusals /\ RGoto("single", "none") /\ UNCHANGED array
     \/ Raising /\ RGoto("single", "raised") /\ UNCHANGED array
  /\ UNCHANGED <<stored, writerVars, rstart>>

\* get_data_subarray(), flat: its first part may hold fewer rows than asked.
GetChunk ==
  /\ rpc = "chunks"
  /\ rstart < Rows
  /\ Carry(Count(rstart, ReckonedBytes), ReckonedWidth)
  /\ \/ /\ \E n \in PartSizes(Count(rstart, ReckonedBytes)) :
             array' = array \o RowsOf(rstart, n)
        /\ RGoto("chunks", "chunks")
        /\ rstart' = rstart + MaxCount(ReckonedBytes)
     \/ Refusals /\ RGoto("chunks", "none") /\ UNCHANGED <<array, rstart>>
     \/ Raising /\ RGoto("chunks", "raised") /\ UNCHANGED <<array, rstart>>
  /\ UNCHANGED <<stored, writerVars>>

\* Seeded bug: the array is not reshaped.
GetDoneUnchecked ==
  /\ rstart >= Rows
  /\ RGoto("chunks", "returned")
  /\ UNCHANGED <<stored, writerVars, rstart, array, sizes>>

\* array.reshape(dimensions) raises unless all the elements are there.
GetDone ==
  /\ rstart >= Rows
  /\ RGoto("chunks", IF Len(array) = Rows THEN "returned" ELSE "raised")
  /\ UNCHANGED <<stored, writerVars, rstart, array, sizes>>

-----------------------------------------------------------------------------
Writer == Put \/ PutSingle \/ PutUninitialized \/ PutChunk \/ PutDone
Reader == Get \/ GetSingle \/ GetChunk \/ GetDone

Next == (Writer \/ Reader) /\ UNCHANGED arrayVars

Spec == Init /\ [][Next]_vars

\* Every request ends, by an answer or by its timeout.
FairSpec == Spec /\ WF_vars(Writer /\ UNCHANGED arrayVars)
                 /\ WF_vars(Reader /\ UNCHANGED arrayVars)

-----------------------------------------------------------------------------
(***************************************************************************)
(* Properties                                                              *)
(***************************************************************************)

Pcs == {"idle", "single", "chunks", "none", "returned", "raised"}

\* The loops are where put_data_array_safe() and get_data_array_safe() can be,
\* and what is stored and read are rows of the array.
TypeOK ==
  /\ shape \in Shapes /\ dtype \in DTypes
  /\ stored \in [RowSet -> Versions]
  /\ wpc \in Pcs \cup {"uninitialized"}
  /\ wstart \in Nat
  /\ wres \in {"empty", "true", "false"}
  /\ rpc \in Pcs
  /\ rstart \in Nat
  /\ array \in Seq([row : RowSet, version : Versions])
  /\ sizes \subseteq [bytes : Nat, cell : {HeldWidth, ReckonedWidth}]

\* A put that reports success has written every row: the chunks leave no gap,
\* the last one included, and no refusal is forgotten.
PutTruth ==
  wpc = "returned" /\ wres = "true" => \A r \in RowSet : stored[r] = "new"

\* The cells of a message exceed what the session allows in no greater proportion
\* than one of them may exceed what it was reckoned at: never for floating-point
\* numbers and booleans that are sent as they are held, by a quarter at most for
\* integers of four or eight bytes, and more for the numbers that are widened and
\* for texts, which the reader takes for one byte each.
MessagesFit ==
  \A m \in sizes : m.bytes * m.cell <= MaxMessage * Widest(dtype)

\* The array that get_data_array_safe() returns has all the rows, each once
\* and at its place.
GetWhole ==
  rpc = "returned" =>
    /\ Len(array) = Rows
    /\ \A k \in DOMAIN array : array[k].row = k - 1

\* Both loops end.
TransfersEnd ==
  /\ wpc # "idle" ~> wpc \in {"none", "returned", "raised"}
  /\ rpc # "idle" ~> rpc \in {"none", "returned", "raised"}

=============================================================================
