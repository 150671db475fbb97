-------------------------- MODULE ArrayTransferProofs --------------------------
(***************************************************************************)
(* Proofs about ArrayTransfer, for arrays of any shape and type, any limit *)
(* of a message, and any refusals and timeouts: the chunks of a put leave  *)
(* no gap, those of a get do not overlap, and messages fit.                *)
(***************************************************************************)
EXTENDS ArrayTransfer, TLAPS

-----------------------------------------------------------------------------
(***************************************************************************)
(* Arithmetic                                                              *)
(***************************************************************************)

\* As many rows as the quotient says fit in a message.
LEMMA QuotientFits ==
  ASSUME NEW m \in Nat, NEW n \in Nat, n > 0
  PROVE  (m \div n) \in Nat /\ (m \div n) * n <= m
OBVIOUS

\* Fewer rows take no more bytes.
LEMMA ProductGrows ==
  ASSUME NEW a \in Nat, NEW b \in Nat, NEW c \in Nat, a <= b
  PROVE  a * c <= b * c /\ c * a <= c * b
OBVIOUS

\* The bytes of some rows are those of their cells.
LEMMA ProductTurns ==
  ASSUME NEW a \in Nat, NEW b \in Nat, NEW c \in Nat
  PROVE  a * b \in Nat /\ a * b * c = a * (b * c) /\ a * b * c \in Nat
OBVIOUS

-----------------------------------------------------------------------------
(***************************************************************************)
(* Types                                                                   *)
(***************************************************************************)

\* The bytes of a row are a number, on either side.
LEMMA RowBytes ==
  ASSUME shape \in Shapes, dtype \in DTypes
  PROVE  /\ Rows \in Nat /\ shape.cells \in Nat
         /\ dtype.width \in Nat \ {0} /\ dtype.kind \in Kinds
         /\ Widest(dtype) \in Nat \ {0}
         /\ HeldWidth \in Nat \ {0} /\ ReckonedWidth \in Nat \ {0}
         /\ HeldBytes \in Nat /\ ReckonedBytes \in Nat
<1>1. /\ shape \in [rows : Nat, cells : Nat]
      /\ dtype \in [kind : Kinds, width : Nat \ {0}]
  BY ArrayAssumption
<1>2. /\ Widest(dtype) \in Nat \ {0}
      /\ HeldWidth \in Nat \ {0} /\ ReckonedWidth \in Nat \ {0}
  BY <1>1 DEF Widest, HeldWidth, ReckonedWidth, SizeOf
<1> QED
  BY <1>1, <1>2, ProductTurns DEF Rows, HeldBytes, ReckonedBytes

\* An array that does not go in one message has rows and cells, and a chunk of
\* it takes no more than a message holds.
LEMMA ChunkFits ==
  ASSUME shape \in Shapes, dtype \in DTypes, NEW b \in {HeldBytes, ReckonedBytes},
         ~OneMessage(b), NEW start \in Nat, start < Rows
  PROVE  /\ MaxCount(b) \in Nat
         /\ Count(start, b) \in Nat
         /\ Count(start, b) <= MaxCount(b)
         /\ start + Count(start, b) <= Rows
         /\ start + MaxCount(b) < Rows => Count(start, b) = MaxCount(b)
         /\ start + MaxCount(b) >= Rows => Count(start, b) = Rows - start
         /\ Count(start, b) * b <= MaxMessage
<1>1. b \in Nat /\ Rows \in Nat /\ MaxMessage \in Nat
  BY RowBytes, ArrayAssumption
<1>2. b > 0
  BY <1>1 DEF OneMessage
<1>3. (MaxMessage \div b) \in Nat /\ (MaxMessage \div b) * b <= MaxMessage
  BY <1>1, <1>2, QuotientFits
<1>4. MaxCount(b) \in Nat /\ MaxCount(b) <= MaxMessage \div b
  BY <1>1, <1>3 DEF MaxCount
<1>5. /\ Count(start, b) \in Nat
      /\ Count(start, b) <= MaxCount(b)
      /\ start + Count(start, b) <= Rows
      /\ start + MaxCount(b) < Rows => Count(start, b) = MaxCount(b)
      /\ start + MaxCount(b) >= Rows => Count(start, b) = Rows - start
  BY <1>1, <1>4 DEF Count
<1>6. Count(start, b) * b <= (MaxMessage \div b) * b
  BY <1>1, <1>3, <1>4, <1>5, ProductGrows
<1>7. Count(start, b) * b \in Nat /\ (MaxMessage \div b) * b \in Nat
  BY <1>1, <1>3, <1>5, ProductTurns
<1> QED
  BY <1>1, <1>3, <1>4, <1>5, <1>6, <1>7

\* The message that n rows make, for cells reckoned at so many bytes
MessageOf(n, cell) == [bytes |-> n * shape.cells * Widest(dtype), cell |-> cell]

\* Rows that were reckoned to fit exceed the limit in no greater proportion than a
\* cell exceeds what it was reckoned at.
LEMMA CarriedAsReckoned ==
  ASSUME shape \in Shapes, dtype \in DTypes, NEW n \in Nat,
         NEW cell \in {HeldWidth, ReckonedWidth}
  PROVE  /\ MessageOf(n, cell) \in [bytes : Nat, cell : {HeldWidth, ReckonedWidth}]
         /\ n * (shape.cells * cell) <= MaxMessage =>
              MessageOf(n, cell).bytes * cell <= MaxMessage * Widest(dtype)
<1> DEFINE w == Widest(dtype)
           c == shape.cells
<1>1. c \in Nat /\ w \in Nat /\ cell \in Nat \ {0} /\ MaxMessage \in Nat
  BY RowBytes, ArrayAssumption
<1>2. MessageOf(n, cell) = [bytes |-> n * c * w, cell |-> cell]
  BY DEF MessageOf
<1> HIDE DEF w, c
<1>3. n * c \in Nat /\ n * c * w \in Nat /\ c * cell \in Nat /\ n * (c * cell) \in Nat
  BY <1>1, ProductTurns
<1>4. n * c * w * cell = n * (c * cell) * w
  <2>1. n * c * w * cell = n * c * (w * cell)
    BY <1>1, <1>3, ProductTurns
  <2>2. w * cell = cell * w /\ cell * w \in Nat
    BY <1>1
  <2>3. n * c * (cell * w) = n * c * cell * w
    BY <1>1, <1>3, ProductTurns
  <2>4. n * c * cell = n * (c * cell)
    BY <1>1, ProductTurns
  <2> QED
    BY <2>1, <2>2, <2>3, <2>4
<1>5. n * (c * cell) <= MaxMessage => n * (c * cell) * w <= MaxMessage * w
  BY <1>1, <1>3, ProductGrows
<1> QED
  BY <1>1, <1>2, <1>3, <1>4, <1>5 DEF w, c

-----------------------------------------------------------------------------
(***************************************************************************)
(* The inductive invariant                                                 *)
(***************************************************************************)

\* What was written of the array, in order, by the writer's turns so far
Written == \A r \in RowSet : r < wstart => stored[r] = "new"

\* One message is taken where it fits, chunks where it does not; the chunks that
\* were accepted are written; and whoever is told true has written all.
WriterInv ==
  /\ wpc = "single" => OneMessage(HeldBytes)
  /\ wpc \in {"uninitialized", "chunks"} => ~OneMessage(HeldBytes)
  /\ wpc \in {"idle", "single", "uninitialized", "none"} => wres = "empty" /\ wstart = 0
  /\ ~Empty => (wpc = "chunks" => Written) /\ PutTruth

\* The rows that can have been read
Reached == IF rstart < Rows THEN rstart ELSE Rows

\* What has been read is never more than the chunks asked for, and in order when
\* it is not less.
Placed ==
  /\ Len(array) <= Reached
  /\ Len(array) = Reached => \A k \in DOMAIN array : array[k].row = k - 1

ReaderInv ==
  /\ rpc = "single" => OneMessage(ReckonedBytes)
  /\ rpc = "chunks" => ~OneMessage(ReckonedBytes)
  /\ rpc \in {"idle", "single"} => array = <<>> /\ rstart = 0
  /\ rpc = "chunks" => Placed
  /\ "whole" \notin Splits => GetWhole

AInv == TypeOK /\ WriterInv /\ ReaderInv /\ MessagesFit

\* The messages, by what their cells take
MessageSet == [bytes : Nat, cell : {HeldWidth, ReckonedWidth}]

\* The rows of an array, and an answer with some of them
RowRecords == [row : RowSet, version : Versions]

LEMMA RowsTyped ==
  ASSUME TypeOK, NEW start \in Nat, NEW n \in Nat, start + n <= Rows
  PROVE  /\ RowsOf(start, n) \in Seq(RowRecords)
         /\ Len(RowsOf(start, n)) = n
         /\ \A k \in 1..n : RowsOf(start, n)[k].row = start + k - 1
<1>1. Rows \in Nat
  BY RowBytes DEF TypeOK
<1>2. \A k \in 1..n : /\ start + k - 1 \in RowSet
                      /\ stored[start + k - 1] \in Versions
  BY <1>1 DEF TypeOK, RowSet
<1> QED
  BY <1>2 DEF RowsOf, RowRecords

\* The rows of a chunk are rows of the array.
LEMMA WriteTyped ==
  ASSUME TypeOK, NEW rows, NEW version \in Versions, WriteRows(rows, version)
  PROVE  stored' \in [RowSet -> Versions]
BY DEF TypeOK, WriteRows

\* The array stays what it is, and what is reckoned for it.
LEMMA ShapeStays ==
  ASSUME UNCHANGED arrayVars
  PROVE  /\ UNCHANGED <<shape, dtype, Rows, RowSet, HeldBytes, ReckonedBytes,
                         OneMessage(HeldBytes), OneMessage(ReckonedBytes)>>
         /\ UNCHANGED <<Widest(dtype), HeldWidth, ReckonedWidth>>
BY DEF arrayVars, Rows, RowSet, HeldBytes, HeldWidth, ReckonedBytes, ReckonedWidth,
   OneMessage, SizeOf, Transport, Widest

\* The writer's variables keep their types.
LEMMA WriterTypes ==
  ASSUME AInv, Writer, UNCHANGED arrayVars
  PROVE  TypeOK'
<1>0. /\ TypeOK /\ WriterInv /\ shape \in Shapes /\ dtype \in DTypes
      /\ UNCHANGED <<shape, dtype, RowSet, Rows, HeldWidth, ReckonedWidth>>
  BY ShapeStays DEF AInv, TypeOK
<1>1. ASSUME NEW n \in Nat, NEW cell \in {HeldWidth, ReckonedWidth}, Carry(n, cell)
      PROVE  sizes' \subseteq MessageSet
  <2>1. sizes' = sizes \cup {MessageOf(n, cell)}
    BY <1>1 DEF Carry, MessageOf
  <2>2. MessageOf(n, cell) \in MessageSet
    BY <1>0, <1>1, CarriedAsReckoned DEF MessageSet
  <2> QED
    BY <1>0, <2>1, <2>2 DEF TypeOK, MessageSet
<1>2. Rows \in Nat
  BY <1>0, RowBytes
<1> USE DEF Pcs, WGoto, readerVars, Versions
<1>3. CASE Put
  BY <1>0, <1>3 DEF Put, TypeOK
<1>4. CASE PutSingle
  <2>1. sizes' \subseteq MessageSet
    BY <1>1, <1>2, <1>4 DEF PutSingle
  <2>2. stored' \in [RowSet -> Versions]
    BY <1>0, <1>4, WriteTyped DEF PutSingle, TypeOK
  <2> QED
    BY <1>0, <1>4, <2>1, <2>2 DEF PutSingle, TypeOK, MessageSet
<1>5. CASE PutUninitialized
  <2>1. stored' \in [RowSet -> Versions]
    BY <1>0, <1>5, WriteTyped DEF PutUninitialized, TypeOK
  <2> QED
    BY <1>0, <1>5, <2>1 DEF PutUninitialized, TypeOK
<1>6. CASE PutChunk
  <2>1. /\ MaxCount(HeldBytes) \in Nat /\ Count(wstart, HeldBytes) \in Nat
        /\ wstart + MaxCount(HeldBytes) \in Nat
    BY <1>0, <1>6, ChunkFits DEF PutChunk, WriterInv, TypeOK
  <2>2. sizes' \subseteq MessageSet
    BY <1>1, <1>6, <2>1 DEF PutChunk
  <2>3. stored' \in [RowSet -> Versions]
    BY <1>0, <1>6, WriteTyped DEF PutChunk, TypeOK
  <2> QED
    BY <1>0, <1>6, <2>1, <2>2, <2>3 DEF PutChunk, TypeOK, MessageSet
<1>7. CASE PutDone
  BY <1>0, <1>7 DEF PutDone, TypeOK
<1> QED
  BY <1>3, <1>4, <1>5, <1>6, <1>7 DEF Writer

\* The reader's variables keep their types.
LEMMA ReaderTypes ==
  ASSUME AInv, Reader, UNCHANGED arrayVars
  PROVE  TypeOK'
<1>0. /\ TypeOK /\ ReaderInv /\ shape \in Shapes /\ dtype \in DTypes
      /\ UNCHANGED <<shape, dtype, RowSet, Rows, HeldWidth, ReckonedWidth>>
  BY ShapeStays DEF AInv, TypeOK
<1>1. ASSUME NEW n \in Nat, NEW cell \in {HeldWidth, ReckonedWidth}, Carry(n, cell)
      PROVE  sizes' \subseteq MessageSet
  <2>1. sizes' = sizes \cup {MessageOf(n, cell)}
    BY <1>1 DEF Carry, MessageOf
  <2>2. MessageOf(n, cell) \in MessageSet
    BY <1>0, <1>1, CarriedAsReckoned DEF MessageSet
  <2> QED
    BY <1>0, <2>1, <2>2 DEF TypeOK, MessageSet
<1>2. Rows \in Nat
  BY <1>0, RowBytes
<1> USE DEF Pcs, RGoto, writerVars
<1>3. CASE Get
  BY <1>0, <1>3 DEF Get, GetMetadata, TypeOK
<1>4. CASE GetSingle
  <2>1. sizes' \subseteq MessageSet
    BY <1>1, <1>2, <1>4 DEF GetSingle
  <2>2. array' \in Seq(RowRecords)
    <3>1. array \in Seq(RowRecords)
      BY <1>0 DEF TypeOK, RowRecords
    <3>2. \A n \in 0..Rows : RowsOf(0, n) \in Seq(RowRecords)
      BY <1>0, <1>2, RowsTyped
    <3>3. array' = array \/ \E n \in 0..Rows : array' = RowsOf(0, n)
      BY <1>2, <1>4 DEF GetSingle
    <3> QED
      BY <3>1, <3>2, <3>3
  <2> QED
    BY <1>0, <1>4, <2>1, <2>2 DEF GetSingle, TypeOK, RowRecords, MessageSet
<1>5. CASE GetChunk
  <2>1. /\ MaxCount(ReckonedBytes) \in Nat /\ Count(rstart, ReckonedBytes) \in Nat
        /\ rstart + MaxCount(ReckonedBytes) \in Nat
        /\ rstart + Count(rstart, ReckonedBytes) <= Rows
    BY <1>0, <1>5, ChunkFits DEF GetChunk, ReaderInv, TypeOK
  <2>2. sizes' \subseteq MessageSet
    BY <1>1, <1>5, <2>1 DEF GetChunk
  <2>3. \A n \in PartSizes(Count(rstart, ReckonedBytes)) :
          RowsOf(rstart, n) \in Seq(RowRecords)
    BY <1>0, <1>2, <2>1, RowsTyped DEF PartSizes, TypeOK
  <2>4. array' \in Seq(RowRecords)
    <3>1. array \in Seq(RowRecords)
      BY <1>0 DEF TypeOK, RowRecords
    <3>2. \/ array' = array
          \/ \E n \in PartSizes(Count(rstart, ReckonedBytes)) :
               array' = array \o RowsOf(rstart, n)
      BY <1>5 DEF GetChunk
    <3>3. \A t \in Seq(RowRecords) : array \o t \in Seq(RowRecords)
      BY <3>1
    <3> QED
      BY <2>3, <3>1, <3>2, <3>3, Zenon
  <2> QED
    BY <1>0, <1>5, <2>1, <2>2, <2>4 DEF GetChunk, TypeOK, RowRecords, MessageSet
<1>6. CASE GetDone
  BY <1>0, <1>6 DEF GetDone, TypeOK
<1> QED
  BY <1>3, <1>4, <1>5, <1>6 DEF Reader

-----------------------------------------------------------------------------
(***************************************************************************)
(* The steps                                                               *)
(***************************************************************************)

\* A turn of the writer adds its rows to those that are written.
LEMMA WriterKeeps ==
  ASSUME AInv, Writer, UNCHANGED arrayVars
  PROVE  WriterInv'
<1>0. /\ TypeOK /\ WriterInv /\ shape \in Shapes /\ dtype \in DTypes
      /\ UNCHANGED <<Rows, RowSet, HeldBytes, OneMessage(HeldBytes)>>
  BY ShapeStays DEF AInv, TypeOK
<1>2. Rows \in Nat /\ wstart \in Nat /\ stored \in [RowSet -> Versions]
  BY <1>0, RowBytes DEF TypeOK
<1> USE DEF WriterInv, WGoto
<1>3. CASE Put
  BY <1>0, <1>3 DEF Put, PutTruth
<1>4. CASE PutSingle
  <2>1. ~Empty => PutTruth'
    BY <1>0, <1>4 DEF PutSingle, PutTruth, WriteRows, Failed
  <2> QED
    BY <1>0, <1>4, <2>1 DEF PutSingle
<1>5. CASE PutUninitialized
  BY <1>0, <1>2, <1>5 DEF PutUninitialized, PutTruth, Written, RowSet, Failed
<1>6. CASE PutChunk
  <2> DEFINE max == MaxCount(HeldBytes)
  <2>1. /\ max \in Nat
        /\ Count(wstart, HeldBytes) \in Nat
        /\ wstart + max < Rows => Count(wstart, HeldBytes) = max
        /\ wstart + max >= Rows => Count(wstart, HeldBytes) = Rows - wstart
    BY <1>0, <1>2, <1>6, ChunkFits DEF PutChunk
  <2>2. \A r \in RowSet : r < wstart + max => r < wstart \/ r \in Chunk(wstart)
    BY <1>2, <2>1 DEF Chunk, RowSet
  <2>3. ASSUME ~Empty, wpc' = "chunks" PROVE Written'
    <3>1. WriteRows(Chunk(wstart), "new") /\ wstart' = wstart + max
      BY <1>6, <2>3 DEF PutChunk, Failed
    <3>2. Written
      BY <1>0, <1>6, <2>3 DEF PutChunk
    <3> HIDE DEF max
    <3>3. ASSUME NEW r \in RowSet, r < wstart' PROVE stored'[r] = "new"
      BY <1>2, <2>2, <3>1, <3>2, <3>3 DEF Written, WriteRows
    <3> QED
      BY <1>0, <3>3 DEF Written
  <2>4. ~Empty => PutTruth'
    BY <1>6 DEF PutChunk, PutTruth, Failed
  <2>5. wpc = "chunks" /\ wpc' \in {"chunks", "raised", "returned"}
    BY <1>6 DEF PutChunk
  <2> QED
    BY <1>0, <2>3, <2>4, <2>5
<1>7. CASE PutDone
  <2>1. Written => \A r \in RowSet : stored[r] = "new"
    BY <1>2, <1>7 DEF PutDone, Written, RowSet
  <2> QED
    BY <1>0, <1>7, <2>1 DEF PutDone, PutTruth
<1> QED
  BY <1>3, <1>4, <1>5, <1>6, <1>7 DEF Writer

\* A turn of the reader adds rows at their place, or falls short for good.
LEMMA ReaderKeeps ==
  ASSUME AInv, Reader, UNCHANGED arrayVars
  PROVE  ReaderInv'
<1>0. /\ TypeOK /\ ReaderInv /\ shape \in Shapes /\ dtype \in DTypes
      /\ UNCHANGED <<Rows, RowSet, ReckonedBytes, OneMessage(ReckonedBytes)>>
  BY ShapeStays DEF AInv, TypeOK
<1>2. Rows \in Nat /\ rstart \in Nat /\ array \in Seq(RowRecords)
  BY <1>0, RowBytes DEF TypeOK, RowRecords
<1> USE DEF ReaderInv, RGoto
<1>3. CASE Get
  BY <1>0, <1>2, <1>3 DEF Get, GetMetadata, GetWhole, Placed, Reached
<1>4. CASE GetSingle
  <2>1. ASSUME "whole" \notin Splits, rpc' = "returned" PROVE GetWhole'
    <3>1. array' = RowsOf(0, Rows)
      BY <1>4, <2>1 DEF GetSingle
    <3>2. /\ RowsOf(0, Rows) \in Seq(RowRecords)
          /\ Len(RowsOf(0, Rows)) = Rows
          /\ \A k \in 1..Rows : RowsOf(0, Rows)[k].row = 0 + k - 1
      <4>1. TypeOK /\ 0 \in Nat /\ Rows \in Nat /\ 0 + Rows <= Rows
        BY <1>0, <1>2
      <4> QED
        BY <4>1, RowsTyped, Zenon
    <3>3. /\ Len(RowsOf(0, Rows)) = Rows
          /\ \A k \in DOMAIN RowsOf(0, Rows) : RowsOf(0, Rows)[k].row = k - 1
      BY <1>2, <3>2
    <3> QED
      BY <1>0, <3>1, <3>3 DEF GetWhole
  <2>2. rpc' # "returned" => GetWhole'
    BY DEF GetWhole
  <2> QED
    BY <1>0, <1>4, <2>1, <2>2 DEF GetSingle
<1>5. CASE GetChunk
  <2> DEFINE max == MaxCount(ReckonedBytes)
             count == Count(rstart, ReckonedBytes)
  <2>1. /\ max \in Nat /\ count \in Nat /\ count <= max
        /\ rstart + count <= Rows
        /\ rstart + max < Rows => count = max
        /\ rstart + max >= Rows => count = Rows - rstart
    BY <1>0, <1>2, <1>5, ChunkFits DEF GetChunk
  <2>2. rpc = "chunks" /\ rpc' \in {"chunks", "none", "raised"} /\ rstart < Rows
    BY <1>5 DEF GetChunk
  <2>3. Placed /\ Reached = rstart
    BY <1>0, <2>2 DEF Reached
  <2>4. ASSUME rpc' = "chunks" PROVE Placed'
    <3>0. \E n \in PartSizes(count) : array' = array \o RowsOf(rstart, n)
      BY <1>5, <2>4 DEF GetChunk
    <3>1. PICK n \in PartSizes(count) : array' = array \o RowsOf(rstart, n)
      BY <3>0
    <3>n. n \in Nat /\ n <= count
      BY <2>1 DEF PartSizes
    <3>2. Reached' = rstart + count
      BY <1>0, <1>2, <1>5, <2>1, <2>4 DEF GetChunk, Reached
    <3> HIDE DEF count, max
    <3>r. rstart + n <= Rows
      BY <1>2, <2>1, <3>n
    <3>3. /\ RowsOf(rstart, n) \in Seq(RowRecords)
          /\ Len(RowsOf(rstart, n)) = n
          /\ \A k \in 1..n : RowsOf(rstart, n)[k].row = rstart + k - 1
      BY <1>0, <1>2, <3>n, <3>r, RowsTyped
    <3>4. Len(array') = Len(array) + n
      BY <1>2, <3>1, <3>3
    <3>5. ASSUME Len(array') = Reached', NEW k \in DOMAIN array' PROVE array'[k].row = k - 1
      <4>1. n = count /\ Len(array) = rstart
        BY <1>2, <2>1, <2>3, <3>n, <3>2, <3>4, <3>5 DEF Placed
      <4>2. k \in 1..(rstart + n)
        BY <1>2, <2>1, <3>n, <3>1, <3>3, <3>4, <3>5, <4>1
      <4>3. CASE k <= rstart
        BY <1>2, <2>3, <3>1, <3>3, <4>1, <4>2, <4>3 DEF Placed
      <4>4. CASE k > rstart
        <5>1. k - rstart \in 1..n
          BY <1>2, <3>n, <4>2, <4>4
        <5>2. array'[k] = RowsOf(rstart, n)[k - rstart]
          BY <1>2, <3>1, <3>3, <4>1, <4>2, <4>4
        <5> QED
          BY <1>2, <3>3, <4>2, <5>1, <5>2
      <4> QED
        BY <1>2, <4>2, <4>3, <4>4
    <3>6. Len(array') <= Reached'
      BY <1>2, <2>1, <2>3, <3>n, <3>2, <3>4 DEF Placed
    <3> QED
      BY <3>5, <3>6 DEF Placed
  <2> QED
    BY <1>0, <2>2, <2>4 DEF GetWhole
<1>6. CASE GetDone
  <2>1. rpc = "chunks" /\ Reached = Rows /\ Placed /\ rpc' \in {"returned", "raised"}
    BY <1>0, <1>2, <1>6 DEF GetDone, Reached
  <2>2. GetWhole'
    BY <1>0, <1>6, <2>1 DEF GetDone, GetWhole, Placed
  <2> QED
    BY <1>0, <2>1, <2>2
<1> QED
  BY <1>3, <1>4, <1>5, <1>6 DEF Reader

\* Each message is one that was reckoned to fit.
LEMMA MessagesKeepFitting ==
  ASSUME AInv, Writer \/ Reader, UNCHANGED arrayVars
  PROVE  MessagesFit'
<1>0. /\ TypeOK /\ WriterInv /\ ReaderInv /\ MessagesFit
      /\ shape \in Shapes /\ dtype \in DTypes
      /\ UNCHANGED <<dtype, Widest(dtype)>>
  BY ShapeStays DEF AInv, TypeOK
<1>1. /\ Rows \in Nat /\ wstart \in Nat /\ rstart \in Nat
  BY <1>0, RowBytes DEF TypeOK
<1>2. ASSUME NEW n \in Nat, NEW cell \in {HeldWidth, ReckonedWidth},
             n * (shape.cells * cell) <= MaxMessage
      PROVE  MessageOf(n, cell).bytes * cell <= MaxMessage * Widest(dtype)
  BY <1>0, <1>2, CarriedAsReckoned
<1>3. ASSUME NEW n \in Nat, NEW cell \in {HeldWidth, ReckonedWidth}, Carry(n, cell),
             n * (shape.cells * cell) <= MaxMessage
      PROVE  MessagesFit'
  <2>1. sizes' = sizes \cup {MessageOf(n, cell)} /\ MessageOf(n, cell).cell = cell
    BY <1>3 DEF Carry, MessageOf
  <2> QED
    BY <1>0, <1>2, <1>3, <2>1 DEF MessagesFit
<1>4. CASE UNCHANGED sizes
  BY <1>0, <1>4 DEF MessagesFit
<1>5. CASE PutSingle
  BY <1>0, <1>1, <1>3, <1>5 DEF PutSingle, WriterInv, OneMessage, HeldBytes
<1>6. CASE GetSingle
  BY <1>0, <1>1, <1>3, <1>6 DEF GetSingle, ReaderInv, OneMessage, ReckonedBytes
<1>7. CASE PutChunk
  <2>1. Count(wstart, HeldBytes) \in Nat /\ Count(wstart, HeldBytes) * HeldBytes <= MaxMessage
    BY <1>0, <1>1, <1>7, ChunkFits DEF PutChunk, WriterInv
  <2> QED
    BY <1>3, <1>7, <2>1 DEF PutChunk, HeldBytes
<1>8. CASE GetChunk
  <2>1. /\ Count(rstart, ReckonedBytes) \in Nat
        /\ Count(rstart, ReckonedBytes) * ReckonedBytes <= MaxMessage
    BY <1>0, <1>1, <1>8, ChunkFits DEF GetChunk, ReaderInv
  <2> QED
    BY <1>3, <1>8, <2>1 DEF GetChunk, ReckonedBytes
<1> QED
  BY <1>4, <1>5, <1>6, <1>7, <1>8
  DEF Writer, Reader, Put, PutUninitialized, PutDone, Get, GetDone

\* Before the first message nothing is written, read or sent.
LEMMA InitTransfer == Init => AInv
<1> SUFFICES ASSUME Init PROVE AInv
  OBVIOUS
<1>1. TypeOK
  BY DEF Init, TypeOK, Versions, Pcs
<1>2. WriterInv
  BY DEF Init, WriterInv, PutTruth
<1>3. ReaderInv
  BY DEF Init, ReaderInv, GetWhole
<1>4. MessagesFit
  BY DEF Init, MessagesFit
<1> QED
  BY <1>1, <1>2, <1>3, <1>4 DEF AInv

\* The inductive invariant of both loops.
THEOREM TransferInductive == Spec => []AInv
<1>1. AInv /\ [Next]_vars => AInv'
  <2> SUFFICES ASSUME AInv, [Next]_vars PROVE AInv'
    OBVIOUS
  <2>1. CASE Writer /\ UNCHANGED arrayVars
    <3>1. ReaderInv'
      BY <2>1, ShapeStays DEF AInv, ReaderInv, Placed, Reached, GetWhole, Writer, Put, PutSingle,
         PutUninitialized, PutChunk, PutDone, readerVars
    <3> QED
      BY <2>1, <3>1, WriterTypes, WriterKeeps, MessagesKeepFitting DEF AInv
  <2>2. CASE Reader /\ UNCHANGED arrayVars
    <3>1. WriterInv'
      BY <2>2, ShapeStays DEF AInv, WriterInv, Written, PutTruth, Reader, Get, GetSingle,
         GetChunk, GetDone, writerVars
    <3> QED
      BY <2>2, <3>1, ReaderTypes, ReaderKeeps, MessagesKeepFitting DEF AInv
  <2>3. CASE UNCHANGED vars
    <3>1. /\ UNCHANGED <<arrayVars, stored, wpc, wstart, wres, rpc, rstart, array, sizes>>
      BY <2>3 DEF vars, writerVars, readerVars
    <3>2. TypeOK'
      BY <3>1, ShapeStays DEF AInv, TypeOK, arrayVars
    <3>3. WriterInv'
      BY <3>1, ShapeStays DEF AInv, WriterInv, Written, PutTruth
    <3>4. ReaderInv'
      BY <3>1, ShapeStays DEF AInv, ReaderInv, Placed, Reached, GetWhole
    <3>5. MessagesFit'
      BY <3>1, ShapeStays DEF AInv, MessagesFit, arrayVars
    <3> QED
      BY <3>2, <3>3, <3>4, <3>5 DEF AInv
  <2> QED
    BY <2>1, <2>2, <2>3 DEF Next
<1> QED
  BY <1>1, InitTransfer, PTL DEF Spec

\* put_data_array_safe() reports success only when every row is written, where a
\* response that is no error does list what it stored.
THEOREM PutIsTrue ==
  ASSUME ~Empty
  PROVE  Spec => []PutTruth
<1>1. AInv => PutTruth
  BY DEF AInv, WriterInv
<1> QED
  BY <1>1, TransferInductive, PTL

\* get_data_array_safe() returns all the rows at their places, whatever parts the
\* answers for its chunks come in, where that for a whole array comes in one.
THEOREM GetIsWhole ==
  ASSUME "whole" \notin Splits
  PROVE  Spec => []GetWhole
<1>1. AInv => GetWhole
  BY DEF AInv, ReaderInv
<1> QED
  BY <1>1, TransferInductive, PTL

\* The cells of a message exceed the limit in no greater proportion than one of
\* them exceeds what it was reckoned at, whatever the array holds.
THEOREM MessagesAlwaysFit == Spec => []MessagesFit
<1>1. AInv => MessagesFit
  BY DEF AInv
<1> QED
  BY <1>1, TransferInductive, PTL

\* Cells that take in a message what numpy holds them in, and cells that may take
\* a quarter more
Exact(d) == d.kind \in {"float", "bool"} /\ d.width = SizeOf(Transport(d))
NearlyExact(d) == d.kind = "int" /\ d.width \in {4, 8}

\* What that comes to: the floating-point numbers of four and eight bytes and the
\* booleans of a message are within the limit, and its integers of four and eight
\* bytes exceed it by a quarter at most.
LimitKept ==
  \A m \in sizes : /\ Exact(dtype) => m.bytes <= MaxMessage
                   /\ NearlyExact(dtype) => 4 * m.bytes <= 5 * MaxMessage

\* Every message of such an array keeps to the limit that far.
THEOREM LimitIsKept == Spec => []LimitKept
<1>1. AInv => LimitKept
  <2> SUFFICES ASSUME AInv, NEW m \in sizes
               PROVE  /\ Exact(dtype) => m.bytes <= MaxMessage
                      /\ NearlyExact(dtype) => 4 * m.bytes <= 5 * MaxMessage
    BY DEF LimitKept
  <2>1. /\ dtype \in [kind : Kinds, width : Nat \ {0}] /\ MaxMessage \in Nat
        /\ m.bytes \in Nat /\ m.cell \in {HeldWidth, ReckonedWidth}
        /\ m.bytes * m.cell <= MaxMessage * Widest(dtype)
    BY ArrayAssumption DEF AInv, TypeOK, MessagesFit
  <2>2. CASE Exact(dtype)
    <3>1. m.cell = Widest(dtype) /\ m.cell \in {1, 4, 8}
      BY <2>1, <2>2 DEF Exact, HeldWidth, ReckonedWidth, Widest, SizeOf, Transport
    <3> QED
      BY <2>1, <2>2, <3>1 DEF Exact, NearlyExact
  <2>3. CASE NearlyExact(dtype)
    <3>1. <<m.cell, Widest(dtype)>> \in {<<4, 5>>, <<8, 10>>}
      BY <2>1, <2>3 DEF NearlyExact, HeldWidth, ReckonedWidth, Widest, SizeOf, Transport
    <3> QED
      BY <2>1, <2>3, <3>1 DEF Exact, NearlyExact
  <2> QED
    BY <2>2, <2>3
<1> QED
  BY <1>1, TransferInductive, PTL

=============================================================================
