--------------------------- MODULE TransferProofs ---------------------------
(***************************************************************************)
(* Proofs about Transfer, for any items, arrays and parts, any number of   *)
(* transfers and any answers of the two servers.                           *)
(***************************************************************************)
EXTENDS Transfer, SequenceTheorems, TLAPS

-----------------------------------------------------------------------------
(***************************************************************************)
(* The inductive invariant                                                 *)
(***************************************************************************)

\* A call made by another one is for a part, which has no arrays, and its caller
\* waits for it where it is about to transfer the arrays.
Nested ==
  Len(frames) = 2 =>
    /\ frames[1].step = "array"
    /\ frames[2].toPut \cup frames[2].toLink \subseteq Items \ Arrayed

\* Only an open transaction has anything to add.
StagedIsOpen == ~open => staged = {}

\* Before it puts anything, an outer call has changed nothing.
Untouched ==
  frames # <<>> /\ frames[1].step \in {"list", "fetch"} =>
    acked = {} /\ wasOpen = (open \/ active)

\* While a call runs, what was acknowledged is at the target, or the commit that
\* is to come cannot succeed any more: the client has a transaction that the
\* target has not.
AckedIsThere ==
  frames # <<>> => acked \subseteq stored \cup staged \/ (active /\ ~open)

WInv ==
  /\ TypeOK /\ Nested
  /\ StagedIsOpen /\ Untouched /\ AckedIsThere
  /\ NoOverwrite /\ AckedIsStored /\ LeavesNothingOpen

-----------------------------------------------------------------------------
(***************************************************************************)
(* The stack of calls                                                      *)
(***************************************************************************)

\* What the stack and its innermost call are, when a call runs.
LEMMA Innermost ==
  ASSUME TypeOK, NEW step, Running(step)
  PROVE  /\ frames \in Seq(Frames) /\ Len(frames) \in 1..2
         /\ Last(frames) = frames[Len(frames)]
         /\ Last(frames) \in Frames /\ Last(frames).step = step
<1>1. frames \in Seq(Frames) /\ Len(frames) <= 2 /\ frames # <<>>
  BY DEF TypeOK, Running
<1>2. Len(frames) \in Nat /\ Len(frames) # 0
  BY <1>1, EmptySeq, LenProperties
<1>3. Len(frames) \in 1..2
  <2>1. \A n \in Nat : n <= 2 /\ n # 0 => n \in 1..2
    OBVIOUS
  <2> QED
    BY <1>1, <1>2, <2>1
<1> QED
  BY <1>1, <1>3 DEF Last, Running

\* The innermost call changes, and no other.
LEMMA Becomes ==
  ASSUME frames \in Seq(Frames), Len(frames) \in 1..2, NEW f \in Frames, Become(f)
  PROVE  /\ frames' \in Seq(Frames) /\ Len(frames') = Len(frames)
         /\ frames'[Len(frames)] = f
         /\ Len(frames) = 2 => frames'[1] = frames[1]
BY DEF Become

\* So it is when only its step changes.
LEMMA Goes ==
  ASSUME frames \in Seq(Frames), Len(frames) \in 1..2, NEW step \in Steps, Goto(step)
  PROVE  /\ Become([frames[Len(frames)] EXCEPT !.step = step])
         /\ [frames[Len(frames)] EXCEPT !.step = step] \in Frames
<1>1. frames[Len(frames)] \in Frames
  OBVIOUS
<1>2. [frames[Len(frames)] EXCEPT !.step = step] \in Frames
  BY <1>1 DEF Frames
<1> QED
  BY <1>2 DEF Goto, Become

\* It returns to its caller, or to nobody.
LEMMA Leaves ==
  ASSUME frames \in Seq(Frames), Len(frames) \in 1..2, NEW how, Leave(how)
  PROVE  /\ frames' \in Seq(Frames) /\ Len(frames') = Len(frames) - 1
         /\ Len(frames) = 2 => frames'[1] = frames[1] /\ outcome' = outcome
         /\ Len(frames) = 1 => frames' = <<>> /\ outcome' = how
<1>1. frames' = SubSeq(frames, 1, Len(frames) - 1)
  BY DEF Leave, Front
<1>2. \A i \in 1..(Len(frames) - 1) : frames[i] \in Frames
  OBVIOUS
<1>3. CASE Len(frames) = 2
  <2>1. frames' = SubSeq(frames, 1, 1) /\ frames[1] \in Frames
    BY <1>1, <1>3
  <2>2. /\ frames' \in Seq(Frames) /\ Len(frames') = 1
        /\ frames'[1] = frames[1]
    BY <2>1, SubSeqProperties
  <2> QED
    BY <1>3, <2>2 DEF Leave
<1>4. CASE Len(frames) = 1
  <2>1. frames' = <<>>
    BY <1>1, <1>4, SubSeqEmpty
  <2> QED
    BY <1>4, <2>1 DEF Leave
<1> QED
  BY <1>3, <1>4

\* It calls itself for a part.
LEMMA Calls ==
  ASSUME frames \in Seq(Frames), Len(frames) = 1, NEW f \in Frames, NEW g \in Frames,
         frames' = Front(frames) \o <<f, g>>
  PROVE  /\ frames' \in Seq(Frames) /\ Len(frames') = 2
         /\ frames'[1] = f /\ frames'[2] = g
<1>1. Front(frames) = <<>>
  BY SubSeqEmpty DEF Front
<1> QED
  BY <1>1

-----------------------------------------------------------------------------
(***************************************************************************)
(* Types and nesting                                                       *)
(***************************************************************************)

\* The stack of calls, as TypeOK and Nested have it.
Stack == frames \in Seq(Frames) /\ Len(frames) \in 0..2 /\ Nested

\* The innermost call changes within what it has to do, or ends.
LEMMA StackKept ==
  ASSUME TypeOK, Nested, NEW step, Running(step),
         \/ \E f \in Frames :
              /\ Become(f)
              /\ f.toPut \cup f.toLink \subseteq
                   Last(frames).toPut \cup Last(frames).toLink
         \/ \E how : Leave(how)
         \/ Escape
  PROVE  Stack'
<1>0. /\ frames \in Seq(Frames) /\ Len(frames) \in 1..2
      /\ Last(frames) = frames[Len(frames)]
  BY Innermost
<1>1. ASSUME NEW f \in Frames, Become(f),
             f.toPut \cup f.toLink \subseteq Last(frames).toPut \cup Last(frames).toLink
      PROVE  Stack'
  BY <1>0, <1>1, Becomes DEF Stack, Nested
<1>2. ASSUME NEW how, Leave(how)
      PROVE  Stack'
  <2>1. frames' \in Seq(Frames) /\ Len(frames') = Len(frames) - 1
    BY <1>0, <1>2, Leaves
  <2> QED
    BY <1>0, <2>1 DEF Stack, Nested
<1>3. ASSUME Escape
      PROVE  Stack'
  BY <1>3 DEF Escape, Stack, Nested
<1> QED
  BY <1>1, <1>2, <1>3

\* Every step keeps the stack of calls.
LEMMA StackStep ==
  ASSUME TypeOK, Nested, [Next]_vars
  PROVE  Stack'
<1>1. ASSUME NEW items \in SUBSET Items, NEW overwrite \in BOOLEAN,
             Transfer(items, overwrite)
      PROVE  Stack'
  <2>1. Call(items, overwrite) \in Frames
    BY DEF Call, Frames, Steps
  <2>2. frames' = <<Call(items, overwrite)>>
    BY <1>1 DEF Transfer
  <2> QED
    BY <2>1, <2>2 DEF Stack, Nested
<1>2. ASSUME NEW step, Running(step), NEW next \in Steps, Goto(next)
      PROVE  Stack'
  <2>1. /\ frames \in Seq(Frames) /\ Len(frames) \in 1..2
        /\ Last(frames) = frames[Len(frames)] /\ Last(frames) \in Frames
    BY <1>2, Innermost
  <2> DEFINE f == [Last(frames) EXCEPT !.step = next]
  <2>2. Become(f) /\ f \in Frames
    BY <1>2, <2>1, Goes
  <2>3. f.toPut \cup f.toLink \subseteq Last(frames).toPut \cup Last(frames).toLink
    BY <2>1 DEF Frames
  <2> QED
    BY <1>2, <2>2, <2>3, StackKept
<1>3. CASE List
  <2>1. Running("list")
    BY <1>3 DEF List
  <2>2. Last(frames) \in Frames
    BY <2>1, Innermost
  <2>3. ASSUME NEW left \in SUBSET Last(frames).toPut,
               Become([Last(frames) EXCEPT !.toPut = left, !.step = "fetch"])
        PROVE  Stack'
    <3> DEFINE f == [Last(frames) EXCEPT !.toPut = left, !.step = "fetch"]
    <3>1. f \in Frames
      BY <2>2 DEF Frames, Steps
    <3>2. f.toPut \cup f.toLink \subseteq Last(frames).toPut \cup Last(frames).toLink
      BY <2>2 DEF Frames
    <3> QED
      BY <2>1, <2>3, <3>1, <3>2, StackKept
  <2>4. \/ Escape \/ Leave("returned")
        \/ \E left \in SUBSET Last(frames).toPut :
             Become([Last(frames) EXCEPT !.toPut = left, !.step = "fetch"])
    BY <1>3 DEF List
  <2> QED
    BY <2>1, <2>3, <2>4, StackKept
<1>4. CASE Fetch
  <2>1. Running("fetch")
    BY <1>4 DEF Fetch
  <2>2. Last(frames) \in Frames
    BY <2>1, Innermost
  <2>3. ASSUME NEW broken \in BOOLEAN,
               Become([Last(frames) EXCEPT !.step = "start", !.broken = broken])
        PROVE  Stack'
    <3> DEFINE f == [Last(frames) EXCEPT !.step = "start", !.broken = broken]
    <3>1. f \in Frames
      BY <2>2 DEF Frames, Steps
    <3>2. f.toPut \cup f.toLink \subseteq Last(frames).toPut \cup Last(frames).toLink
      BY <2>2 DEF Frames
    <3> QED
      BY <2>1, <2>3, <3>1, <3>2, StackKept
  <2>4. \/ Escape \/ Leave("returned")
        \/ \E broken \in BOOLEAN :
             Become([Last(frames) EXCEPT !.step = "start", !.broken = broken])
    BY <1>4 DEF Fetch
  <2> QED
    BY <2>1, <2>3, <2>4, StackKept
<1>5. ASSUME NEW o \in Items, Put(o)
      PROVE  Stack'
  <2>1. Running("put") /\ o \in Last(frames).toPut
    BY <1>5 DEF Put
  <2>2. Last(frames) \in Frames
    BY <2>1, Innermost
  <2>3. ASSUME NEW next \in {"read", "put"},
               Become([Last(frames) EXCEPT !.toPut = @ \ {o}, !.toLink = @ \cup {o},
                                           !.step = next])
        PROVE  Stack'
    <3> DEFINE f == [Last(frames) EXCEPT !.toPut = @ \ {o}, !.toLink = @ \cup {o},
                                         !.step = next]
    <3>1. f \in Frames
      BY <2>2, <2>3 DEF Frames, Steps
    <3>2. f.toPut \cup f.toLink \subseteq Last(frames).toPut \cup Last(frames).toLink
      BY <2>1, <2>2 DEF Frames
    <3> QED
      BY <2>1, <2>3, <3>1, <3>2, StackKept
  <2>4. \/ Escape
        \/ \E next \in {"read", "put"} :
             Become([Last(frames) EXCEPT !.toPut = @ \ {o}, !.toLink = @ \cup {o},
                                         !.step = next])
    BY <1>5, <2>2 DEF Put, Frames
  <2> QED
    BY <2>1, <2>3, <2>4, StackKept
<1>6. ASSUME NEW o \in Items, Link(o)
      PROVE  Stack'
  <2>1. Running("link") /\ o \in Last(frames).toLink \cap Arrayed
    BY <1>6 DEF Link
  <2>2. /\ frames \in Seq(Frames) /\ Len(frames) \in 1..2
        /\ Last(frames) = frames[Len(frames)] /\ Last(frames) \in Frames
    BY <2>1, Innermost
  <2>3. Len(frames) = 1
    BY <2>1, <2>2 DEF Nested
  <2> DEFINE rest == [Last(frames) EXCEPT !.toLink = @ \ {o}]
             calling == [rest EXCEPT !.step = "array"]
             called == Call({Proxy[o]}, FALSE)
  <2>4. /\ rest \in Frames /\ calling \in Frames /\ calling.step = "array"
        /\ rest.toPut \cup rest.toLink \subseteq Last(frames).toPut \cup Last(frames).toLink
        /\ calling.toPut \cup calling.toLink
             \subseteq Last(frames).toPut \cup Last(frames).toLink
    BY <2>2 DEF Frames, Steps
  <2>5. CASE Proxy[o] # NoProxy /\ frames' = Front(frames) \o <<calling, called>>
    <3>1. Proxy[o] \in Items \ Arrayed
      BY <2>1, <2>5, TransferAssumption
    <3>2. /\ called \in Frames
          /\ called.toPut \cup called.toLink \subseteq Items \ Arrayed
      BY <3>1 DEF Call, Frames, Steps
    <3> HIDE DEF calling, called
    <3>3. /\ frames' \in Seq(Frames) /\ Len(frames') = 2
          /\ frames'[1] = calling /\ frames'[2] = called
      BY <2>2, <2>3, <2>4, <2>5, <3>2, Calls
    <3> QED
      BY <2>4, <3>2, <3>3 DEF Stack, Nested
  <2>6. \/ Proxy[o] # NoProxy /\ frames' = Front(frames) \o <<calling, called>>
        \/ Become(rest) \/ Become(calling) \/ Escape
    BY <1>6 DEF Link
  <2> HIDE DEF rest, calling
  <2>7. CASE Become(rest) \/ Become(calling) \/ Escape
    BY <2>1, <2>4, <2>7, StackKept
  <2> QED
    BY <2>5, <2>6, <2>7
<1>7. CASE StartTransaction \/ Read \/ Array \/ Linked
  <2>1. /\ \E step : Running(step)
        /\ Escape \/ \E next \in Steps : Goto(next)
    BY <1>7 DEF StartTransaction, Read, Array, Linked, Steps
  <2> QED
    BY <1>2, <2>1, StackKept
<1>8. CASE Commit
  <2>1. Running("commit") /\ \E how : Leave(how)
    BY <1>8 DEF Commit
  <2> QED
    BY <2>1, StackKept
<1>9. CASE CommitLate \/ UNCHANGED vars
  <2>1. frames' = frames
    BY <1>9 DEF CommitLate, vars
  <2>2. frames \in Seq(Frames) /\ Len(frames) \in 0..2
    <3>1. frames \in Seq(Frames) /\ Len(frames) <= 2
      BY DEF TypeOK
    <3>2. Len(frames) \in Nat
      BY <3>1, LenProperties
    <3>3. \A n \in Nat : n <= 2 => n \in 0..2
      OBVIOUS
    <3> QED
      BY <3>1, <3>2, <3>3
  <2> QED
    BY <2>1, <2>2 DEF Stack, Nested
<1> QED
  BY <1>1, <1>3, <1>4, <1>5, <1>6, <1>7, <1>8, <1>9 DEF Next

\* The variables other than the stack keep their types.
LEMMA TypesStep ==
  ASSUME TypeOK, Nested, [Next]_vars
  PROVE  TypeOK'
<1>1. {stored', staged', acked'} \subseteq SUBSET Items
  <2>1. \A o \in Items : Put(o) => {stored', staged', acked'} \subseteq SUBSET Items
    BY DEF Put, Accept, PutDataObjectStr, TypeOK
  <2>2. \A o \in Items : Link(o) => {stored', staged', acked'} \subseteq SUBSET Items
    BY DEF Link, targetVars, TypeOK
  <2>3. \A items, overwrite :
          Transfer(items, overwrite) => {stored', staged', acked'} \subseteq SUBSET Items
    BY DEF Transfer, targetVars, TypeOK
  <2>4. List \/ Fetch \/ StartTransaction \/ Read \/ Array \/ Linked =>
          {stored', staged', acked'} \subseteq SUBSET Items
    BY DEF List, Fetch, StartTransaction, Read, Array, Linked, targetVars, TypeOK
  <2>5. Commit \/ CommitLate \/ UNCHANGED vars =>
          {stored', staged', acked'} \subseteq SUBSET Items
    BY DEF Commit, CommitLate, Committed, NotCommitted, Served, Refused, vars,
           targetVars, TypeOK
  <2> QED
    BY <2>1, <2>2, <2>3, <2>4, <2>5 DEF Next
<1>2. {open', active', late', wasOpen'} \subseteq BOOLEAN
  <2>1. \A o \in Items :
          Put(o) \/ Link(o) => {open', active', late', wasOpen'} \subseteq BOOLEAN
    BY DEF Put, Link, targetVars, TypeOK
  <2>2. \A items, overwrite :
          Transfer(items, overwrite) => {open', active', late', wasOpen'} \subseteq BOOLEAN
    BY DEF Transfer, targetVars, TypeOK
  <2>3. List \/ Fetch \/ Read \/ Array \/ Linked \/ UNCHANGED vars =>
          {open', active', late', wasOpen'} \subseteq BOOLEAN
    BY DEF List, Fetch, Read, Array, Linked, vars, targetVars, TypeOK
  <2>4. StartTransaction => {open', active', late', wasOpen'} \subseteq BOOLEAN
    BY DEF StartTransaction, Started, TypeOK
  <2>5. Commit \/ CommitLate => {open', active', late', wasOpen'} \subseteq BOOLEAN
    BY DEF Commit, CommitLate, Committed, NotCommitted, Served, Refused, TypeOK
  <2> QED
    BY <2>1, <2>2, <2>3, <2>4, <2>5 DEF Next
<1>3. outcome' \in {"none", "returned", "complained", "raised"}
  <2>1. \A o \in Items :
          Put(o) \/ Link(o) => outcome' \in {outcome, "raised"}
    BY DEF Put, Link, Escape
  <2>2. \A items, overwrite : Transfer(items, overwrite) => outcome' = "none"
    BY DEF Transfer
  <2>3. List \/ Fetch \/ StartTransaction \/ Read \/ Array \/ Linked \/ Commit =>
          outcome' \in {outcome, "returned", "complained", "raised"}
    <3>1. \A how : Leave(how) => outcome' \in {outcome, how}
      BY DEF Leave
    <3>2. Escape => outcome' = "raised"
      BY DEF Escape
    <3>3. List \/ Fetch \/ Commit =>
            UNCHANGED outcome \/ Escape \/ Leave("returned") \/ Leave("complained")
      BY DEF List, Fetch, Commit
    <3>4. StartTransaction \/ Read \/ Array \/ Linked => UNCHANGED outcome \/ Escape
      BY DEF StartTransaction, Read, Array, Linked
    <3> QED
      BY <3>1, <3>2, <3>3, <3>4
  <2>4. CommitLate \/ UNCHANGED vars => outcome' = outcome
    BY DEF CommitLate, vars
  <2> QED
    BY <2>1, <2>2, <2>3, <2>4 DEF Next, TypeOK
<1>4. frames' \in Seq(Frames) /\ Len(frames') <= 2
  <2>1. \A n \in 0..2 : n <= 2
    OBVIOUS
  <2>2. frames' \in Seq(Frames) /\ Len(frames') \in 0..2
    BY StackStep DEF Stack
  <2> QED
    BY <2>1, <2>2
<1> QED
  BY <1>1, <1>2, <1>3, <1>4 DEF TypeOK

-----------------------------------------------------------------------------
(***************************************************************************)
(* What is put, where it is, and what is left behind                       *)
(***************************************************************************)

\* The conjuncts of the invariant that speak of the target
Kept ==
  /\ StagedIsOpen /\ Untouched /\ AckedIsThere
  /\ NoOverwrite /\ AckedIsStored /\ LeavesNothingOpen

\* What an innermost call may become without a step at the target.
Fits(f, before) ==
  /\ f.step \in {"list", "fetch"} => before.step \in {"list", "fetch"}
  /\ ~f.overwrite /\ f.step \in {"fetch", "start", "put"} => f.toPut \cap stored = {}

\* Steps that leave the target alone: the innermost call goes on, returns before
\* it has put anything, or raises.
LEMMA QuietStep ==
  ASSUME TypeOK, Nested, Kept, NEW step, Running(step),
         UNCHANGED <<targetVars, acked, wasOpen>>,
         \/ /\ \E f \in Frames : Become(f) /\ Fits(f, Last(frames))
            /\ UNCHANGED outcome
         \/ step \in {"list", "fetch"} /\ Leave("returned")
         \/ Escape
  PROVE  Kept'
<1>0. /\ frames \in Seq(Frames) /\ Len(frames) \in 1..2 /\ frames # <<>>
      /\ Last(frames) = frames[Len(frames)] /\ Last(frames).step = step
  BY Innermost DEF Running
<1>1. ASSUME NEW f \in Frames, Become(f), Fits(f, Last(frames)), UNCHANGED outcome
      PROVE  Kept'
  <2>1. /\ frames' \in Seq(Frames) /\ Len(frames') = Len(frames)
        /\ frames'[Len(frames)] = f
        /\ Len(frames) = 2 => frames'[1] = frames[1]
    BY <1>0, <1>1, Becomes
  <2>2. frames' # <<>>
    BY <1>0, <2>1, EmptySeq
  <2>3. DOMAIN frames' = 1..Len(frames) /\ DOMAIN frames = 1..Len(frames)
    BY <1>0, <2>1
  <2>4. StagedIsOpen' /\ AckedIsThere'
    BY <1>0 DEF Kept, StagedIsOpen, AckedIsThere, targetVars
  <2>5. Untouched'
    BY <1>0, <1>1, <2>1 DEF Kept, Untouched, Fits, targetVars
  <2>6. NoOverwrite'
    <3> SUFFICES ASSUME NEW i \in DOMAIN frames', ~frames'[i].overwrite,
                        frames'[i].step \in {"fetch", "start", "put"}
                 PROVE  frames'[i].toPut \cap stored = {}
      BY DEF NoOverwrite, targetVars
    <3>1. CASE i = Len(frames)
      BY <1>1, <2>1, <3>1 DEF Fits
    <3>2. CASE i # Len(frames)
      <4>1. i = 1 /\ Len(frames) = 2
        BY <1>0, <2>3, <3>2
      <4> QED
        BY <2>1, <2>3, <4>1 DEF Kept, NoOverwrite
    <3> QED
      BY <3>1, <3>2
  <2>7. AckedIsStored' /\ LeavesNothingOpen'
    BY <2>2 DEF AckedIsStored, LeavesNothingOpen
  <2> QED
    BY <2>4, <2>5, <2>6, <2>7 DEF Kept
<1>2. ASSUME step \in {"list", "fetch"}, Leave("returned")
      PROVE  Kept'
  <2>1. /\ frames' \in Seq(Frames) /\ Len(frames') = Len(frames) - 1
        /\ Len(frames) = 2 => frames'[1] = frames[1]
        /\ Len(frames) = 1 => frames' = <<>>
    BY <1>0, <1>2, Leaves
  <2>2. StagedIsOpen' /\ AckedIsThere'
    BY <1>0 DEF Kept, StagedIsOpen, AckedIsThere, targetVars
  <2>3. CASE Len(frames) = 1
    <3>1. acked = {} /\ wasOpen = (open \/ active) /\ frames' = <<>>
      BY <1>0, <1>2, <2>1, <2>3 DEF Kept, Untouched
    <3>2. AckedIsStored' /\ LeavesNothingOpen'
      BY <3>1 DEF AckedIsStored, LeavesNothingOpen, Kept, StagedIsOpen, targetVars
    <3>3. Untouched' /\ NoOverwrite'
      BY <3>1 DEF Untouched, NoOverwrite
    <3> QED
      BY <2>2, <3>2, <3>3 DEF Kept
  <2>4. CASE Len(frames) = 2
    <3>1. frames'[1].step = "array"
      BY <2>1, <2>4 DEF Nested
    <3>2. frames' \in Seq(Frames) /\ Len(frames') = 1
      BY <2>1, <2>4
    <3>3. frames' # <<>> /\ DOMAIN frames' = {1}
      BY <3>2, EmptySeq
    <3> QED
      BY <2>2, <3>1, <3>3 DEF Kept, Untouched, NoOverwrite, AckedIsStored, LeavesNothingOpen
  <2> QED
    BY <1>0, <2>3, <2>4
<1>3. ASSUME Escape
      PROVE  Kept'
  BY <1>3 DEF Escape, Kept, StagedIsOpen, Untouched, AckedIsThere, NoOverwrite,
              AckedIsStored, LeavesNothingOpen, targetVars
<1> QED
  BY <1>1, <1>2, <1>3

\* A call past its fetch goes on: its caller, if there is one, waits elsewhere.
LEMMA BusyStep ==
  ASSUME TypeOK, Nested, NEW step, Running(step), NEW f \in Frames, Become(f),
         f.step \notin {"list", "fetch"},
         ~f.overwrite /\ f.step \in {"start", "put"} => f.toPut \cap stored' = {}
  PROVE  frames' # <<>> /\ Untouched' /\ NoOverwrite'
<1>0. frames \in Seq(Frames) /\ Len(frames) \in 1..2
  BY Innermost
<1>1. /\ frames' \in Seq(Frames) /\ Len(frames') = Len(frames)
      /\ frames'[Len(frames)] = f
      /\ Len(frames) = 2 => frames'[1] = frames[1]
  BY <1>0, Becomes
<1>2. frames' # <<>> /\ DOMAIN frames' = 1..Len(frames)
  BY <1>0, <1>1, EmptySeq
<1>3. \A i \in 1..Len(frames) : frames'[i] = f \/ frames'[i].step = "array"
  BY <1>0, <1>1 DEF Nested
<1>4. frames'[1].step \notin {"list", "fetch"}
  BY <1>0, <1>3
<1> QED
  BY <1>2, <1>3, <1>4 DEF Untouched, NoOverwrite

\* A call returns: its caller, if there is one, is where it called.
LEMMA BackStep ==
  ASSUME TypeOK, Nested, NEW step, Running(step), NEW how, Leave(how)
  PROVE  /\ Untouched' /\ NoOverwrite'
         /\ \/ Len(frames) = 2 /\ frames' # <<>>
            \/ frames' = <<>> /\ outcome' = how
<1>0. frames \in Seq(Frames) /\ Len(frames) \in 1..2
  BY Innermost
<1>1. /\ frames' \in Seq(Frames) /\ Len(frames') = Len(frames) - 1
      /\ Len(frames) = 2 => frames'[1] = frames[1]
      /\ Len(frames) = 1 => frames' = <<>> /\ outcome' = how
  BY <1>0, Leaves
<1>2. CASE Len(frames) = 1
  BY <1>1, <1>2 DEF Untouched, NoOverwrite
<1>3. CASE Len(frames) = 2
  <2>1. frames'[1].step = "array"
    BY <1>1, <1>3 DEF Nested
  <2>2. frames' \in Seq(Frames) /\ Len(frames') = 1
    BY <1>1, <1>3
  <2>3. frames' # <<>> /\ DOMAIN frames' = {1}
    BY <2>2, EmptySeq
  <2>4. Untouched'
    BY <2>1, <2>3 DEF Untouched
  <2>5. NoOverwrite'
    BY <2>1, <2>3 DEF NoOverwrite
  <2> QED
    BY <1>3, <2>3, <2>4, <2>5
<1> QED
  BY <1>0, <1>2, <1>3

\* What is staged or acknowledged is not lost but by a commit that fails, after
\* which the client has a transaction that the target has not.
LEMMA KeptStep ==
  ASSUME WInv, [Next]_vars
  PROVE  Kept'
<1> USE DEF WInv
<1>0. Kept
  BY DEF Kept
<1>1. ASSUME NEW items \in SUBSET Items, NEW overwrite \in BOOLEAN,
             Transfer(items, overwrite)
      PROVE  Kept'
  <2>1. /\ frames' = <<Call(items, overwrite)>> /\ acked' = {} /\ outcome' = "none"
        /\ wasOpen' = (open \/ active) /\ UNCHANGED targetVars
    BY <1>1 DEF Transfer
  <2>2. NoOverwrite'
    BY <2>1 DEF NoOverwrite, Call
  <2>3. StagedIsOpen' /\ Untouched' /\ AckedIsThere'
    BY <2>1 DEF StagedIsOpen, Untouched, AckedIsThere, targetVars
  <2>4. AckedIsStored' /\ LeavesNothingOpen'
    BY <2>1 DEF AckedIsStored, LeavesNothingOpen
  <2> QED
    BY <2>2, <2>3, <2>4 DEF Kept
<1>2. CASE List
  <2>1. Running("list") /\ UNCHANGED <<targetVars, acked, wasOpen>>
    BY <1>2 DEF List
  <2>2. Last(frames) \in Frames /\ Last(frames).step = "list"
    BY <2>1, Innermost
  <2>3. \/ Escape \/ Leave("returned")
        \/ \E left \in SUBSET Last(frames).toPut :
             /\ Become([Last(frames) EXCEPT !.toPut = left, !.step = "fetch"])
             /\ left \cap stored = {} /\ UNCHANGED outcome
    BY <1>2 DEF List
  <2>4. ASSUME NEW left \in SUBSET Last(frames).toPut,
               Become([Last(frames) EXCEPT !.toPut = left, !.step = "fetch"]),
               left \cap stored = {}, UNCHANGED outcome
        PROVE  Kept'
    <3> DEFINE f == [Last(frames) EXCEPT !.toPut = left, !.step = "fetch"]
    <3>1. f \in Frames /\ Fits(f, Last(frames))
      BY <2>2, <2>4 DEF Frames, Steps, Fits
    <3> QED
      BY <1>0, <2>1, <2>4, <3>1, QuietStep
  <2> QED
    BY <1>0, <2>1, <2>3, <2>4, QuietStep
<1>3. CASE Fetch
  <2>1. Running("fetch") /\ UNCHANGED <<targetVars, acked, wasOpen>>
    BY <1>3 DEF Fetch
  <2>2. /\ Last(frames) \in Frames /\ Last(frames).step = "fetch"
        /\ Len(frames) \in 1..2 /\ Last(frames) = frames[Len(frames)]
        /\ frames \in Seq(Frames)
    BY <2>1, Innermost
  <2>3. \/ Escape \/ Leave("returned")
        \/ \E broken \in BOOLEAN :
             /\ Become([Last(frames) EXCEPT !.step = "start", !.broken = broken])
             /\ UNCHANGED outcome
    BY <1>3 DEF Fetch
  <2>4. ASSUME NEW broken \in BOOLEAN,
               Become([Last(frames) EXCEPT !.step = "start", !.broken = broken]),
               UNCHANGED outcome
        PROVE  Kept'
    <3> DEFINE f == [Last(frames) EXCEPT !.step = "start", !.broken = broken]
    <3>1. f \in Frames /\ f.toPut = Last(frames).toPut /\ f.step = "start"
          /\ f.overwrite = Last(frames).overwrite
      BY <2>2 DEF Frames, Steps
    <3>2. ~Last(frames).overwrite => Last(frames).toPut \cap stored = {}
      BY <2>2 DEF NoOverwrite
    <3>3. Fits(f, Last(frames))
      BY <3>1, <3>2 DEF Fits
    <3> QED
      BY <1>0, <2>1, <2>4, <3>1, <3>3, QuietStep
  <2> QED
    BY <1>0, <2>1, <2>3, <2>4, QuietStep
<1>4. CASE Read \/ Array \/ Linked
  <2>1. /\ \E step : Running(step)
        /\ UNCHANGED <<targetVars, acked, wasOpen>>
        /\ \/ Escape
           \/ \E next \in {"link", "commit"} : Goto(next) /\ UNCHANGED outcome
    BY <1>4 DEF Read, Array, Linked
  <2>2. ASSUME NEW step, Running(step), NEW next \in {"link", "commit"}, Goto(next),
               UNCHANGED outcome
        PROVE  Kept'
    <3>1. /\ frames \in Seq(Frames) /\ Len(frames) \in 1..2
          /\ Last(frames) = frames[Len(frames)] /\ Last(frames) \in Frames
      BY <2>2, Innermost
    <3> DEFINE f == [Last(frames) EXCEPT !.step = next]
    <3>2. Become(f) /\ f \in Frames
      BY <2>2, <3>1, Goes DEF Steps
    <3>3. Fits(f, Last(frames))
      BY <3>1 DEF Fits, Frames
    <3> QED
      BY <1>0, <2>1, <2>2, <3>2, <3>3, QuietStep
  <2> QED
    BY <1>0, <2>1, <2>2, QuietStep
<1>5. ASSUME NEW o \in Items, Link(o)
      PROVE  Kept'
  <2>1. /\ Running("link") /\ o \in Last(frames).toLink \cap Arrayed
        /\ UNCHANGED <<targetVars, acked, wasOpen>>
    BY <1>5 DEF Link
  <2>2. /\ frames \in Seq(Frames) /\ Len(frames) \in 1..2
        /\ Last(frames) = frames[Len(frames)] /\ Last(frames) \in Frames
        /\ Last(frames).step = "link"
    BY <2>1, Innermost
  <2> DEFINE rest == [Last(frames) EXCEPT !.toLink = @ \ {o}]
             calling == [rest EXCEPT !.step = "array"]
             called == Call({Proxy[o]}, FALSE)
  <2>3. /\ rest \in Frames /\ calling \in Frames
        /\ rest.step = "link" /\ calling.step = "array"
    BY <2>2 DEF Frames, Steps
  <2>4. Fits(rest, Last(frames)) /\ Fits(calling, Last(frames))
    BY <2>3 DEF Fits
  <2>5. CASE Proxy[o] # NoProxy /\ frames' = Front(frames) \o <<calling, called>>
    <3>1. Proxy[o] \in Items
      BY <2>1, <2>5, TransferAssumption
    <3>2. called \in Frames /\ called.step = "list"
      BY <3>1 DEF Call, Frames, Steps
    <3>3. Len(frames) = 1
      BY <2>1, <2>2 DEF Nested
    <3> HIDE DEF calling, called
    <3>4. /\ frames' \in Seq(Frames) /\ Len(frames') = 2
          /\ frames'[1] = calling /\ frames'[2] = called
      BY <2>2, <2>3, <2>5, <3>2, <3>3, Calls
    <3>5. frames' # <<>> /\ frames # <<>>
      <4>1. Len(frames') # 0
        BY <3>4
      <4>2. Len(<<>>) = 0
        OBVIOUS
      <4> QED
        BY <2>1, <4>1, <4>2 DEF Running
    <3>a. DOMAIN frames' = 1..2
      BY <3>4, LenProperties
    <3>6. NoOverwrite' /\ Untouched'
      BY <2>3, <3>2, <3>4, <3>5, <3>a DEF NoOverwrite, Untouched
    <3> QED
      BY <2>1, <3>5, <3>6 DEF Kept, StagedIsOpen, AckedIsThere, AckedIsStored,
                              LeavesNothingOpen, targetVars
  <2>6. \/ Proxy[o] # NoProxy /\ frames' = Front(frames) \o <<calling, called>>
        \/ (Become(rest) \/ Become(calling)) /\ UNCHANGED outcome
        \/ Escape
    BY <1>5 DEF Link
  <2> HIDE DEF rest, calling
  <2>7. CASE ((Become(rest) \/ Become(calling)) /\ UNCHANGED outcome) \/ Escape
    BY <1>0, <2>1, <2>3, <2>4, <2>7, QuietStep
  <2> QED
    BY <2>5, <2>6, <2>7
<1>6. CASE StartTransaction
  <2>1. /\ Running("start") /\ UNCHANGED <<stored, staged, acked, wasOpen>>
        /\ open' = open \/ (~active /\ open' = TRUE)
        /\ active => UNCHANGED <<active, open>>
        /\ Escape \/ Goto("put")
    BY <1>6 DEF StartTransaction, Started
  <2>2. /\ frames \in Seq(Frames) /\ Len(frames) \in 1..2 /\ frames # <<>>
        /\ Last(frames) = frames[Len(frames)] /\ Last(frames) \in Frames
        /\ Last(frames).step = "start"
    BY <2>1, Innermost DEF Running
  <2>3. StagedIsOpen' /\ AckedIsThere'
    BY <2>1, <2>2 DEF StagedIsOpen, AckedIsThere
  <2>4. CASE Escape
    BY <2>3, <2>4 DEF Escape, Kept, Untouched, NoOverwrite, AckedIsStored,
                      LeavesNothingOpen
  <2>5. CASE Goto("put")
    <3> DEFINE f == [Last(frames) EXCEPT !.step = "put"]
    <3>1. Become(f) /\ f \in Frames
      BY <2>2, <2>5, Goes DEF Steps
    <3>2. /\ f.step = "put" /\ f.toPut = Last(frames).toPut
          /\ f.overwrite = Last(frames).overwrite
      BY <2>2 DEF Frames
    <3>3. ~Last(frames).overwrite => Last(frames).toPut \cap stored = {}
      BY <2>2 DEF NoOverwrite
    <3> HIDE DEF f
    <3>4. frames' # <<>> /\ Untouched' /\ NoOverwrite'
      BY <2>1, <3>1, <3>2, <3>3, BusyStep
    <3> QED
      BY <2>3, <3>4 DEF Kept, AckedIsStored, LeavesNothingOpen
  <2> QED
    BY <2>1, <2>4, <2>5
<1>7. ASSUME NEW o \in Items, Put(o)
      PROVE  Kept'
  <2>1. /\ Running("put") /\ o \in Last(frames).toPut
        /\ UNCHANGED <<open, active, late, wasOpen>>
        /\ Accept(o) \/ UNCHANGED <<stored, staged>>
    BY <1>7 DEF Put
  <2>2. /\ frames \in Seq(Frames) /\ Len(frames) \in 1..2 /\ frames # <<>>
        /\ Last(frames) = frames[Len(frames)] /\ Last(frames) \in Frames
        /\ Last(frames).step = "put"
    BY <2>1, Innermost DEF Running
  <2>3. /\ stored \subseteq stored' /\ stored' \subseteq stored \cup {o}
        /\ staged \subseteq staged'
        /\ ~open => staged' = staged
    BY <2>1 DEF Accept
  <2>4. StagedIsOpen'
    BY <2>1, <2>3 DEF StagedIsOpen
  <2>5. CASE Escape
    BY <2>4, <2>5 DEF Escape, Kept, Untouched, AckedIsThere, NoOverwrite,
                      AckedIsStored, LeavesNothingOpen
  <2>6. ASSUME NEW next \in {"read", "put"},
               Become([Last(frames) EXCEPT !.toPut = @ \ {o}, !.toLink = @ \cup {o},
                                           !.step = next]),
               acked' \subseteq acked \cup (stored' \cup staged')
        PROVE  Kept'
    <3> DEFINE f == [Last(frames) EXCEPT !.toPut = @ \ {o}, !.toLink = @ \cup {o},
                                         !.step = next]
    <3>1. /\ f \in Frames /\ f.step = next /\ f.toPut = Last(frames).toPut \ {o}
          /\ f.overwrite = Last(frames).overwrite
      BY <2>2, <2>6 DEF Frames, Steps
    <3>2. ~Last(frames).overwrite => Last(frames).toPut \cap stored = {}
      BY <2>2 DEF NoOverwrite
    <3>3. ~f.overwrite => f.toPut \cap stored' = {}
      BY <2>3, <3>1, <3>2
    <3>4. Become(f)
      BY <2>6
    <3> HIDE DEF f
    <3>5. frames' # <<>> /\ Untouched' /\ NoOverwrite'
      BY <2>1, <3>1, <3>3, <3>4, BusyStep
    <3>6. AckedIsThere'
      <4>1. CASE acked \subseteq stored \cup staged
        BY <2>3, <2>6, <4>1 DEF AckedIsThere
      <4>2. CASE active /\ ~open
        BY <2>1, <4>2 DEF AckedIsThere
      <4> QED
        BY <2>2, <4>1, <4>2 DEF AckedIsThere
    <3> QED
      BY <2>4, <3>5, <3>6 DEF Kept, AckedIsStored, LeavesNothingOpen
  <2>7. \/ Escape
        \/ \E next \in {"read", "put"} :
             /\ Become([Last(frames) EXCEPT !.toPut = @ \ {o}, !.toLink = @ \cup {o},
                                            !.step = next])
             /\ acked' \subseteq acked \cup (stored' \cup staged')
    BY <1>7, <2>2 DEF Put, Frames, Accept, PutDataObjectStr
  <2> QED
    BY <2>5, <2>6, <2>7
<1>8. CASE Commit
  <2>1. Running("commit") /\ UNCHANGED <<acked, wasOpen>>
    BY <1>8 DEF Commit
  <2>2. frames # <<>>
    BY <2>1 DEF Running
  <2>3. StagedIsOpen'
    BY <1>8 DEF Commit, Committed, NotCommitted, Served, Refused, StagedIsOpen
  <2>4. CASE Committed /\ Leave("returned")
    <3>1. /\ stored' = stored \cup staged /\ staged' = {} /\ ~open' /\ ~active'
          /\ acked' \subseteq stored'
      BY <2>1, <2>2, <2>4 DEF Committed, Served, AckedIsThere
    <3>2. Untouched' /\ NoOverwrite'
      BY <2>1, <2>4, BackStep
    <3> QED
      BY <2>3, <3>1, <3>2 DEF Kept, AckedIsThere, AckedIsStored, LeavesNothingOpen
  <2>5. CASE NotCommitted /\ Leave("complained")
    <3>1. /\ Untouched' /\ NoOverwrite'
          /\ frames' # <<>> \/ outcome' = "complained"
      BY <2>1, <2>5, BackStep
    <3>2. AckedIsThere'
      BY <2>1, <2>2, <2>5 DEF NotCommitted, Served, Refused, AckedIsThere
    <3>3. AckedIsStored' /\ LeavesNothingOpen'
      <4>1. ~(frames' = <<>> /\ outcome' = "returned")
        <5>1. \/ Len(frames) = 2 /\ frames' # <<>>
              \/ frames' = <<>> /\ outcome' = "complained"
          BY <2>1, <2>5, BackStep
        <5> QED
          BY <5>1
      <4> QED
        BY <4>1 DEF AckedIsStored, LeavesNothingOpen
    <3> QED
      BY <2>3, <3>1, <3>2, <3>3 DEF Kept
  <2> QED
    BY <1>8, <2>4, <2>5 DEF Commit
<1>9. CASE CommitLate
  <2>1. /\ frames = <<>> /\ UNCHANGED <<active, frames, outcome, acked, wasOpen>>
        /\ Served \/ UNCHANGED <<stored, staged, open>>
    BY <1>9 DEF CommitLate
  <2>2. /\ stored \subseteq stored'
        /\ staged' = staged \/ staged' = {}
        /\ ~open' => staged' = {}
        /\ ~open => ~open'
    BY <2>1 DEF Served, StagedIsOpen
  <2>3. NoOverwrite' /\ Untouched' /\ AckedIsThere'
    BY <2>1 DEF NoOverwrite, Untouched, AckedIsThere
  <2>4. StagedIsOpen'
    BY <2>2 DEF StagedIsOpen
  <2>5. AckedIsStored'
    BY <2>1, <2>2 DEF AckedIsStored
  <2>6. LeavesNothingOpen'
    BY <2>1, <2>2 DEF LeavesNothingOpen
  <2> QED
    BY <2>3, <2>4, <2>5, <2>6 DEF Kept
<1>10. CASE UNCHANGED vars
  BY <1>10 DEF vars, targetVars, Kept, StagedIsOpen, Untouched, AckedIsThere,
               NoOverwrite, AckedIsStored, LeavesNothingOpen
<1> QED
  BY <1>1, <1>2, <1>3, <1>4, <1>5, <1>6, <1>7, <1>8, <1>9, <1>10 DEF Next

-----------------------------------------------------------------------------
(***************************************************************************)
(* The theorems                                                            *)
(***************************************************************************)

\* The inductive invariant of transfert_data() and of the target, for any items
\* and any number of transfers.
THEOREM TransferInvariant == Spec => []WInv
<1>1. Init => WInv
  <2> SUFFICES ASSUME Init PROVE WInv
    OBVIOUS
  <2>1. frames = <<>> /\ <<>> \in Seq(Frames) /\ Len(<<>>) = 0
    BY EmptySeq DEF Init
  <2>2. /\ {stored, staged, acked} \subseteq SUBSET Items
        /\ {open, active, late, wasOpen} \subseteq BOOLEAN
        /\ outcome \in {"none", "returned", "complained", "raised"}
    BY DEF Init
  <2>3. TypeOK /\ Nested
    BY <2>1, <2>2 DEF TypeOK, Nested
  <2> QED
    BY <2>1, <2>3 DEF Init, WInv, StagedIsOpen, Untouched, AckedIsThere, NoOverwrite,
                      AckedIsStored, LeavesNothingOpen
<1>2. WInv /\ [Next]_vars => WInv'
  BY TypesStep, StackStep, KeptStep DEF WInv, Kept, Stack
<1> QED
  BY <1>1, <1>2, PTL DEF Spec

\* transfert_data() never puts over what the target holds, unless it is told to.
THEOREM NothingOverwritten == Spec => []NoOverwrite
<1>1. WInv => NoOverwrite
  BY DEF WInv
<1> QED
  BY <1>1, TransferInvariant, PTL

\* When transfert_data() returns without a complaint, the target holds what it, or
\* the calls it made, was told was put.
THEOREM AcknowledgedIsStored == Spec => []AckedIsStored
<1>1. WInv => AckedIsStored
  BY DEF WInv
<1> QED
  BY <1>1, TransferInvariant, PTL

\* ... and neither the client nor the target has a transaction left.
THEOREM NothingLeftOpen == Spec => []LeavesNothingOpen
<1>1. WInv => LeavesNothingOpen
  BY DEF WInv
<1> QED
  BY <1>1, TransferInvariant, PTL

=============================================================================
