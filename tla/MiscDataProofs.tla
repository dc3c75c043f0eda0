--------------------------- MODULE MiscDataProofs ---------------------------
(***************************************************************************)
(* Theorems about MiscData, for every partition size, every set of ports,  *)
(* both media and every set of requests.                                   *)
(***************************************************************************)
EXTENDS MC_MiscData, TLAPS

\* What a request is known to be.
LEMMA RequestFacts ==
  ASSUME NEW r \in Requests \cup {NoRequest}
  PROVE  /\ r.off \in Nat
         /\ r.len \in Nat
         /\ r.op \in StoreOps =>
              r.data \in [0 .. r.len - 1 -> Vals]
<1>1. CASE r \in Requests
  <2>1. /\ r.off \in 0 .. Size
        /\ r.len \in 0 .. MaxLen
        /\ r.data \in Payloads
        /\ WellFormed(r)
    BY <1>1 DEF Requests
  <2>2. PICK n \in 0 .. MaxLen : r.data \in [0 .. n - 1 -> Vals]
    BY <2>1 DEF Payloads
  <2>3. r.op \in StoreOps => DOMAIN r.data = 0 .. r.len - 1
    BY <2>1 DEF WellFormed
  <2>4. r.op \in StoreOps => r.data \in [0 .. r.len - 1 -> Vals]
    BY <2>2, <2>3
  <2>5. QED
    BY <2>1, <2>4, MiscDataAssumption
<1>2. CASE r = NoRequest
  BY <1>2 DEF NoRequest, StoreOps
<1>3. QED
  BY <1>1, <1>2

\* The cells a handler transfers are cells of the partition.
LEMMA SpanInCells ==
  ASSUME NEW r
  PROVE  Span(r) \subseteq Cells
BY DEF Span

\* Laying a patch of cell contents over a volume gives a volume.
LEMMA OverlayType ==
  ASSUME NEW vol \in [Cells -> Vals], NEW S \in SUBSET Cells, NEW p \in [S -> Vals]
  PROVE  Overlay(vol, p) \in [Cells -> Vals]
BY DEF Overlay

\* What a handler holds at each step: the part TypeOK is not inductive without.
Shape(c) ==
  /\ pc[c] = "read" => req[c].op \in ReadOps \cup {"ctrl_write", "ex_write"}
  /\ pc[c] \in {"write", "vread", "sync"} => req[c].op \in StoreOps
  /\ pc[c] \in {"write", "vread"} /\ req[c].op = "ctrl_write" =>
       image[c] \in [Span(req[c]) -> Vals]
  /\ pc[c] \in {"update", "vwrite"} => image[c] \in [Cells -> Vals]
  /\ ~Nand => pc[c] \notin {"vread", "update", "vwrite"}

IInv == TypeOK /\ (\A c \in Channels : Shape(c)) /\ DirtyIsPending

\* What a handler is about to write is contents for exactly the cells it spans.
LEMMA PatchType ==
  ASSUME TypeOK, NEW c \in Channels, Shape(c), pc[c] \in {"write", "vread"}
  PROVE  Patch(req[c], image[c]) \in [Span(req[c]) -> Vals]
<1> DEFINE r == req[c]
<1>1. /\ r.off \in Nat /\ r.len \in Nat
      /\ r.data \in [0 .. r.len - 1 -> Vals]
      /\ r.op \in StoreOps
  BY RequestFacts DEF TypeOK, Shape
<1>2. SUFFICES ASSUME NEW i \in Span(r)
               PROVE  (IF i >= r.off THEN r.data[i - r.off] ELSE image[c][i]) \in Vals
  BY DEF Patch
<1>3. CASE r.op = "ctrl_write"
  <2>1. i \in Nat /\ i < r.len /\ image[c][i] \in Vals
    BY <1>1, <1>3, MiscDataAssumption DEF Shape, Span, Base, Length, Cells
  <2>2. i >= r.off => i - r.off \in 0 .. r.len - 1
    BY <1>1, <2>1
  <2>3. QED
    BY <1>1, <2>1, <2>2
<1>4. CASE r.op # "ctrl_write"
  <2>1. i \in Int /\ r.off <= i /\ i < r.off + r.len
    BY <1>1, <1>4, MiscDataAssumption DEF Span, Base, Length, Cells, StoreOps
  <2>2. i >= r.off /\ i - r.off \in 0 .. r.len - 1
    BY <1>1, <2>1
  <2>3. QED
    BY <1>1, <2>2
<1>5. QED
  BY <1>3, <1>4

\* Images are the functions from sets of cells to contents.
LEMMA ImagesIntro ==
  ASSUME NEW S \in SUBSET Cells, NEW f \in [S -> Vals]
  PROVE  f \in Images
BY DEF Images

LEMMA NoImageType == NoImage \in Images
<1>1. NoImage \in [{} -> Vals]
  BY DEF NoImage
<1>2. QED
  BY <1>1, ImagesIntro

LEMMA InitIInv == Init => IInv
BY NoImageType DEF Init, IInv, TypeOK, Shape, DirtyIsPending, Steps, Replies, Requests

\* A handler that a step does not touch keeps its shape.
LEMMA ShapeKept ==
  ASSUME NEW d \in Channels, Shape(d),
         pc'[d] = pc[d], req'[d] = req[d], image'[d] = image[d]
  PROVE  Shape(d)'
BY DEF Shape, Span, Base, Length

\* Every step of a handler, and every event of its surroundings, preserves
\* the invariant.
LEMMA NextIInv == IInv /\ [Next]_vars => IInv'
<1> SUFFICES ASSUME IInv, [Next]_vars PROVE IInv'
  OBVIOUS
<1> USE DEF IInv, TypeOK, Steps, Replies, store
<1>1. ASSUME NEW c \in Channels, NEW r \in Requests, Receive(c, r) PROVE IInv'
  <2>1. TypeOK'
    BY <1>1 DEF Receive, Finish, FirstStep
  <2>2. ASSUME NEW d \in Channels PROVE Shape(d)'
    <3>1. CASE d # c
      BY <1>1, <3>1, ShapeKept DEF Receive, Finish
    <3>2. req'[c] = r /\ pc'[c] \in {"reply", FirstStep(r)}
      BY <1>1 DEF Receive, Finish
    <3>3. /\ FirstStep(r) \in {"read", "write", "vread", "reply"}
          /\ FirstStep(r) = "read" => r.op \in ReadOps \cup {"ctrl_write", "ex_write"}
          /\ FirstStep(r) \in {"write", "vread"} => r.op \in StoreOps \ {"ctrl_write"}
          /\ ~Nand => FirstStep(r) # "vread"
      BY DEF FirstStep, StoreOps, ReadOps
    <3>4. CASE d = c
      BY <3>2, <3>3, <3>4 DEF Shape
    <3>5. QED
      BY <3>1, <3>4
  <2>3. DirtyIsPending'
    BY <1>1 DEF Receive, Finish, FirstStep, DirtyIsPending, Unsynced
  <2>4. QED
    BY <2>1, <2>2, <2>3
<1>2. ASSUME NEW c \in Channels, ReadFail(c) PROVE IInv'
  <2>1. TypeOK'
    BY <1>2 DEF ReadFail, Finish
  <2>2. ASSUME NEW d \in Channels PROVE Shape(d)'
    <3>1. CASE d # c
      BY <1>2, <3>1, ShapeKept DEF ReadFail, Finish
    <3>2. CASE d = c
      BY <1>2, <3>2 DEF ReadFail, Finish, Shape
    <3>3. QED
      BY <3>1, <3>2
  <2>3. DirtyIsPending'
    BY <1>2 DEF ReadFail, Finish, DirtyIsPending, Unsynced, Span, Base, Length
  <2>4. QED
    BY <2>1, <2>2, <2>3
<1>3. ASSUME NEW c \in Channels, WriteFail(c) PROVE IInv'
  <2>1. TypeOK'
    BY <1>3 DEF WriteFail, Finish
  <2>2. ASSUME NEW d \in Channels PROVE Shape(d)'
    <3>1. CASE d # c
      BY <1>3, <3>1, ShapeKept DEF WriteFail, Finish
    <3>2. CASE d = c
      BY <1>3, <3>2 DEF WriteFail, Finish, Shape
    <3>3. QED
      BY <3>1, <3>2
  <2>3. DirtyIsPending'
    BY <1>3 DEF WriteFail, Finish, DirtyIsPending, Unsynced, Span, Base, Length
  <2>4. QED
    BY <2>1, <2>2, <2>3
<1>4. ASSUME NEW c \in Channels, VolumeReadFail(c) PROVE IInv'
  <2>1. TypeOK'
    BY <1>4 DEF VolumeReadFail, Finish
  <2>2. ASSUME NEW d \in Channels PROVE Shape(d)'
    <3>1. CASE d # c
      BY <1>4, <3>1, ShapeKept DEF VolumeReadFail, Finish
    <3>2. CASE d = c
      BY <1>4, <3>2 DEF VolumeReadFail, Finish, Shape
    <3>3. QED
      BY <3>1, <3>2
  <2>3. DirtyIsPending'
    BY <1>4 DEF VolumeReadFail, Finish, DirtyIsPending, Unsynced, Span, Base, Length
  <2>4. QED
    BY <2>1, <2>2, <2>3
<1>5. ASSUME NEW c \in Channels, UpdateStart(c) PROVE IInv'
  <2>1. TypeOK'
    BY <1>5 DEF UpdateStart, Finish
  <2>2. ASSUME NEW d \in Channels PROVE Shape(d)'
    <3>1. CASE d # c
      BY <1>5, <3>1, ShapeKept DEF UpdateStart, Finish
    <3>2. CASE d = c
      BY <1>5, <3>2 DEF UpdateStart, Finish, Shape
    <3>3. QED
      BY <3>1, <3>2
  <2>3. DirtyIsPending'
    BY <1>5 DEF UpdateStart, Finish, DirtyIsPending, Unsynced, Span, Base, Length
  <2>4. QED
    BY <2>1, <2>2, <2>3
<1>6. ASSUME NEW c \in Channels, UpdateFail(c) PROVE IInv'
  <2>1. TypeOK'
    BY <1>6 DEF UpdateFail, Finish
  <2>2. ASSUME NEW d \in Channels PROVE Shape(d)'
    <3>1. CASE d # c
      BY <1>6, <3>1, ShapeKept DEF UpdateFail, Finish
    <3>2. CASE d = c
      BY <1>6, <3>2 DEF UpdateFail, Finish, Shape
    <3>3. QED
      BY <3>1, <3>2
  <2>3. DirtyIsPending'
    BY <1>6 DEF UpdateFail, Finish, DirtyIsPending, Unsynced, Span, Base, Length
  <2>4. QED
    BY <2>1, <2>2, <2>3
<1>7. ASSUME NEW c \in Channels, VolumeWriteFail(c) PROVE IInv'
  <2>1. TypeOK'
    BY <1>7 DEF VolumeWriteFail, Finish
  <2>2. ASSUME NEW d \in Channels PROVE Shape(d)'
    <3>1. CASE d # c
      BY <1>7, <3>1, ShapeKept DEF VolumeWriteFail, Finish
    <3>2. CASE d = c
      BY <1>7, <3>2 DEF VolumeWriteFail, Finish, Shape
    <3>3. QED
      BY <3>1, <3>2
  <2>3. DirtyIsPending'
    BY <1>7 DEF VolumeWriteFail, Finish, DirtyIsPending, Unsynced, Span, Base, Length
  <2>4. QED
    BY <2>1, <2>2, <2>3
<1>8. ASSUME NEW c \in Channels, Sync(c) PROVE IInv'
  <2>1. TypeOK'
    BY <1>8 DEF Sync, Finish
  <2>2. ASSUME NEW d \in Channels PROVE Shape(d)'
    <3>1. CASE d # c
      BY <1>8, <3>1, ShapeKept DEF Sync, Finish
    <3>2. CASE d = c
      BY <1>8, <3>2 DEF Sync, Finish, Shape
    <3>3. QED
      BY <3>1, <3>2
  <2>3. DirtyIsPending'
    BY <1>8 DEF Sync, Finish, DirtyIsPending, Unsynced, Span, Base, Length
  <2>4. QED
    BY <2>1, <2>2, <2>3
<1>9. ASSUME NEW c \in Channels, Answer(c) PROVE IInv'
  <2>1. TypeOK'
    BY <1>9, NoImageType DEF Answer
  <2>2. ASSUME NEW d \in Channels PROVE Shape(d)'
    <3>1. CASE d # c
      BY <1>9, <3>1, ShapeKept DEF Answer, Finish
    <3>2. CASE d = c
      BY <1>9, <3>2 DEF Answer, Finish, Shape
    <3>3. QED
      BY <3>1, <3>2
  <2>3. DirtyIsPending'
    BY <1>9 DEF Answer, Finish, DirtyIsPending, Unsynced, Span, Base, Length
  <2>4. QED
    BY <2>1, <2>2, <2>3
<1>10. ASSUME NEW c \in Channels, ReadOK(c) PROVE IInv'
  <2> DEFINE r == req[c]
  <2>a. [i \in Span(r) |-> disk[i]] \in [Span(r) -> Vals]
    BY SpanInCells
  <2>b. Returned(r, disk) \in Images
    BY <2>a, SpanInCells, ImagesIntro, NoImageType DEF Returned
  <2>1. TypeOK'
    BY <1>10, <2>a, <2>b, SpanInCells, ImagesIntro, NoImageType DEF ReadOK, Finish
  <2>2. ASSUME NEW d \in Channels PROVE Shape(d)'
    <3>1. CASE d # c
      BY <1>10, <3>1, ShapeKept DEF ReadOK, Finish
    <3>2. CASE d = c
      <4>1. req'[c] = req[c] /\ Span(req[c])' = Span(req[c])
        BY <1>10 DEF ReadOK, Span, Base, Length
      <4>2. CASE req[c].op \in ReadOps
        BY <1>10, <3>2, <4>2 DEF ReadOK, Finish, Shape
      <4>3. CASE req[c].op \notin ReadOps
        BY <1>10, <2>a, <3>2, <4>1, <4>3 DEF ReadOK, Finish, Shape, StoreOps
      <4>4. QED
        BY <4>2, <4>3
    <3>3. QED
      BY <3>1, <3>2
  <2>3. DirtyIsPending'
    BY <1>10 DEF ReadOK, Finish, DirtyIsPending, Unsynced, Span, Base, Length
  <2>4. QED
    BY <2>1, <2>2, <2>3
<1>11. ASSUME NEW c \in Channels, Write(c) PROVE IInv'
  <2>a. Patch(req[c], image[c]) \in [Span(req[c]) -> Vals]
    BY <1>11, PatchType DEF Write
  <2>1. TypeOK'
    BY <1>11, <2>a, SpanInCells, OverlayType DEF Write, Overtake
  <2>2. ASSUME NEW d \in Channels PROVE Shape(d)'
    <3>1. CASE d # c
      BY <1>11, <3>1, ShapeKept DEF Write, Finish
    <3>2. CASE d = c
      BY <1>11, <3>2 DEF Write, Finish, Shape
    <3>3. QED
      BY <3>1, <3>2
  <2>3. DirtyIsPending'
    <3> SUFFICES ASSUME NEW i \in Cells, disk'[i] # durable'[i]
                 PROVE  i \in (stray \cup Unsynced)'
      BY DEF DirtyIsPending
    <3>1. CASE i \in Span(req[c])
      BY <1>11, <3>1 DEF Write, Unsynced, Span, Base, Length
    <3>2. CASE i \notin Span(req[c])
      <4>1. disk'[i] = disk[i]
        BY <1>11, <2>a, <3>2 DEF Write, Overlay
      <4>2. i \in stray \cup Unsynced
        BY <1>11, <4>1 DEF Write, DirtyIsPending
      <4>3. QED
        BY <1>11, <4>2 DEF Write, Unsynced, Span, Base, Length
    <3>3. QED
      BY <3>1, <3>2
  <2>4. QED
    BY <2>1, <2>2, <2>3
<1>12. ASSUME NEW c \in Channels, VolumeRead(c) PROVE IInv'
  <2>a. Patch(req[c], image[c]) \in [Span(req[c]) -> Vals]
    BY <1>12, PatchType DEF VolumeRead
  <2>b. Overlay(disk, Patch(req[c], image[c])) \in [Cells -> Vals]
    BY <2>a, SpanInCells, OverlayType
  <2>1. TypeOK'
    BY <1>12, <2>b, ImagesIntro DEF VolumeRead
  <2>2. ASSUME NEW d \in Channels PROVE Shape(d)'
    <3>1. CASE d # c
      BY <1>12, <3>1, ShapeKept DEF VolumeRead, Finish
    <3>2. CASE d = c
      BY <1>12, <2>b, <3>2 DEF VolumeRead, Shape
    <3>3. QED
      BY <3>1, <3>2
  <2>3. DirtyIsPending'
    BY <1>12 DEF VolumeRead, Finish, DirtyIsPending, Unsynced, Span, Base, Length
  <2>4. QED
    BY <2>1, <2>2, <2>3
<1>13. ASSUME NEW c \in Channels, VolumeWrite(c) PROVE IInv'
  <2>1. TypeOK'
    BY <1>13 DEF VolumeWrite, Overtake, Finish, Shape
  <2>2. ASSUME NEW d \in Channels PROVE Shape(d)'
    <3>1. CASE d # c
      BY <1>13, <3>1, ShapeKept DEF VolumeWrite, Finish
    <3>2. CASE d = c
      BY <1>13, <3>2 DEF VolumeWrite, Finish, Shape
    <3>3. QED
      BY <3>1, <3>2
  <2>3. DirtyIsPending'
    BY <1>13 DEF VolumeWrite, DirtyIsPending
  <2>4. QED
    BY <2>1, <2>2, <2>3
<1>14. ASSUME NEW c \in Channels, Abort(c) PROVE IInv'
  <2>1. Unsynced \subseteq Cells
    BY SpanInCells DEF Unsynced
  <2>2. TypeOK'
    BY <1>14, <2>1, NoImageType DEF Abort, ChannelsReset
  <2>3. ASSUME NEW d \in Channels PROVE Shape(d)'
    BY <1>14 DEF Abort, ChannelsReset, Shape
  <2>4. DirtyIsPending'
    BY <1>14 DEF Abort, DirtyIsPending
  <2>5. QED
    BY <2>2, <2>3, <2>4
<1>15. ASSUME PowerCut PROVE IInv'
  <2>1. TypeOK'
    BY <1>15, NoImageType DEF PowerCut, ChannelsReset
  <2>2. ASSUME NEW d \in Channels PROVE Shape(d)'
    BY <1>15 DEF PowerCut, ChannelsReset, Shape
  <2>3. DirtyIsPending'
    BY <1>15 DEF PowerCut, DirtyIsPending
  <2>4. QED
    BY <2>1, <2>2, <2>3
<1>16. CASE UNCHANGED vars
  <2>1. TypeOK'
    BY <1>16 DEF vars
  <2>2. ASSUME NEW d \in Channels PROVE Shape(d)'
    BY <1>16, ShapeKept DEF vars
  <2>3. DirtyIsPending'
    BY <1>16 DEF vars, DirtyIsPending, Unsynced, Span, Base, Length
  <2>4. QED
    BY <2>1, <2>2, <2>3
<1>17. QED
  BY <1>1, <1>2, <1>3, <1>4, <1>5, <1>6, <1>7, <1>8, <1>9,
     <1>10, <1>11, <1>12, <1>13, <1>14, <1>15, <1>16
  DEF Next, Handle

\* Every variable keeps its type in every reachable state.
THEOREM TypeCorrect == Spec => []TypeOK
<1>1. IInv => TypeOK
  BY DEF IInv
<1>2. QED
  BY InitIInv, NextIInv, <1>1, PTL DEF Spec

\* No acknowledged write can be lost by a power cut: what the medium lacks was
\* written by a request still waiting for its fsync, or killed before it.
THEOREM Durability == Spec => []DirtyIsPending
<1>1. IInv => DirtyIsPending
  BY DEF IInv
<1>2. QED
  BY InitIInv, NextIInv, <1>1, PTL DEF Spec

----------------------------------------------------------------------------
(* The volume nobody repairs.                                              *)

\* An unfinished update stays unfinished: each step keeps the marker and
\* leads no handler to an update, since a volume read needs the marker clear.
LEMMA WedgedStep == TypeOK /\ [Next]_vars => (Wedged => Wedged')
<1> SUFFICES ASSUME TypeOK, [Next]_vars, Wedged PROVE Wedged'
  OBVIOUS
<1> USE DEF TypeOK, Wedged, store
<1>1. ASSUME NEW c \in Channels, NEW r \in Requests, Receive(c, r) PROVE Wedged'
  <2>1. FirstStep(r) \notin {"update", "vwrite"}
    BY DEF FirstStep
  <2>2. QED
    BY <1>1, <2>1 DEF Receive, Finish
<1>2. ASSUME NEW c \in Channels, Handle(c) PROVE Wedged'
  <2>1. CASE ReadOK(c)
    BY <2>1 DEF ReadOK, Finish
  <2>2. CASE ReadFail(c) \/ WriteFail(c) \/ VolumeReadFail(c)
    BY <2>2 DEF ReadFail, WriteFail, VolumeReadFail, Finish
  <2>3. CASE Write(c) \/ Sync(c) \/ Answer(c)
    BY <2>3 DEF Write, Sync, Answer
  <2>4. ~(VolumeRead(c) \/ UpdateStart(c) \/ UpdateFail(c)
            \/ VolumeWrite(c) \/ VolumeWriteFail(c))
    BY DEF VolumeRead, UpdateStart, UpdateFail, VolumeWrite, VolumeWriteFail
  <2>5. QED
    BY <1>2, <2>1, <2>2, <2>3, <2>4 DEF Handle
<1>3. ASSUME NEW c \in Channels, Abort(c) PROVE Wedged'
  BY <1>3 DEF Abort, ChannelsReset
<1>4. CASE PowerCut
  BY <1>4 DEF PowerCut, ChannelsReset
<1>5. CASE UNCHANGED vars
  BY <1>5 DEF vars
<1>6. QED
  BY <1>1, <1>2, <1>3, <1>4, <1>5 DEF Next

\* Once an update is left unfinished, no request repairs the volume.
THEOREM NoRepair == Spec => WedgedForGood
<1>1. TypeOK /\ [Next]_vars => [Wedged => Wedged']_vars
  BY WedgedStep
<1>2. QED
  BY TypeCorrect, <1>1, PTL DEF Spec, WedgedForGood

----------------------------------------------------------------------------
(* Ports do not disturb each other's cells, however many there are, unless *)
(* one of them puts back what it read before another's write.              *)

LEMMA SpanAddressed ==
  ASSUME NEW r, r.op \in StoreOps \ {"ctrl_write"}
  PROVE  Span(r) \subseteq Addressed(r)
BY DEF Span, Addressed, Base, Length, StoreOps

\* The cells a port would put back as it has read them.
PutBack(c) ==
  IF pc[c] \in {"update", "vwrite"} THEN Cells \ (Addressed(req[c]) \cap Span(req[c]))
  ELSE IF pc[c] \in {"write", "vread"} /\ req[c].op = "ctrl_write"
       THEN Span(req[c]) \ Addressed(req[c])
       ELSE {}

\* A port nobody has overtaken puts back what the partition holds.
Fresh(c) == c \notin raced => \A i \in PutBack(c) : image[c][i] = disk[i]

\* A cell the medium lags behind in waits for the fsync of a port that was
\* asked to change it, or that has raced.
Owned ==
  \A i \in Cells : disk[i] # durable[i] =>
    \/ i \in stray
    \/ \E c \in Channels : /\ pc[c] = "sync"
                           /\ i \in Span(req[c])
                           /\ i \in Addressed(req[c]) \/ c \in raced

Race == (\A c \in Channels : Fresh(c)) /\ Owned

\* A port that a step leaves alone stays fresh if the partition does not change.
LEMMA FreshKept ==
  ASSUME NEW c \in Channels, Fresh(c), disk' = disk, c \in raced => c \in raced',
         pc'[c] = pc[c], req'[c] = req[c], image'[c] = image[c]
  PROVE  Fresh(c)'
BY DEF Fresh, PutBack, Addressed, Span, Base, Length

\* If it changes, the port is marked as raced.
LEMMA FreshOvertaken ==
  ASSUME NEW c \in Channels, NEW d \in Channels \ {c}, Overtake(c),
         pc'[d] = pc[d], req'[d] = req[d]
  PROVE  Fresh(d)'
BY DEF Fresh, PutBack, Overtake, Holding

\* What a port that nobody has overtaken writes keeps the cells it does not
\* address.
LEMMA PatchKeeps ==
  ASSUME TypeOK, NEW c \in Channels, Shape(c), Fresh(c), c \notin raced,
         pc[c] \in {"write", "vread"}, NEW i \in Cells \ (Addressed(req[c]) \cap Span(req[c]))
  PROVE  Overlay(disk, Patch(req[c], image[c]))[i] = disk[i]
<1> DEFINE r == req[c]
<1>1. r.off \in Nat /\ r.len \in Nat /\ r.op \in StoreOps
  BY RequestFacts DEF TypeOK, Shape
<1>2. CASE i \notin Span(r)
  BY <1>2 DEF Overlay, Patch
<1>3. CASE i \in Span(r)
  <2>1. r.op = "ctrl_write"
    BY <1>1, <1>3, SpanAddressed
  <2>2. ~(i >= r.off)
    BY <1>1, <1>3, <2>1 DEF Span, Base, Length, Addressed, Cells
  <2>3. image[c][i] = disk[i]
    BY <1>3, <2>1 DEF Fresh, PutBack
  <2>4. QED
    BY <1>3, <2>2, <2>3 DEF Overlay, Patch
<1>4. QED
  BY <1>2, <1>3

\* A cell that changes is changed by a handler's write or volume write, for
\* a port that addressed it or has raced, or by a power cut.
LEMMA WriteKeeps ==
  ASSUME IInv, Race, NEW c \in Channels, Write(c) \/ VolumeWrite(c),
         NEW i \in Cells, disk'[i] # disk[i]
  PROVE  i \in Addressed(req[c]) \/ c \in raced
<1> USE DEF IInv, TypeOK, Race
<1>1. CASE Write(c)
  BY <1>1, PatchKeeps DEF Write
<1>2. CASE VolumeWrite(c)
  BY <1>2 DEF VolumeWrite, Fresh, PutBack
<1>3. QED
  BY <1>1, <1>2

LEMMA InitRace == Init => Race
BY DEF Init, Race, Fresh, PutBack, Owned

\* A port that does not change the partition, and marks no cell as its own,
\* leaves every waiting cell its owner.
LEMMA OwnedKept ==
  ASSUME Owned, disk' = disk, durable' = durable, stray' = stray,
         \A c \in Channels : pc[c] = "sync" =>
           pc'[c] = "sync" /\ req'[c] = req[c] /\ (c \in raced => c \in raced')
  PROVE  Owned'
BY DEF Owned, Addressed, Span, Base, Length

\* The steps of a handler that leave the partition as it is.
Quiet(c) ==
  \/ ReadOK(c) \/ ReadFail(c) \/ WriteFail(c)
  \/ VolumeRead(c) \/ VolumeReadFail(c)
  \/ UpdateStart(c) \/ UpdateFail(c) \/ VolumeWriteFail(c)
  \/ Answer(c)

LEMMA QuietRace ==
  ASSUME IInv, Race, NEW c \in Channels, Quiet(c) \/ \E r \in Requests : Receive(c, r)
  PROVE  Race'
<1> USE DEF IInv, TypeOK, Race, store
<1>1. /\ disk' = disk /\ durable' = durable /\ stray' = stray
      /\ raced \ {c} \subseteq raced'
      /\ pc[c] \notin {"sync"}
      /\ \A d \in Channels \ {c} : pc'[d] = pc[d] /\ req'[d] = req[d] /\ image'[d] = image[d]
  BY DEF Quiet, Receive, ReadOK, ReadFail, WriteFail, VolumeRead, VolumeReadFail,
         UpdateStart, UpdateFail, VolumeWriteFail, Answer, Finish
<1>2. Owned'
  <2>1. ASSUME NEW d \in Channels, pc[d] = "sync" PROVE d # c
    BY <1>1, <2>1
  <2>2. QED
    BY <1>1, <2>1, OwnedKept
<1>3. ASSUME NEW d \in Channels \ {c} PROVE Fresh(d)'
  BY <1>1, FreshKept
<1>4. Fresh(c)'
  <2>1. CASE VolumeRead(c)
    <3>1. SUFFICES ASSUME c \notin raced, NEW i \in Cells \ (Addressed(req[c]) \cap Span(req[c]))
                   PROVE  image'[c][i] = disk[i]
      BY <1>1, <2>1 DEF VolumeRead, Fresh, PutBack, Addressed, Span, Base, Length
    <3>2. QED
      BY <2>1, <3>1, PatchKeeps DEF VolumeRead
  <2>2. CASE ReadOK(c)
    <3>1. /\ req' = req
          /\ pc'[c] \in {"write", "vread"} /\ req[c].op = "ctrl_write" =>
               image'[c] = [i \in Span(req[c]) |-> disk[i]]
          /\ pc'[c] \in {"write", "vread", "reply"}
      BY <2>2 DEF ReadOK, Finish
    <3>2. QED
      BY <1>1, <3>1 DEF Fresh, PutBack, Span, Base, Length, Addressed
  <2>3. CASE UpdateStart(c)
    BY <1>1, <2>3 DEF UpdateStart, Fresh, PutBack, Addressed, Span, Base, Length
  <2>4. CASE \/ ReadFail(c) \/ WriteFail(c) \/ VolumeReadFail(c) \/ UpdateFail(c)
             \/ VolumeWriteFail(c) \/ Answer(c)
    BY <2>4 DEF ReadFail, WriteFail, VolumeReadFail, UpdateFail, VolumeWriteFail, Answer,
                Finish, Fresh, PutBack
  <2>5. ASSUME NEW r \in Requests, Receive(c, r) PROVE Fresh(c)'
    <3>1. /\ req'[c] = r /\ pc'[c] \in {"reply", FirstStep(r)}
      BY <2>5 DEF Receive, Finish
    <3>2. /\ FirstStep(r) \in {"read", "write", "vread", "reply"}
          /\ FirstStep(r) \in {"write", "vread"} => r.op # "ctrl_write"
      BY DEF FirstStep, ReadOps
    <3>3. QED
      BY <3>1, <3>2 DEF Fresh, PutBack
  <2>6. QED
    BY <2>1, <2>2, <2>3, <2>4, <2>5 DEF Quiet
<1>5. QED
  BY <1>2, <1>3, <1>4

LEMMA NextRace == IInv /\ Race /\ [Next]_vars => Race'
<1> SUFFICES ASSUME IInv, Race, [Next]_vars PROVE Race'
  OBVIOUS
<1> USE DEF IInv, TypeOK, Race
<1>1. ASSUME NEW c \in Channels, Write(c) PROVE Race'
  <2>1. ASSUME NEW d \in Channels \ {c} PROVE Fresh(d)'
    BY <1>1, FreshOvertaken DEF Write
  <2>2. Fresh(c)'
    BY <1>1 DEF Write, Fresh, PutBack
  <2>3. Owned'
    <3> SUFFICES ASSUME NEW i \in Cells, disk'[i] # durable'[i], i \notin stray'
                 PROVE  \E d \in Channels : /\ pc'[d] = "sync"
                                            /\ i \in Span(req'[d])
                                            /\ i \in Addressed(req'[d]) \/ d \in raced'
      BY DEF Owned, Span, Base, Length, Addressed
    <3>1. raced \subseteq raced' /\ req' = req /\ stray' = stray /\ durable' = durable
      BY <1>1 DEF Write, Overtake
    <3>2. CASE disk'[i] # disk[i]
      <4>1. i \in Addressed(req[c]) \/ c \in raced
        BY <1>1, <3>2, WriteKeeps
      <4>2. i \in Span(req[c])
        BY <1>1, <3>2 DEF Write, Overlay, Patch
      <4>3. pc'[c] = "sync"
        BY <1>1 DEF Write
      <4>4. QED
        BY <3>1, <4>1, <4>2, <4>3
    <3>3. CASE disk'[i] = disk[i]
      <4>1. PICK d \in Channels : /\ pc[d] = "sync"
                                  /\ i \in Span(req[d])
                                  /\ i \in Addressed(req[d]) \/ d \in raced
        BY <3>1, <3>3 DEF Owned
      <4>2. pc'[d] = "sync"
        BY <1>1, <4>1 DEF Write
      <4>3. QED
        BY <3>1, <4>1, <4>2
    <3>4. QED
      BY <3>2, <3>3
  <2>4. QED
    BY <2>1, <2>2, <2>3
<1>2. ASSUME NEW c \in Channels, VolumeWrite(c) PROVE Race'
  <2>1. ASSUME NEW d \in Channels \ {c} PROVE Fresh(d)'
    BY <1>2, FreshOvertaken DEF VolumeWrite, Finish
  <2>2. Fresh(c)'
    BY <1>2 DEF VolumeWrite, Finish, Fresh, PutBack
  <2>3. Owned'
    BY <1>2 DEF VolumeWrite, Owned
  <2>4. QED
    BY <2>1, <2>2, <2>3
<1>3. ASSUME NEW c \in Channels, Sync(c) PROVE Race'
  <2>1. ASSUME NEW d \in Channels \ {c} PROVE Fresh(d)'
    BY <1>3, FreshKept DEF Sync
  <2>2. Fresh(c)'
    BY <1>3 DEF Sync, Fresh, PutBack
  <2>3. Owned'
    BY <1>3 DEF Sync, Owned
  <2>4. QED
    BY <2>1, <2>2, <2>3
<1>4. ASSUME NEW c \in Channels, Quiet(c) \/ \E r \in Requests : Receive(c, r) PROVE Race'
  BY <1>4, QuietRace
<1>5. ASSUME NEW c \in Channels, Abort(c) PROVE Race'
  <2>1. ASSUME NEW i \in Cells, disk[i] # durable[i] PROVE i \in stray'
    BY <1>5, <2>1 DEF Abort, Owned, Unsynced
  <2>2. Owned'
    BY <1>5, <2>1 DEF Abort, Owned
  <2>3. QED
    BY <1>5, <2>2 DEF Abort, ChannelsReset, Fresh, PutBack
<1>6. CASE PowerCut
  BY <1>6 DEF PowerCut, ChannelsReset, Fresh, PutBack, Owned
<1>7. CASE UNCHANGED vars
  <2>1. ASSUME NEW d \in Channels PROVE Fresh(d)'
    BY <1>7, FreshKept DEF vars
  <2>2. Owned'
    BY <1>7, OwnedKept DEF vars
  <2>3. QED
    BY <2>1, <2>2
<1>8. QED
  BY <1>1, <1>2, <1>3, <1>4, <1>5, <1>6, <1>7 DEF Next, Handle, Quiet

\* The only steps that change the partition are a handler's write, a volume
\* write and a power cut.
LEMMA OtherStepsKeepDisk ==
  ASSUME [Next]_vars,
         \A c \in Channels : ~Write(c) /\ ~VolumeWrite(c),
         ~PowerCut
  PROVE  disk' = disk
<1> USE DEF store
<1>1. ASSUME NEW c \in Channels, Handle(c) PROVE disk' = disk
  BY <1>1 DEF Handle, ReadOK, ReadFail, WriteFail, Sync, VolumeRead, VolumeReadFail,
              UpdateStart, UpdateFail, VolumeWriteFail, Answer
<1>2. ASSUME NEW c \in Channels, NEW r \in Requests, Receive(c, r) PROVE disk' = disk
  BY <1>2 DEF Receive
<1>3. ASSUME NEW c \in Channels, Abort(c) PROVE disk' = disk
  BY <1>3 DEF Abort
<1>4. QED
  BY <1>1, <1>2, <1>3 DEF Next, vars

\* On either medium and for every kind of request, no cell changes but those
\* addressed by a request being stored, unless two ports' writes raced.
THEOREM NeighboursKept == Spec => OnlyAddressed
<1>1. IInv /\ Race /\ [Next]_vars => [StoresAddressed]_vars
  <2> SUFFICES ASSUME IInv, Race, [Next]_vars, NEW i \in Cells, disk'[i] # disk[i],
                      i \notin stray
               PROVE  \E c \in Channels : /\ pc[c] \in Storing
                                          /\ i \in Addressed(req[c]) \/ c \in raced
    BY DEF StoresAddressed
  <2>1. ASSUME NEW c \in Channels, Write(c) \/ VolumeWrite(c)
        PROVE  pc[c] \in Storing /\ (i \in Addressed(req[c]) \/ c \in raced)
    BY <2>1, WriteKeeps DEF Write, VolumeWrite, Storing
  <2>2. CASE PowerCut
    <3>1. disk[i] # durable[i]
      BY <2>2 DEF PowerCut
    <3>2. QED
      BY <3>1 DEF Race, Owned, Storing
  <2>3. QED
    BY <2>1, <2>2, OtherStepsKeepDisk
<1>2. QED
  BY InitIInv, InitRace, NextIInv, NextRace, <1>1, PTL DEF Spec, OnlyAddressed

----------------------------------------------------------------------------
(* MiscData implements MiscStore: every step of a handler is a step of the *)
(* store, or none.                                                         *)

\* What a handler's copy holds, and on which medium it is where.
Bound(c) ==
  /\ pc[c] \in {"idle", "read"} => image[c] = NoImage
  /\ pc[c] = "write" => ~Nand
  /\ pc[c] \in {"update", "vwrite"} =>
       /\ req[c].op \in StoreOps
       /\ \A i \in Addressed(req[c]) \cap Span(req[c]) :
            image[c][i] = req[c].data[i - req[c].off]

Medium == (marker => Nand) /\ \A c \in Channels : Bound(c)

LEMMA InitMedium == Init => Medium
BY DEF Init, Medium, Bound

\* Where a request's first step leads.
LEMMA FirstStepFacts ==
  ASSUME NEW r \in Requests, ~Unanswered(r), r.op # "phs_nocmd"
  PROVE  /\ FirstStep(r) \in {"read", "write", "vread"}
         /\ FirstStep(r) = "write" => ~Nand
<1>1. r.op \in AllOps
  BY MiscDataAssumption DEF Requests
<1>2. r.op \notin RefusedOps
  BY DEF Unanswered, RefusedOps
<1>3. QED
  BY <1>1, <1>2 DEF FirstStep, AllOps, ReadOps, StoreOps

\* A handler that a step does not touch stays bound.
LEMMA BoundKept ==
  ASSUME NEW d \in Channels, Bound(d),
         pc'[d] = pc[d], req'[d] = req[d], image'[d] = image[d]
  PROVE  Bound(d)'
BY DEF Bound, Addressed, Span, Base, Length

\* What is patched is what the request asks for.
LEMMA PatchLays ==
  ASSUME TypeOK, NEW c \in Channels, req[c].op \in StoreOps,
         NEW i \in Addressed(req[c]) \cap Span(req[c])
  PROVE  Overlay(disk, Patch(req[c], image[c]))[i] = req[c].data[i - req[c].off]
<1>1. req[c].off \in Nat /\ i \in Cells /\ i >= req[c].off
  BY RequestFacts, MiscDataAssumption DEF TypeOK, Addressed, Cells
<1>2. QED
  BY <1>1 DEF Overlay, Patch

LEMMA NextMedium == IInv /\ Medium /\ [Next]_vars => Medium'
<1> SUFFICES ASSUME IInv, Medium, [Next]_vars PROVE Medium'
  OBVIOUS
<1> USE DEF IInv, TypeOK, Medium, store
<1>1. ASSUME NEW c \in Channels, NEW r \in Requests, Receive(c, r) PROVE Medium'
  <2>1. ASSUME NEW d \in Channels \ {c} PROVE Bound(d)'
    BY <1>1, BoundKept DEF Receive, Finish
  <2>2. \/ pc'[c] = "reply"
        \/ pc'[c] \in {"read", "write", "vread"} /\ (pc'[c] = "write" => ~Nand)
    BY <1>1, FirstStepFacts DEF Receive, Finish
  <2>3. image'[c] = NoImage
    BY <1>1 DEF Receive, Bound
  <2>4. Bound(c)'
    BY <2>2, <2>3 DEF Bound
  <2>5. QED
    BY <1>1, <2>1, <2>4 DEF Receive
<1>2. ASSUME NEW c \in Channels, Handle(c) PROVE Medium'
  <2>1. \A d \in Channels \ {c} : pc'[d] = pc[d] /\ req'[d] = req[d] /\ image'[d] = image[d]
    BY <1>2 DEF Handle, ReadOK, ReadFail, Write, WriteFail, Sync, VolumeRead, VolumeReadFail,
                UpdateStart, UpdateFail, VolumeWrite, VolumeWriteFail, Answer, Finish
  <2>2. ASSUME NEW d \in Channels \ {c} PROVE Bound(d)'
    BY <2>1, BoundKept
  <2>3. marker' => Nand
    BY <1>2 DEF Handle, ReadOK, ReadFail, Write, WriteFail, Sync, VolumeRead, VolumeReadFail,
                UpdateStart, UpdateFail, VolumeWrite, VolumeWriteFail, Answer, Shape
  <2>4. Bound(c)'
    <3>1. CASE pc'[c] \in {"reply", "sync", "vread"}
      BY <3>1 DEF Bound
    <3>2. CASE Answer(c)
      BY <3>2 DEF Answer, Bound
    <3>3. CASE ReadOK(c) /\ pc'[c] = "write"
      BY <3>3 DEF ReadOK, Finish, Bound
    <3>4. CASE VolumeRead(c)
      <4>1. req' = req /\ req[c].op \in StoreOps /\ pc'[c] = "update"
        BY <3>4 DEF VolumeRead, Shape
      <4>2. image'[c] = Overlay(disk, Patch(req[c], image[c]))
        BY <3>4 DEF VolumeRead
      <4>3. \A i \in Addressed(req[c]) \cap Span(req[c]) :
              image'[c][i] = req[c].data[i - req[c].off]
        BY <4>1, <4>2, PatchLays
      <4>4. QED
        BY <4>1, <4>3 DEF Bound, Addressed, Span, Base, Length
    <3>5. CASE UpdateStart(c)
      <4>1. /\ pc[c] = "update" /\ pc'[c] = "vwrite" /\ req'[c] = req[c]
            /\ image'[c] = image[c]
        BY <3>5 DEF UpdateStart
      <4>2. QED
        BY <4>1 DEF Bound, Addressed, Span, Base, Length
    <3>6. QED
      BY <1>2, <3>1, <3>2, <3>3, <3>4, <3>5
      DEF Handle, ReadOK, ReadFail, Write, WriteFail, Sync, VolumeReadFail, UpdateFail,
          VolumeWrite, VolumeWriteFail, Finish
  <2>5. QED
    BY <2>2, <2>3, <2>4
<1>3. ASSUME NEW c \in Channels, Abort(c) PROVE Medium'
  BY <1>3 DEF Abort, ChannelsReset, Bound
<1>4. CASE PowerCut
  BY <1>4 DEF PowerCut, ChannelsReset, Bound
<1>5. CASE UNCHANGED vars
  BY <1>5, BoundKept DEF vars
<1>6. QED
  BY <1>1, <1>2, <1>3, <1>4, <1>5 DEF Next

\* The mapped phases and results.
Phases == [c \in Channels |-> PhaseOf(c)]
ResultOf(c) == IF pc[c] = "reply" /\ req[c].op \in ReadOps THEN image[c] ELSE NoImage
Results == [c \in Channels |-> ResultOf(c)]

LEMMA PhaseFacts ==
  ASSUME NEW c
  PROVE  /\ pc[c] = "idle" => PhaseOf(c) = "idle"
         /\ pc[c] = "sync" => PhaseOf(c) = IF reply[c] = "ok" THEN "changed" ELSE "open"
         /\ pc[c] = "reply" => PhaseOf(c) = IF reply[c] = "ok" THEN "done" ELSE "refused"
         /\ pc[c] \notin {"idle", "sync", "reply"} => PhaseOf(c) = "open"
BY DEF PhaseOf

LEMMA PhaseFactsPrimed ==
  ASSUME NEW c
  PROVE  /\ pc'[c] = "idle" => PhaseOf(c)' = "idle"
         /\ pc'[c] = "sync" => PhaseOf(c)' = IF reply'[c] = "ok" THEN "changed" ELSE "open"
         /\ pc'[c] = "reply" => PhaseOf(c)' = IF reply'[c] = "ok" THEN "done" ELSE "refused"
         /\ pc'[c] \notin {"idle", "sync", "reply"} => PhaseOf(c)' = "open"
BY DEF PhaseOf

\* A step of one handler moves its phase and its result only.
LEMMA OneMoves ==
  ASSUME NEW c \in Channels,
         \A d \in Channels \ {c} : /\ pc'[d] = pc[d] /\ reply'[d] = reply[d]
                                   /\ req'[d] = req[d] /\ image'[d] = image[d]
  PROVE  /\ Phases' = [Phases EXCEPT ![c] = PhaseOf(c)']
         /\ Results' = [Results EXCEPT ![c] = ResultOf(c)']
         /\ PhaseOf(c)' = PhaseOf(c) => Phases' = Phases
         /\ ResultOf(c)' = ResultOf(c) => Results' = Results
<1>1. \A d \in Channels \ {c} : PhaseOf(d)' = PhaseOf(d)
  BY DEF PhaseOf
<1>2. \A d \in Channels \ {c} : ResultOf(d)' = ResultOf(d)
  BY DEF ResultOf
<1>3. QED
  BY <1>1, <1>2 DEF Phases, Results

LEMMA ResultFacts ==
  ASSUME NEW c
  PROVE  /\ pc[c] # "reply" => ResultOf(c) = NoImage
         /\ req[c].op \notin ReadOps => ResultOf(c) = NoImage
         /\ pc'[c] # "reply" => ResultOf(c)' = NoImage
         /\ req'[c].op \notin ReadOps => ResultOf(c)' = NoImage
         /\ pc'[c] = "reply" /\ req'[c].op \in ReadOps => ResultOf(c)' = image'[c]
BY DEF ResultOf

\* A request comes: the store is asked, or refuses unlooked.
LEMMA ReceiveAsks ==
  ASSUME IInv, Medium, NEW c \in Channels, NEW r \in Requests, Receive(c, r)
  PROVE  Store!Ask(c)
<1> USE DEF IInv, TypeOK, Medium
<1>1. /\ \A d \in Channels \ {c} : /\ pc'[d] = pc[d] /\ reply'[d] = reply[d]
                                   /\ req'[d] = req[d] /\ image'[d] = image[d]
      /\ pc[c] = "idle" /\ image'[c] = NoImage
      /\ req' = [req EXCEPT ![c] = r] /\ UNCHANGED <<disk, durable, marker, raced>>
  BY DEF Receive, Finish, store, Bound
<1>2. PhaseOf(c)' = IF Unanswered(r) \/ r.op = "phs_nocmd" THEN "refused" ELSE "open"
  <2>1. CASE Unanswered(r) \/ r.op = "phs_nocmd"
    <3>1. pc'[c] = "reply" /\ reply'[c] # "ok"
      BY <2>1 DEF Receive, Finish
    <3>2. QED
      BY <2>1, <3>1, PhaseFactsPrimed
  <2>2. CASE ~(Unanswered(r) \/ r.op = "phs_nocmd")
    <3>1. pc'[c] \in {"read", "write", "vread"}
      BY <2>2, FirstStepFacts DEF Receive
    <3>2. QED
      BY <2>2, <3>1, PhaseFactsPrimed
  <2>3. QED
    BY <2>1, <2>2
<1>3. Phases[c] = "idle" /\ Phases' = [Phases EXCEPT ![c] = PhaseOf(c)']
  BY <1>1, OneMoves, PhaseFacts DEF Phases
<1>4. Results' = Results
  BY <1>1, OneMoves, ResultFacts
<1>5. req'[c] = r
  BY <1>1
<1>6. QED
  BY <1>1, <1>2, <1>3, <1>4, <1>5 DEF Store!Ask, Phases, Results, ResultOf

\* A handler fails: the request is refused.
LEMMA FailRefuses ==
  ASSUME IInv, Medium, NEW c \in Channels,
         \/ ReadFail(c) \/ VolumeReadFail(c) \/ UpdateFail(c) \/ VolumeWriteFail(c)
         \/ WriteFail(c) /\ pc'[c] = "reply"
  PROVE  Store!Refuse(c)
<1> USE DEF IInv, TypeOK, Medium
<1>1. /\ \A d \in Channels \ {c} : /\ pc'[d] = pc[d] /\ reply'[d] = reply[d]
                                   /\ req'[d] = req[d] /\ image'[d] = image[d]
      /\ pc[c] \in {"read", "write", "vread", "update", "vwrite"}
      /\ pc'[c] = "reply" /\ reply'[c] # "ok" /\ image'[c] = image[c]
      /\ UNCHANGED <<disk, durable, marker, raced, req>>
  BY DEF ReadFail, VolumeReadFail, UpdateFail, VolumeWriteFail, WriteFail, Finish, store
<1>2. PhaseOf(c) = "open" /\ PhaseOf(c)' = "refused"
  BY <1>1, PhaseFacts, PhaseFactsPrimed
<1>3. Phases[c] = "open" /\ Phases' = [Phases EXCEPT ![c] = "refused"]
  BY <1>1, <1>2, OneMoves DEF Phases
<1>4. ResultOf(c) = NoImage /\ ResultOf(c)' = NoImage
  <2>1. CASE pc[c] = "read"
    BY <1>1, <2>1, ResultFacts DEF Bound
  <2>2. CASE pc[c] # "read"
    <3>1. req[c].op \in StoreOps
      BY <1>1, <2>2 DEF Shape, Bound
    <3>2. req[c].op \notin ReadOps
      BY <3>1 DEF StoreOps, ReadOps
    <3>3. QED
      BY <1>1, <3>2, ResultFacts
  <2>3. QED
    BY <2>1, <2>2
<1>5. Results' = Results
  BY <1>1, <1>4, OneMoves
<1>6. QED
  BY <1>1, <1>3, <1>5 DEF Store!Refuse, Phases, Results, ResultOf

\* A read that succeeds observes the store; the read before a write does not
\* show.
LEMMA ReadObserves ==
  ASSUME IInv, Medium, NEW c \in Channels, ReadOK(c)
  PROVE  Store!Observe(c) \/ UNCHANGED Store!vars
<1> USE DEF IInv, TypeOK, Medium
<1>1. /\ \A d \in Channels \ {c} : /\ pc'[d] = pc[d] /\ reply'[d] = reply[d]
                                   /\ req'[d] = req[d] /\ image'[d] = image[d]
      /\ pc[c] = "read" /\ req' = req /\ UNCHANGED <<disk, durable, marker, raced>>
  BY DEF ReadOK, Finish, store
<1>2. PhaseOf(c) = "open"
  BY <1>1, PhaseFacts
<1>3. CASE req[c].op \in ReadOps
  <2>1. pc'[c] = "reply" /\ reply'[c] = "ok" /\ image'[c] = Returned(req[c], disk)
    BY <1>3 DEF ReadOK, Finish
  <2>2. PhaseOf(c)' = "done" /\ ResultOf(c)' = Returned(req[c], disk)
    BY <1>1, <1>3, <2>1, PhaseFactsPrimed, ResultFacts
  <2>3. Phases[c] = "open" /\ Phases' = [Phases EXCEPT ![c] = "done"]
    BY <1>1, <1>2, <2>2, OneMoves DEF Phases
  <2>4. Results' = [Results EXCEPT ![c] = Returned(req[c], disk)]
    BY <1>1, <2>2, OneMoves
  <2>5. ~marker
    BY DEF ReadOK, Readable
  <2>6. req[c].op \notin StoreOps
    BY <1>3 DEF ReadOps, StoreOps
  <2>7. QED
    BY <1>1, <2>3, <2>4, <2>5, <2>6 DEF Store!Observe, Phases, Results, ResultOf
<1>4. CASE req[c].op \notin ReadOps
  <2>1. pc'[c] \in {"vread", "write"}
    BY <1>4 DEF ReadOK
  <2>2. PhaseOf(c)' = PhaseOf(c) /\ ResultOf(c)' = ResultOf(c)
    BY <1>1, <1>2, <2>1, PhaseFactsPrimed, ResultFacts
  <2>3. Phases' = Phases /\ Results' = Results
    BY <1>1, <2>2, OneMoves
  <2>4. QED
    BY <1>1, <2>3 DEF Store!vars, Phases, Results, ResultOf
<1>5. QED
  BY <1>3, <1>4

\* The writers a write may overtake are open.
LEMMA HoldersOpen ==
  ASSUME IInv, Medium, NEW c \in Channels, Overtake(c)
  PROVE  \E D \in SUBSET Store!OpenWriters(c) : raced' = raced \cup D
<1> USE DEF IInv, TypeOK, Medium
<1>1. ASSUME NEW d \in Channels \ {c}, Holding(d)
      PROVE  Phases[d] = "open" /\ req[d].op \in StoreOps
  <2>1. PhaseOf(d) = "open"
    BY <1>1, PhaseFacts DEF Holding
  <2>2. QED
    BY <1>1, <2>1 DEF Holding, Bound, StoreOps, Phases
<1>2. {d \in Channels \ {c} : Holding(d)} \subseteq Store!OpenWriters(c)
  BY <1>1 DEF Store!OpenWriters, Phases
<1>3. raced' = raced \cup {d \in Channels \ {c} : Holding(d)}
  BY DEF Overtake
<1>4. QED
  BY <1>2, <1>3

\* What a handler does not write of what it is asked for is not promised.
LEMMA UnreachedUnwritten ==
  ASSUME NEW r \in Requests, r.op \in StoreOps
  PROVE  Addressed(r) \ Span(r) \subseteq Unwritten(r)
<1>1. r.off \in Nat /\ r.len \in Nat
  BY RequestFacts
<1>2. CASE r.op = "ctrl_write"
  BY <1>1, <1>2, MiscDataAssumption DEF Addressed, Span, Base, Length, Unwritten, Cells
<1>3. CASE r.op # "ctrl_write"
  <2>1. Addressed(r) \subseteq Span(r)
    BY <1>3 DEF Addressed, Span, Base, Length, StoreOps
  <2>2. QED
    BY <2>1
<1>4. QED
  BY <1>2, <1>3

\* A handler's write changes the store as its request asks, unless it raced.
LEMMA WriteEffect ==
  ASSUME IInv, Race, Medium, NEW c \in Channels, Write(c) \/ VolumeWrite(c)
  PROVE  /\ disk' \in [Cells -> Vals]
         /\ c \notin raced => Store!TakesEffect(req[c])
<1> USE DEF IInv, TypeOK, Race, Medium
<1>1. disk' \in [Cells -> Vals]
  <2>1. CASE Write(c)
    <3>1. Patch(req[c], image[c]) \in [Span(req[c]) -> Vals]
      BY <2>1, PatchType DEF Write
    <3>2. QED
      BY <2>1, <3>1, SpanInCells, OverlayType DEF Write
  <2>2. CASE VolumeWrite(c)
    BY <2>2 DEF VolumeWrite, Shape
  <2>3. QED
    BY <2>1, <2>2
<1>2. ASSUME NEW i \in Addressed(req[c]) \cap Span(req[c])
      PROVE  disk'[i] = req[c].data[i - req[c].off]
  <2>1. CASE Write(c)
    BY <1>2, <2>1, PatchLays DEF Write, Shape
  <2>2. CASE VolumeWrite(c)
    BY <1>2, <2>2 DEF VolumeWrite, Bound
  <2>3. QED
    BY <2>1, <2>2
<1>3. ASSUME c \notin raced, NEW i \in Cells \ (Addressed(req[c]) \cap Span(req[c]))
      PROVE  disk'[i] = disk[i]
  <2>1. CASE Write(c)
    BY <1>3, <2>1, PatchKeeps DEF Write
  <2>2. CASE VolumeWrite(c)
    BY <1>3, <2>2 DEF VolumeWrite, Fresh, PutBack
  <2>3. QED
    BY <2>1, <2>2
<1> DEFINE D == Addressed(req[c]) \cap Span(req[c])
<1>4. c \notin raced =>
        disk' = [i \in Cells |-> IF i \in D THEN req[c].data[i - req[c].off] ELSE disk[i]]
  BY <1>1, <1>2, <1>3
<1>5. req[c] \in Requests /\ req[c].op \in StoreOps
  <2>1. req[c].op \in StoreOps
    BY DEF Write, VolumeWrite, Shape, Bound
  <2>2. QED
    BY <2>1 DEF NoRequest, StoreOps
<1>6. D \in SUBSET Addressed(req[c]) /\ Addressed(req[c]) \ D \subseteq Unwritten(req[c])
  BY <1>5, UnreachedUnwritten
<1>7. QED
  BY <1>1, <1>4, <1>6 DEF Store!TakesEffect

\* A write takes effect; on NAND it is committed at once.
LEMMA WriteChanges ==
  ASSUME IInv, Race, Medium, NEW c \in Channels, Write(c) \/ VolumeWrite(c)
  PROVE  Store!Change(c)
<1> USE DEF IInv, TypeOK, Medium
<1>1. /\ \A d \in Channels \ {c} : /\ pc'[d] = pc[d] /\ reply'[d] = reply[d]
                                   /\ req'[d] = req[d] /\ image'[d] = image[d]
      /\ pc[c] \in {"write", "vwrite"} /\ req' = req /\ reply'[c] = "ok" /\ Overtake(c)
  BY DEF Write, VolumeWrite, Finish
<1>2. req[c].op \in StoreOps /\ req[c].op \notin ReadOps
  <2>1. req[c].op \in StoreOps
    BY <1>1 DEF Shape, Bound
  <2>2. QED
    BY <2>1 DEF StoreOps, ReadOps
<1>3. marker' = FALSE
  BY DEF Write, VolumeWrite, Bound
<1>4. PhaseOf(c) = "open"
  BY <1>1, PhaseFacts
<1>5. \/ PhaseOf(c)' = "changed" /\ UNCHANGED durable
      \/ PhaseOf(c)' = "done" /\ durable' = disk'
  BY <1>1, PhaseFactsPrimed DEF Write, VolumeWrite, Finish
<1>6. /\ Phases[c] = "open"
      /\ \/ Phases' = [Phases EXCEPT ![c] = "changed"] /\ UNCHANGED durable
         \/ Phases' = [Phases EXCEPT ![c] = "done"] /\ durable' = disk'
  BY <1>1, <1>4, <1>5, OneMoves DEF Phases
<1>7. Results' = Results
  BY <1>1, <1>2, OneMoves, ResultFacts
<1>8. IF c \in raced THEN disk' \in [Cells -> Vals] ELSE Store!TakesEffect(req[c])
  BY WriteEffect
<1>9. \E D \in SUBSET Store!OpenWriters(c) : raced' = raced \cup D
  BY <1>1, HoldersOpen
<1>10. QED
  BY <1>1, <1>2, <1>3, <1>6, <1>7, <1>8, <1>9 DEF Store!Change, Phases, Results, ResultOf

\* The fsync commits, also what others have written.
LEMMA SyncCommits ==
  ASSUME IInv, Medium, NEW c \in Channels, Sync(c)
  PROVE  Store!Commit(c)
<1> USE DEF IInv, TypeOK, Medium
<1>1. /\ \A d \in Channels \ {c} : /\ pc'[d] = pc[d] /\ reply'[d] = reply[d]
                                   /\ req'[d] = req[d] /\ image'[d] = image[d]
      /\ pc[c] = "sync" /\ pc'[c] = "reply" /\ reply' = reply /\ req' = req
      /\ durable' = disk /\ UNCHANGED <<disk, marker, raced>>
  BY DEF Sync
<1>2. \/ PhaseOf(c) = "changed" /\ PhaseOf(c)' = "done"
      \/ PhaseOf(c) = "open" /\ PhaseOf(c)' = "refused"
  BY <1>1, PhaseFacts, PhaseFactsPrimed
<1>3. \/ Phases[c] = "changed" /\ Phases' = [Phases EXCEPT ![c] = "done"]
      \/ Phases[c] = "open" /\ Phases' = [Phases EXCEPT ![c] = "refused"]
  BY <1>1, <1>2, OneMoves DEF Phases
<1>4. req[c].op \notin ReadOps
  BY <1>1 DEF Shape, StoreOps, ReadOps
<1>5. Results' = Results
  BY <1>1, <1>4, OneMoves, ResultFacts
<1>6. QED
  BY <1>1, <1>3, <1>5 DEF Store!Commit, Phases, Results, ResultOf

\* Reading the volume to patch it, and a write that fails before the fsync,
\* do not show.
LEMMA PrepareHidden ==
  ASSUME IInv, Medium, NEW c \in Channels,
         VolumeRead(c) \/ (WriteFail(c) /\ pc'[c] # "reply")
  PROVE  UNCHANGED Store!vars
<1> USE DEF IInv, TypeOK, Medium
<1>1. /\ \A d \in Channels \ {c} : /\ pc'[d] = pc[d] /\ reply'[d] = reply[d]
                                   /\ req'[d] = req[d] /\ image'[d] = image[d]
      /\ pc[c] \in {"vread", "write"}
      /\ pc'[c] = "update" \/ (pc'[c] = "sync" /\ reply'[c] = "err")
      /\ UNCHANGED <<disk, durable, marker, raced, req>>
  BY DEF VolumeRead, WriteFail, Finish, store
<1>2. PhaseOf(c) = "open" /\ PhaseOf(c)' = "open"
  BY <1>1, PhaseFacts, PhaseFactsPrimed
<1>3. ResultOf(c) = NoImage /\ ResultOf(c)' = NoImage
  BY <1>1, ResultFacts
<1>4. Phases' = Phases /\ Results' = Results
  BY <1>1, <1>2, <1>3, OneMoves
<1>5. QED
  BY <1>1, <1>4 DEF Store!vars, Phases, Results, ResultOf

\* An update of the volume takes the store down, or finds it down.
LEMMA UpdateTakesDown ==
  ASSUME IInv, Medium, NEW c \in Channels, UpdateStart(c)
  PROVE  Store!TakeDown(c) \/ UNCHANGED Store!vars
<1> USE DEF IInv, TypeOK, Medium
<1>1. /\ \A d \in Channels \ {c} : /\ pc'[d] = pc[d] /\ reply'[d] = reply[d]
                                   /\ req'[d] = req[d] /\ image'[d] = image[d]
      /\ pc[c] = "update" /\ pc'[c] = "vwrite" /\ marker' = TRUE
      /\ UNCHANGED <<disk, durable, raced, req>>
  BY DEF UpdateStart
<1>2. PhaseOf(c) = "open" /\ PhaseOf(c)' = "open"
  BY <1>1, PhaseFacts, PhaseFactsPrimed
<1>3. ResultOf(c) = NoImage /\ ResultOf(c)' = NoImage
  BY <1>1, ResultFacts
<1>4. Phases' = Phases /\ Results' = Results /\ Phases[c] = "open"
  BY <1>1, <1>2, <1>3, OneMoves DEF Phases
<1>5. req[c].op \in StoreOps
  BY <1>1 DEF Bound
<1>6. CASE marker
  BY <1>1, <1>4, <1>6 DEF Store!vars, Phases, Results, ResultOf
<1>7. CASE ~marker
  BY <1>1, <1>4, <1>5, <1>7 DEF Store!TakeDown, Phases, Results, ResultOf
<1>8. QED
  BY <1>6, <1>7

LEMMA AnswerResponds ==
  ASSUME IInv, Medium, NEW c \in Channels, Answer(c)
  PROVE  Store!Respond(c)
<1> USE DEF IInv, TypeOK, Medium
<1>1. /\ \A d \in Channels \ {c} : /\ pc'[d] = pc[d] /\ reply'[d] = reply[d]
                                   /\ req'[d] = req[d] /\ image'[d] = image[d]
      /\ pc[c] = "reply" /\ pc'[c] = "idle" /\ raced' = raced \ {c}
      /\ req' = [req EXCEPT ![c] = NoRequest] /\ UNCHANGED <<disk, durable, marker>>
  BY DEF Answer
<1>2. PhaseOf(c) \in {"done", "refused"} /\ PhaseOf(c)' = "idle"
  BY <1>1, PhaseFacts, PhaseFactsPrimed
<1>3. Phases[c] \in {"done", "refused"} /\ Phases' = [Phases EXCEPT ![c] = "idle"]
  BY <1>1, <1>2, OneMoves DEF Phases
<1>4. Results' = [Results EXCEPT ![c] = NoImage]
  BY <1>1, ResultFacts, OneMoves
<1>5. NoImage = Store!Empty
  BY DEF NoImage, Store!Empty
<1>6. QED
  BY <1>1, <1>3, <1>4, <1>5 DEF Store!Respond, Phases, Results, ResultOf

\* Death and a power cut forget the requests.
LEMMA ResetForgets == ChannelsReset => Store!Reset
<1> SUFFICES ASSUME ChannelsReset PROVE Store!Reset
  OBVIOUS
<1>1. \A c \in Channels : pc'[c] = "idle"
  BY DEF ChannelsReset
<1>2. Phases' = [c \in Channels |-> "idle"]
  BY <1>1, PhaseFactsPrimed DEF Phases
<1>3. Results' = [c \in Channels |-> Store!Empty]
  BY <1>1, ResultFacts DEF Results, NoImage, Store!Empty
<1>4. QED
  BY <1>2, <1>3 DEF ChannelsReset, Store!Reset, Phases, Results, ResultOf

LEMMA StepImplements ==
  ASSUME IInv, Race, Medium, [Next]_vars
  PROVE  [Store!Next]_Store!vars
<1>1. ASSUME NEW c \in Channels, NEW r \in Requests, Receive(c, r) PROVE Store!Next
  BY <1>1, ReceiveAsks DEF Store!Next
<1>2. ASSUME NEW c \in Channels, Handle(c) PROVE Store!Next \/ UNCHANGED Store!vars
  <2>1. CASE ReadOK(c)
    BY <2>1, ReadObserves DEF Store!Next
  <2>2. CASE \/ ReadFail(c) \/ VolumeReadFail(c) \/ UpdateFail(c) \/ VolumeWriteFail(c)
             \/ WriteFail(c) /\ pc'[c] = "reply"
    BY <2>2, FailRefuses DEF Store!Next
  <2>3. CASE Write(c) \/ VolumeWrite(c)
    BY <2>3, WriteChanges DEF Store!Next
  <2>4. CASE Sync(c)
    BY <2>4, SyncCommits DEF Store!Next
  <2>5. CASE VolumeRead(c) \/ (WriteFail(c) /\ pc'[c] # "reply")
    BY <2>5, PrepareHidden
  <2>6. CASE UpdateStart(c)
    BY <2>6, UpdateTakesDown DEF Store!Next
  <2>7. CASE Answer(c)
    BY <2>7, AnswerResponds DEF Store!Next
  <2>8. QED
    BY <1>2, <2>1, <2>2, <2>3, <2>4, <2>5, <2>6, <2>7 DEF Handle
<1>3. ASSUME NEW c \in Channels, Abort(c) PROVE Store!Next
  BY <1>3, ResetForgets DEF Abort, Store!Die, Store!Next
<1>4. CASE PowerCut
  BY <1>4, ResetForgets DEF PowerCut, Store!PowerCut, Store!Next
<1>5. CASE UNCHANGED vars
  <2>1. Phases' = Phases
    BY <1>5 DEF vars, Phases, PhaseOf
  <2>2. Results' = Results
    BY <1>5 DEF vars, Results, ResultOf
  <2>3. QED
    BY <1>5, <2>1, <2>2 DEF vars, Store!vars, Phases, Results, ResultOf
<1>6. QED
  BY <1>1, <1>2, <1>3, <1>4, <1>5 DEF Next

LEMMA InitImplements == Init => Store!Init
<1> SUFFICES ASSUME Init PROVE Store!Init
  OBVIOUS
<1>1. \A c \in Channels : pc[c] = "idle"
  BY DEF Init
<1>2. Phases = [c \in Channels |-> "idle"]
  BY <1>1, PhaseFacts DEF Phases
<1>3. Results = [c \in Channels |-> Store!Empty]
  BY <1>1, ResultFacts DEF Results, NoImage, Store!Empty
<1>4. QED
  BY <1>2, <1>3 DEF Init, Store!Init, Phases, Results, ResultOf

\* The handlers keep what MiscStore promises, on either medium, for any
\* number of ports and every kind of request: a request takes effect in one
\* step, no acknowledged write is lost, and cells that were not asked for
\* stay, but for a write overtaken by another.
THEOREM Implementation == Spec => ImplementsStore
<1>1. Init => Store!Init
  BY InitImplements
<1>2. IInv /\ Race /\ Medium /\ [Next]_vars => [Store!Next]_Store!vars
  BY StepImplements
<1>3. QED
  BY InitIInv, InitRace, InitMedium, NextIInv, NextRace, NextMedium, <1>1, <1>2, PTL
  DEF Spec, ImplementsStore, Store!Spec
=============================================================================
