-------------------------- MODULE RingBufferProofs --------------------------
(***************************************************************************)
(* Proofs about RingBuffer for every size NewRingBuffer accepts: types,    *)
(* what the buffer counts, also after its indices have come apart, and     *)
(* that it implements Fifo until then.                                     *)
(***************************************************************************)
EXTENDS RingBuffer, SequenceTheorems, TLAPS

\* What the proofs need of the size (a fact with the bounds of the constructor slows the
\* provers down).
LEMMA Size == Slots \in Nat /\ Slots >= 2 /\ MaxAdds \in Nat
BY RingBufferAssumption, SMTT(30) DEF RingBufferAssumption

USE Size

\* The fields of the ring, one by one: the provers need no more of TypeOK.
Fields ==
  /\ ring.buffer \in [Indices -> Nat] /\ ring.size \in Nat /\ ring.endOfBuffer = Slots - 1
  /\ ring.startOfData \in 0..(Slots - 1) /\ ring.endOfData \in 0..(Slots - 1)

LEMMA TypeFields == TypeOK => Fields
BY DEF TypeOK, Fields, Indices

\* A removed value leaves a slot the write index has not reached.
LEMMA AddedFields ==
  ASSUME TypeOK, Add, ~OutOfRoom(ring)
  PROVE  /\ ring'.buffer = Written(ring, added + 1)
         /\ ring'.size = ring.size + 1 /\ ring'.endOfBuffer = ring.endOfBuffer
         /\ ring'.startOfData = IF ring.startOfData = Slots - 1 THEN 0 ELSE ring.startOfData + 1
         /\ ring'.endOfData = ring.endOfData
         /\ added' = added + 1 /\ result' = [call |-> "add", value |-> added + 1] /\ tears' = tears
         /\ ring' = Added(ring, added + 1)
<1>1. ring' = Added(ring, added + 1) /\ added' = added + 1 /\ tears' = tears
      /\ result' = [call |-> "add", value |-> added + 1]
  BY DEF Add
<1>2. ring.endOfBuffer = Slots - 1
  BY TypeFields DEF Fields
<1> QED
  BY <1>1, <1>2 DEF Added, AfterWrite

LEMMA RemovedFields ==
  ASSUME TypeOK, Remove, ~NoData(ring)
  PROVE  /\ ring'.buffer = ring.buffer
         /\ ring'.size = ring.size - 1 /\ ring'.endOfBuffer = ring.endOfBuffer
         /\ ring'.startOfData = ring.startOfData
         /\ ring'.endOfData = IF ring.endOfData = Slots - 1 THEN ring.startOfData ELSE ring.endOfData + 1
         /\ result' = [call |-> "remove", value |-> ring.buffer[ring.endOfData]]
         /\ tears' = IF ring.endOfData = Slots - 1 /\ ring.startOfData # 0 THEN tears + 1 ELSE tears
         /\ added' = added /\ ring.size >= 1
         /\ ring' = Removed(ring)
<1>1. ring' = Removed(ring) /\ added' = added
      /\ result' = [call |-> "remove", value |-> Oldest(ring)]
      /\ tears' = IF ring.endOfData = ring.endOfBuffer /\ ring.startOfData # 0 THEN tears + 1 ELSE tears
  BY DEF Remove
<1>2. ring.endOfBuffer = Slots - 1 /\ ring.size \in Nat
  BY TypeFields DEF Fields
<1>3. ring.size >= 1
  BY <1>2 DEF NoData
<1> QED
  BY <1>1, <1>2, <1>3 DEF Removed, AfterRead, LessOne, Oldest
-----------------------------------------------------------------------------
(* Types and counts. *)

LEMMA InitType == Init => TypeOK
<1> SUFFICES ASSUME Init PROVE TypeOK
  OBVIOUS
<1>1. ring = [buffer |-> [i \in Indices |-> 0], size |-> 0, endOfBuffer |-> Slots - 1,
              startOfData |-> 0, endOfData |-> 0]
  BY DEF Init, NewRingBuffer
<1>2. [i \in Indices |-> 0] \in [Indices -> Nat] /\ 0 \in Indices /\ Slots - 1 \in {Slots - 1}
  BY DEF Indices
<1>3. ring \in [buffer : [Indices -> Nat], size : Nat, endOfBuffer : {Slots - 1},
                startOfData : Indices, endOfData : Indices]
  BY <1>1, <1>2
<1>4. result \in [call : {"new", "add", "out_of_room", "remove", "no_data"}, value : Nat]
  BY DEF Init
<1>5. added \in Nat /\ tears \in Nat
  BY DEF Init
<1> QED
  BY <1>3, <1>4, <1>5 DEF TypeOK

LEMMA StepType == TypeOK /\ [Next]_vars => TypeOK'
<1> SUFFICES ASSUME TypeOK, [Next]_vars PROVE TypeOK'
  OBVIOUS
<1>f. Fields
  BY TypeFields
<1>t. added \in Nat /\ tears \in Nat
  BY DEF TypeOK
<1>1. CASE Add /\ ~OutOfRoom(ring)
  <2>1. ring'.buffer \in [Indices -> Nat]
    <3>1. ring'.buffer = [ring.buffer EXCEPT ![ring.startOfData] = added + 1]
      BY <1>1, AddedFields DEF Written
    <3>2. added + 1 \in Nat /\ ring.buffer \in [Indices -> Nat]
      BY <1>f, <1>t DEF Fields
    <3> QED
      BY ONLY <3>1, <3>2
  <2>2. /\ ring'.size \in Nat /\ ring'.endOfBuffer = Slots - 1
        /\ ring'.startOfData \in Indices /\ ring'.endOfData \in Indices
    BY <1>1, <1>f, AddedFields DEF Fields, Indices
  <2>3. ring' \in [buffer : [Indices -> Nat], size : Nat, endOfBuffer : {Slots - 1},
                   startOfData : Indices, endOfData : Indices]
    <3>1. ring' = [buffer |-> ring'.buffer, size |-> ring'.size, endOfBuffer |-> ring'.endOfBuffer,
                 startOfData |-> ring'.startOfData, endOfData |-> ring'.endOfData]
      BY <1>1, AddedFields DEF Added
    <3> QED
      BY <3>1, <2>1, <2>2
  <2>4. result' \in [call : {"new", "add", "out_of_room", "remove", "no_data"}, value : Nat]
    <3>1. result' = [call |-> "add", value |-> added + 1]
      BY <1>1, AddedFields
    <3> QED
      BY <1>t, <3>1
  <2>5. added' \in Nat /\ tears' \in Nat
    BY <1>1, <1>t, AddedFields
  <2> QED
    BY <2>3, <2>4, <2>5 DEF TypeOK
<1>2. CASE Remove /\ ~NoData(ring)
  <2>1. ring'.buffer \in [Indices -> Nat]
    BY <1>2, <1>f, RemovedFields DEF Fields
  <2>s. ring'.size = ring.size - 1 /\ ring.size >= 1
    BY <1>2, RemovedFields
  <2>e. ring'.endOfBuffer = ring.endOfBuffer /\ ring'.startOfData = ring.startOfData
    BY <1>2, RemovedFields
  <2>d. ring'.endOfData = IF ring.endOfData = Slots - 1 THEN ring.startOfData ELSE ring.endOfData + 1
    BY <1>2, RemovedFields
  <2>2. /\ ring'.size \in Nat /\ ring'.endOfBuffer = Slots - 1
        /\ ring'.startOfData \in Indices /\ ring'.endOfData \in Indices
    BY <2>s, <2>e, <2>d, <1>f DEF Fields, Indices
  <2>3. ring' \in [buffer : [Indices -> Nat], size : Nat, endOfBuffer : {Slots - 1},
                   startOfData : Indices, endOfData : Indices]
    <3>1. ring' = [buffer |-> ring'.buffer, size |-> ring'.size, endOfBuffer |-> ring'.endOfBuffer,
                 startOfData |-> ring'.startOfData, endOfData |-> ring'.endOfData]
      BY <1>2, RemovedFields DEF Removed
    <3> QED
      BY <3>1, <2>1, <2>2
  <2>4. ring.buffer[ring.endOfData] \in Nat
    BY <1>f DEF Fields, Indices
  <2>5. result' \in [call : {"new", "add", "out_of_room", "remove", "no_data"}, value : Nat]
    <3>1. result' = [call |-> "remove", value |-> ring.buffer[ring.endOfData]]
      BY <1>2, RemovedFields
    <3> QED
      BY <2>4, <3>1
  <2>6. tears' \in Nat
    BY <1>2, <1>t, RemovedFields
  <2>7. added' \in Nat
    BY <1>2, <1>t, RemovedFields
  <2> QED
    BY <2>3, <2>5, <2>6, <2>7 DEF TypeOK
<1>3. CASE Add /\ OutOfRoom(ring)
  BY <1>3, <1>t DEF Add, TypeOK
<1>4. CASE Remove /\ NoData(ring)
  BY <1>4 DEF Remove, TypeOK
<1>5. CASE UNCHANGED vars
  BY <1>5 DEF vars, TypeOK
<1> QED
  BY <1>1, <1>2, <1>3, <1>4, <1>5 DEF Next

\* The buffer, its indices and its count keep their types.
THEOREM TypeCorrect == Spec => []TypeOK
BY InitType, StepType, PTL DEF Spec

LEMMA InitCount == Init => CountFits
BY DEF Init, CountFits, Room, NewRingBuffer

LEMMA StepCount == TypeOK /\ CountFits /\ [Next]_vars => CountFits'
<1> SUFFICES ASSUME TypeOK, CountFits, [Next]_vars PROVE CountFits'
  OBVIOUS
<1>f. Fields
  BY TypeFields
<1>1. CASE Add /\ ~OutOfRoom(ring)
  <2>1. /\ ring'.size = ring.size + 1 /\ ring'.endOfData = ring.endOfData
        /\ ring'.startOfData = IF ring.startOfData = Slots - 1 THEN 0 ELSE ring.startOfData + 1
    BY <1>1, AddedFields
  <2>2. ring.startOfData # ring.endOfData \/ ring.size = 0
    BY <1>1, <1>f DEF OutOfRoom, Fields
  <2>3. CASE ring.startOfData = ring.endOfData
    <3>1. ring.size = 0
      BY <2>2, <2>3
    <3>2. ring.startOfData \in 0..(Slots - 1) /\ ring'.endOfData = ring.startOfData /\ ring'.size = 1
      BY <2>1, <2>3, <3>1, <1>f DEF Fields
    <3>3. CASE ring.startOfData = Slots - 1
      <4>1. ring'.startOfData = 0
        BY <2>1, <3>3
      <4>2. Room' = Slots - 1
        BY <3>2, <3>3, <4>1 DEF Room
      <4> QED
        BY <3>2, <4>2 DEF CountFits
    <3>4. CASE ring.startOfData # Slots - 1
      <4>1. ring'.startOfData = ring.startOfData + 1
        BY <2>1, <3>4
      <4>2. Room' = Slots - 1
        BY <3>2, <4>1 DEF Room
      <4> QED
        BY <3>2, <4>2 DEF CountFits
    <3> QED
      BY <3>3, <3>4
  <2>4. CASE ring.startOfData # ring.endOfData /\ ring.startOfData = Slots - 1
    BY <2>1, <2>4, <1>f DEF Fields, CountFits, Room
  <2>5. CASE ring.startOfData # ring.endOfData /\ ring.startOfData # Slots - 1
    BY <2>1, <2>5, <1>f DEF Fields, CountFits, Room
  <2> QED
    BY <2>3, <2>4, <2>5
<1>2. CASE Remove /\ ~NoData(ring)
  <2>1. /\ ring'.size = ring.size - 1 /\ ring.size >= 1 /\ ring'.startOfData = ring.startOfData
        /\ ring'.endOfData = IF ring.endOfData = Slots - 1 THEN ring.startOfData ELSE ring.endOfData + 1
    BY <1>2, RemovedFields
  <2> QED
    BY <2>1, <1>f DEF Fields, CountFits, Room
<1>3. ASSUME UNCHANGED ring PROVE CountFits'
  BY <1>3 DEF CountFits, Room
<1>4. CASE Add /\ OutOfRoom(ring)
  BY <1>3, <1>4 DEF Add
<1>5. CASE Remove /\ NoData(ring)
  BY <1>3, <1>5 DEF Remove
<1>6. CASE UNCHANGED vars
  BY <1>3, <1>6 DEF vars
<1> QED
  BY <1>1, <1>2, <1>4, <1>5, <1>6 DEF Next

\* The buffer never counts more than the slots it can no longer write, torn or not.
THEOREM Counts == Spec => []CountFits
BY InitType, StepType, InitCount, StepCount, PTL DEF Spec
-----------------------------------------------------------------------------
(* The buffer is a bounded FIFO until it is torn.  What makes it inductive: until *)
(* then the indices are as far apart as the buffer counts.                        *)

Apart ==
  tears = 0 =>
    \/ ring.size = 0 /\ ring.startOfData = ring.endOfData
    \/ ring.size > 0 /\ ring.startOfData > ring.endOfData
                     /\ ring.size = ring.startOfData - ring.endOfData
    \/ ring.size > 0 /\ ring.startOfData <= ring.endOfData
                     /\ ring.size = ring.startOfData - ring.endOfData + Slots

LEMMA InitApart == Init => Apart
BY DEF Init, Apart, NewRingBuffer

LEMMA StepApart == TypeOK /\ Apart /\ [Next]_vars => Apart'
<1> SUFFICES ASSUME TypeOK, Apart, [Next]_vars PROVE Apart'
  OBVIOUS
<1>f. Fields /\ tears \in Nat
  BY TypeFields DEF TypeOK
<1>1. CASE Add /\ ~OutOfRoom(ring)
  <2>1. /\ ring'.size = ring.size + 1 /\ ring'.endOfData = ring.endOfData /\ tears' = tears
        /\ ring'.startOfData = IF ring.startOfData = Slots - 1 THEN 0 ELSE ring.startOfData + 1
    BY <1>1, AddedFields
  <2>2. ring.startOfData # ring.endOfData \/ ring.size = 0
    BY <1>1, <1>f DEF OutOfRoom, Fields
  <2>3. CASE ring.startOfData = Slots - 1
    BY <2>1, <2>2, <2>3, <1>f DEF Fields, Apart
  <2>4. CASE ring.startOfData # Slots - 1
    BY <2>1, <2>2, <2>4, <1>f DEF Fields, Apart
  <2> QED
    BY <2>3, <2>4
<1>2. CASE Remove /\ ~NoData(ring)
  <2>1. /\ ring'.size = ring.size - 1 /\ ring.size >= 1 /\ ring'.startOfData = ring.startOfData
        /\ ring'.endOfData = IF ring.endOfData = Slots - 1 THEN ring.startOfData ELSE ring.endOfData + 1
    BY <1>2, RemovedFields
  <2>2. tears' = IF ring.endOfData = Slots - 1 /\ ring.startOfData # 0 THEN tears + 1 ELSE tears
    BY <1>2, <1>f DEF Remove, Fields
  <2> QED
    BY <2>1, <2>2, <1>f DEF Fields, Apart
<1>3. ASSUME UNCHANGED <<ring, tears>> PROVE Apart'
  BY <1>3 DEF Apart
<1>4. CASE Add /\ OutOfRoom(ring)
  BY <1>3, <1>4 DEF Add
<1>5. CASE Remove /\ NoData(ring)
  BY <1>3, <1>5 DEF Remove
<1>6. CASE UNCHANGED vars
  BY <1>3, <1>6 DEF vars
<1> QED
  BY <1>1, <1>2, <1>4, <1>5, <1>6 DEF Next

\* The values the buffer counts are a sequence of that length.
LEMMA ItemsAreSeq ==
  ASSUME TypeOK, Apart, tears = 0
  PROVE  /\ Items \in Seq(Nat) /\ Len(Items) = ring.size /\ ring.size \in 0..Slots
         /\ \A i \in 1..ring.size : Items[i] = ring.buffer[Slot(i)] /\ Slot(i) \in Indices
<1>f. Fields
  BY TypeFields
<1>1. ring.size \in 0..Slots
  BY <1>f DEF Fields, Apart
<1>2. \A i \in 1..ring.size : Slot(i) \in Indices
  BY <1>1, <1>f DEF Fields, Slot, Indices
<1>3. \A i \in 1..ring.size : ring.buffer[Slot(i)] \in Nat
  BY <1>2, <1>f DEF Fields
<1>4. Items \in [1..ring.size -> Nat]
  BY <1>3 DEF Items
<1>5. Items \in Seq(Nat) /\ Len(Items) = ring.size
  BY <1>1, <1>4
<1> QED
  BY <1>1, <1>2, <1>5 DEF Items
\* A function on 1..n and a sequence of that length that agree everywhere are equal.
LEMMA SameSeq ==
  ASSUME NEW n \in Nat, NEW f \in [1..n -> Nat], NEW t \in Seq(Nat), Len(t) = n,
         \A i \in 1..n : f[i] = t[i]
  PROVE  f = t
<1>1. f \in Seq(Nat) /\ Len(f) = n
  OBVIOUS
<1> QED
  BY <1>1, SeqEqual

LEMMA AppendTo ==
  ASSUME NEW t \in Seq(Nat), NEW v \in Nat
  PROVE  /\ Append(t, v) \in Seq(Nat) /\ Len(Append(t, v)) = Len(t) + 1
         /\ \A i \in 1..Len(t) : Append(t, v)[i] = t[i]
         /\ Append(t, v)[Len(t) + 1] = v
OBVIOUS

LEMMA AddImplements ==
  ASSUME TypeOK, Apart, tears = 0, Add
  PROVE  F!Add(added + 1)
<1>f. Fields /\ added \in Nat
  BY TypeFields DEF TypeOK
<1>i. /\ Items \in Seq(Nat) /\ Len(Items) = ring.size /\ ring.size \in 0..Slots
      /\ \A i \in 1..ring.size : Items[i] = ring.buffer[Slot(i)] /\ Slot(i) \in Indices
  BY ItemsAreSeq
<1>1. CASE OutOfRoom(ring)
  <2>1. ring.size = Slots
    BY <1>1, <1>f DEF OutOfRoom, Apart, Fields
  <2>2. UNCHANGED ring /\ result' = [call |-> "out_of_room", value |-> added + 1]
    BY <1>1 DEF Add
  <2>3. UNCHANGED Items
    BY <2>2 DEF Items, Slot
  <2> QED
    BY <1>i, <2>1, <2>2, <2>3 DEF F!Add
<1>2. CASE ~OutOfRoom(ring)
  <2>1. /\ ring'.buffer = [ring.buffer EXCEPT ![ring.startOfData] = added + 1]
        /\ ring'.size = ring.size + 1 /\ ring'.endOfData = ring.endOfData
        /\ result' = [call |-> "add", value |-> added + 1]
    BY <1>2, AddedFields DEF Written
  <2>2. ring.size < Slots
    BY <1>2, <1>f DEF OutOfRoom, Apart, Fields
  <2>3. \A i : Slot(i)' = Slot(i)
    BY <2>1 DEF Slot
  <2>4. Slot(ring.size + 1) = ring.startOfData
    <3>1. /\ ring.startOfData \in 0..(Slots - 1) /\ ring.endOfData \in 0..(Slots - 1)
          /\ ring.size \in Nat
      BY <1>f DEF Fields
    <3>2. \/ ring.endOfData + ring.size = ring.startOfData
          \/ ring.endOfData + ring.size = ring.startOfData + Slots
      BY <3>1 DEF Apart
    <3>3. ring.endOfData + (ring.size + 1) - 1 = ring.endOfData + ring.size
      BY <3>1
    <3> QED
      BY <3>1, <3>2, <3>3 DEF Slot
  <2>5. \A i \in 1..ring.size : Slot(i) # ring.startOfData
    BY <1>f, <2>2 DEF Fields, Apart, Slot
  <2>6. \A i \in 1..ring.size : ring'.buffer[Slot(i)] = ring.buffer[Slot(i)]
    BY <1>i, <1>f, <2>1, <2>5 DEF Fields
  <2>7. ring'.buffer[Slot(ring.size + 1)] = added + 1
    BY <1>f, <2>1, <2>4 DEF Fields, Indices
  <2> DEFINE t == Append(Items, added + 1)
  <2>8. /\ t \in Seq(Nat) /\ Len(t) = ring.size + 1 /\ t[ring.size + 1] = added + 1
        /\ \A i \in 1..ring.size : t[i] = ring.buffer[Slot(i)]
    <3>1. added + 1 \in Nat
      BY <1>f
    <3> QED
      BY <3>1, <1>i, AppendTo
  <2> HIDE DEF t
  <2>9. Items' = t
    <3>1. Items' = [i \in 1..(ring.size + 1) |-> ring'.buffer[Slot(i)]]
      BY <2>1, <2>3 DEF Items
    <3> DEFINE f == Items'
               n == ring.size + 1
    <3>2. n \in Nat /\ \A i \in 1..n : i \in 1..ring.size \/ i = n
      BY <1>i
    <3>3. \A i \in 1..n : f[i] = t[i]
      BY <2>6, <2>7, <2>8, <3>1, <3>2
    <3>4. \A i \in 1..n : t[i] \in Nat
      BY <2>8, ElementOfSeq
    <3>5. f \in [1..n -> Nat]
      BY <3>1, <3>3, <3>4
    <3> HIDE DEF f, n
    <3>6. Len(t) = n
      BY <2>8 DEF n
    <3>7. f = t
      BY <2>8, <3>2, <3>3, <3>5, <3>6, SameSeq
    <3> QED
      BY <3>7 DEF f
  <2> QED
    BY <1>i, <2>1, <2>2, <2>9 DEF F!Add, t
<1> QED
  BY <1>1, <1>2
LEMMA RemoveImplements ==
  ASSUME TypeOK, Apart, tears = 0, Remove, tears' = 0
  PROVE  F!Remove
<1>f. Fields
  BY TypeFields
<1>i. /\ Items \in Seq(Nat) /\ Len(Items) = ring.size /\ ring.size \in 0..Slots
      /\ \A i \in 1..ring.size : Items[i] = ring.buffer[Slot(i)] /\ Slot(i) \in Indices
  BY ItemsAreSeq
<1>1. CASE NoData(ring)
  <2>1. Items = <<>>
    BY <1>1, <1>i DEF NoData
  <2>2. UNCHANGED ring /\ result' = [call |-> "no_data", value |-> 0]
    BY <1>1 DEF Remove
  <2>3. UNCHANGED Items
    BY <2>2 DEF Items, Slot
  <2> QED
    BY <2>1, <2>2, <2>3 DEF F!Remove
<1>2. CASE ~NoData(ring)
  <2>1. /\ ring'.buffer = ring.buffer /\ ring'.size = ring.size - 1 /\ ring.size >= 1
        /\ ring'.endOfData = IF ring.endOfData = Slots - 1 THEN ring.startOfData ELSE ring.endOfData + 1
    BY <1>2, RemovedFields
  <2>2. result' = [call |-> "remove", value |-> ring.buffer[ring.endOfData]]
    BY <1>2 DEF Remove, Oldest
  <2>3. ring.endOfData = Slots - 1 => ring.startOfData = 0
    BY <1>2, <1>f DEF Remove, Fields
  <2>4. Slot(1) = ring.endOfData
    BY <1>f DEF Slot, Fields
  <2>5. \A i \in 1..(ring.size - 1) : Slot(i)' = Slot(i + 1)
    <3>1. ring.size \in Nat /\ ring.endOfData \in 0..(Slots - 1) /\ ring.size <= Slots
      BY <1>f, <1>i DEF Fields
    <3>2. CASE ring.endOfData = Slots - 1
      BY <2>1, <2>3, <3>1, <3>2 DEF Slot
    <3>3. CASE ring.endOfData # Slots - 1
      BY <2>1, <3>1, <3>3 DEF Slot
    <3> QED
      BY <3>2, <3>3
  <2>6. Items # <<>> /\ Head(Items) = ring.buffer[ring.endOfData]
    <3>1. Items # <<>>
      BY <1>i, <2>1
    <3>2. Head(Items) = Items[1]
      BY <1>i, <3>1
    <3> QED
      BY <1>i, <2>1, <2>4, <3>1, <3>2
  <2> DEFINE t == Tail(Items)
  <2>7. t \in Seq(Nat) /\ Len(t) = ring.size - 1 /\ \A i \in 1..(ring.size - 1) : t[i] = Items[i + 1]
    BY <1>i, <2>6, HeadTailProperties
  <2> HIDE DEF t
  <2>8. Items' = t
    <3>1. Items' = [i \in 1..(ring.size - 1) |-> ring.buffer[Slot(i + 1)]]
      BY <2>1, <2>5 DEF Items
    <3> DEFINE f == Items'
               n == ring.size - 1
    <3>2. n \in Nat /\ \A i \in 1..n : i + 1 \in 1..ring.size
      BY <1>i, <2>1
    <3>3. \A i \in 1..n : f[i] = t[i]
      BY <1>i, <2>7, <3>1, <3>2
    <3>4. \A i \in 1..n : t[i] \in Nat
      BY <2>7, ElementOfSeq
    <3>5. f \in [1..n -> Nat]
      BY <3>1, <3>3, <3>4
    <3> HIDE DEF f, n
    <3>6. Len(t) = n
      BY <2>7 DEF n
    <3>7. f = t
      BY <2>7, <3>2, <3>3, <3>5, <3>6, SameSeq
    <3> QED
      BY <3>7 DEF f
  <2> QED
    BY <2>2, <2>6, <2>8 DEF F!Remove, t
<1> QED
  BY <1>1, <1>2

LEMMA InitImplements == Init => F!Init
<1> SUFFICES ASSUME Init PROVE F!Init
  OBVIOUS
<1>1. ring.size = 0 /\ result = [call |-> "new", value |-> 0]
  BY DEF Init, NewRingBuffer
<1>2. Items \in Seq(Nat) /\ Len(Items) = 0
  BY <1>1, InitType, InitApart, ItemsAreSeq DEF Init
<1>3. Items = <<>>
  BY <1>2
<1> QED
  BY <1>1, <1>3 DEF F!Init

LEMMA StepImplements ==
  TypeOK /\ Apart /\ added <= MaxAdds /\ [Next]_vars => [tears' > 0 \/ F!Next]_vars
<1> SUFFICES ASSUME TypeOK, Apart, added <= MaxAdds, Next PROVE tears' > 0 \/ F!Next
  OBVIOUS
<1>1. tears \in Nat /\ tears' \in Nat /\ added \in Nat
  BY StepType DEF TypeOK
<1>2. tears' >= tears
  BY <1>1 DEF Next, Add, Remove
<1>3. CASE tears = 0 /\ Add
  <2>1. added + 1 \in 1..(MaxAdds + 1)
    BY <1>1
  <2> QED
    BY <1>3, <2>1, AddImplements DEF F!Next
<1>4. CASE tears = 0 /\ Remove /\ tears' = 0
  BY <1>4, RemoveImplements DEF F!Next
<1> QED
  BY <1>1, <1>2, <1>3, <1>4 DEF Next

\* The values added never exceed the bound on them.
LEMMA Bounded == TypeOK /\ added <= MaxAdds /\ [Next]_vars => (added <= MaxAdds)'
BY DEF TypeOK, Next, Add, Remove, vars

\* The ring buffer does what a bounded FIFO does, for every size and any calls, until a Remove
\* reads the last slot while the write index is not at the first.
THEOREM Implements == Spec => FifoUntilTorn
<1>1. Init => added <= MaxAdds
  BY DEF Init
<1>2. TypeOK /\ Apart /\ added <= MaxAdds /\ [Next]_vars => (TypeOK /\ Apart /\ added <= MaxAdds)'
  BY StepType, StepApart, Bounded
<1>3. Init => TypeOK /\ Apart /\ added <= MaxAdds
  BY <1>1, InitType, InitApart
<1>4. QED
  BY <1>2, <1>3, InitImplements, StepImplements, PTL DEF Spec, FifoUntilTorn
=============================================================================
