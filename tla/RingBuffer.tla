----------------------------- MODULE RingBuffer -----------------------------
(***************************************************************************)
(* RingBuffer (internal/shared/buffers/ringbuffer.go) under any sequence   *)
(* of calls.  It holds the identifiers of connections and the backlog of a *)
(* worker.  It is a bounded FIFO until a Remove reads the last slot while  *)
(* the write index is not at the first one.                                *)
(***************************************************************************)
EXTENDS Ring, Sequences

CONSTANTS
  Slots,   \* the size given to NewRingBuffer
  MaxAdds  \* bound: calls of Add that find room

\* NewRingBuffer refuses other sizes.
ASSUME RingBufferAssumption == Slots \in 10..65536 /\ MaxAdds \in Nat

VARIABLES
  ring,    \* the buffer
  added,   \* how many values were added; the next value is told by its number
  result,  \* the last call and what it returned
  tears    \* how often a Remove has left values behind that the buffer still counts

vars == <<ring, added, result, tears>>

Indices == 0..(Slots - 1)

Init ==
  /\ ring = NewRingBuffer([i \in Indices |-> 0], 0, Slots - 1)
  /\ added = 0
  /\ result = [call |-> "new", value |-> 0]
  /\ tears = 0

Add ==
  /\ added < MaxAdds
  /\ \/ /\ OutOfRoom(ring)
        /\ result' = [call |-> "out_of_room", value |-> added + 1]
        /\ UNCHANGED <<ring, added>>
     \/ /\ ~OutOfRoom(ring)
        /\ ring' = Added(ring, added + 1)
        /\ added' = added + 1
        /\ result' = [call |-> "add", value |-> added + 1]
  /\ UNCHANGED tears

Remove ==
  /\ \/ /\ NoData(ring)
        /\ result' = [call |-> "no_data", value |-> 0]
        /\ UNCHANGED <<ring, tears>>
     \/ /\ ~NoData(ring)
        /\ ring' = Removed(ring)
        /\ result' = [call |-> "remove", value |-> Oldest(ring)]
        /\ tears' = IF ring.endOfData = ring.endOfBuffer /\ ring.startOfData # 0
                       THEN tears + 1 ELSE tears
  /\ UNCHANGED added

Next == Add \/ Remove

Spec == Init /\ [][Next]_vars
-----------------------------------------------------------------------------
\* Types: indices, count and slots stay in range.
TypeOK ==
  /\ ring \in [buffer : [Indices -> Nat], size : Nat, endOfBuffer : {Slots - 1},
               startOfData : Indices, endOfData : Indices]
  /\ added \in Nat
  /\ result \in [call : {"new", "add", "out_of_room", "remove", "no_data"}, value : Nat]
  /\ tears \in Nat

\* The slots Add may write before it is refused.
Room ==
  IF ring.startOfData = ring.endOfData
    THEN IF ring.size > 0 THEN 0 ELSE Slots
    ELSE IF ring.endOfData > ring.startOfData
           THEN ring.endOfData - ring.startOfData
           ELSE ring.endOfData - ring.startOfData + Slots

\* Size() never counts more values than the slots Add can no longer write, also after the
\* indices have come apart: what it counts was written and has not been overwritten since.
CountFits == ring.size + Room <= Slots

\* The slot of the i-th value from the oldest.
Slot(i) ==
  IF ring.endOfData + i - 1 < Slots
    THEN ring.endOfData + i - 1 ELSE ring.endOfData + i - 1 - Slots

Items == [i \in 1..ring.size |-> ring.buffer[Slot(i)]]

F == INSTANCE Fifo WITH items <- Items, Values <- 1..(MaxAdds + 1)

\* Every call does what the call of a bounded FIFO does, until a Remove reads the last slot
\* while the write index is elsewhere than at the first.
FifoUntilTorn == F!Init /\ [][tears' > 0 \/ F!Next]_vars
=============================================================================
