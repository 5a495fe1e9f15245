-------------------------------- MODULE Ring --------------------------------
(***************************************************************************)
(* The operations of RingBuffer (internal/shared/buffers/ringbuffer.go) on *)
(* a record: the slots, the number of values the buffer counts, the last   *)
(* slot, and the slots that are written and read next.  startOfBuffer is 0.*)
(***************************************************************************)
EXTENDS Integers

\* A buffer whose slots hold the values of a function from 0 to the last slot.
NewRingBuffer(slots, size, endOfBuffer) ==
  [buffer |-> slots, size |-> size, endOfBuffer |-> endOfBuffer,
   startOfData |-> 0, endOfData |-> 0]

OutOfRoom(rb) == rb.startOfData = rb.endOfData /\ rb.size > 0
NoData(rb)    == rb.size = 0

\* Mutant: the write index stops at the last slot.
StopsAtEnd(rb, slot) == IF slot = rb.endOfBuffer THEN slot ELSE slot + 1
AfterWrite(rb, slot) == IF slot = rb.endOfBuffer THEN 0 ELSE slot + 1

Written(rb, value) == [rb.buffer EXCEPT ![rb.startOfData] = value]

\* Add, when there is room.
Added(rb, value) ==
  [buffer      |-> Written(rb, value),
   size        |-> rb.size + 1,
   endOfBuffer |-> rb.endOfBuffer,
   startOfData |-> AfterWrite(rb, rb.startOfData),
   endOfData   |-> rb.endOfData]

\* From the last slot the read index goes to the write index, not to the first slot.
AfterRead(rb, slot) == IF slot = rb.endOfBuffer THEN rb.startOfData ELSE slot + 1

\* Mutant: the count is left as it was.
CountAfterRemove(rb) == rb.size
LessOne(rb) == rb.size - 1

\* Remove, when there is data: the value, and the buffer that is left.
Oldest(rb) == rb.buffer[rb.endOfData]
Removed(rb) ==
  [buffer      |-> rb.buffer,
   size        |-> LessOne(rb),
   endOfBuffer |-> rb.endOfBuffer,
   startOfData |-> rb.startOfData,
   endOfData   |-> AfterRead(rb, rb.endOfData)]
=============================================================================
