-------------------------------- MODULE Fifo --------------------------------
(***************************************************************************)
(* What a bounded buffer promises: values come out in the order they went  *)
(* in, an Add is refused only when all slots are taken, a Remove only when *)
(* none is.                                                                *)
(***************************************************************************)
EXTENDS Integers, Sequences

CONSTANTS
  Slots,  \* how many values the buffer has room for
  Values  \* what is put into it

VARIABLES
  items,   \* the values held, oldest first
  result   \* the last call and what it returned

Init == items = <<>> /\ result = [call |-> "new", value |-> 0]

Add(v) ==
  \/ /\ Len(items) < Slots
     /\ items' = Append(items, v)
     /\ result' = [call |-> "add", value |-> v]
  \/ /\ Len(items) = Slots
     /\ UNCHANGED items
     /\ result' = [call |-> "out_of_room", value |-> v]

Remove ==
  \/ /\ items # <<>>
     /\ items' = Tail(items)
     /\ result' = [call |-> "remove", value |-> Head(items)]
  \/ /\ items = <<>>
     /\ UNCHANGED items
     /\ result' = [call |-> "no_data", value |-> 0]

Next == (\E v \in Values : Add(v)) \/ Remove
=============================================================================
