SPECIFICATION Spec
CONSTANTS
  Slots <- SmallestSize
  MaxAdds <- TwiceRound
INVARIANT
  CountFits
PROPERTY
  FifoUntilTorn
