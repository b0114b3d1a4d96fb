CONSTANTS
  Readers = {r1, r2}
  Editor = editor
  Nobody = nobody
  Lost = lost
  Largest = 2
  Cost <- MCCost
  Quota = 2
  MaxEdits = 1
  Broken = TRUE
SYMMETRY ReaderSymmetry
SPECIFICATION Spec
INVARIANT IInv
INVARIANT LocksAreOwned
INVARIANT ShownIsGenerated
PROPERTY QuotaMet
