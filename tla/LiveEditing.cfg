CONSTANTS
  None = None
  MaxOps = 2
  ApplyCanFail = TRUE
SPECIFICATION FairSpec
INVARIANT IInv
INVARIANT EditsOnceInOrder
INVARIANT NothingLeftOut
INVARIANT FreshIfNoneMissed
PROPERTY ImplementsLiveEdits
PROPERTY RunEnds
