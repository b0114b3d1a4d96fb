CONSTANTS
  exposure = exposure
  lit = lit
  preset = preset
  temperature = temperature
  various = various
  yellow = yellow
  power = power
  Settings <- MCSettings
  Kind <- MCKind
  Modes <- MCModes
  Lowest <- MCLowest
  Highest <- MCHighest
  WhiteBalance <- MCWhiteBalance
  Leaf <- MCLeaf
  FloatRank <- MCFloatRank
  Preset = preset
  Stored <- MCStored
  Error <- MCError
  Switch <- MCSwitch
  Always <- MCAlways
  Follow <- MCFollow
  UserDefined <- MCUserDefined
  References <- MCReferences
  Base <- MCBase
  Operations <- MCOperations
  MaxBatch = 2
  MaxOps = 3
  LiveRun = TRUE
  MaxPasses = 2
  MaxReadOnlyStreak = 2
  MaxCallsWithoutApply = 3
  MaxSteps = 1
  MaxUsed = 17
  Types = {"history", "tags"}
  Filters = {{"history", "tags"}}
  Period = 1
  Concurrent = FALSE
  MaxItems = 6
  MaxIndent = 2
  MaxClock = 1
  MaxHistory = 2
  MaxView = 1
  MaxStamp = 2
  Iops = {"temperature", "exposure"}
  DefaultOn = {"temperature"}
  MaxValue = 2
  FreshStack <- MCFreshStack
  MaxChanges = 3
CHECK_DEADLOCK FALSE
SPECIFICATION PartsSpec
INVARIANT IInv
INVARIANT ShadowIsReplay
INVARIANT ShadowNearImage
INVARIANT OrderKeptPerCall
INVARIANT AnswersBounded
PROPERTY AllOrNothing
PROPERTY ImplementsTimeline
PROPERTY PicturesFollow
PROPERTY OneTimeline
