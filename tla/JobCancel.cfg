CONSTANTS
  j1 = j1
  j2 = j2
  j3 = j3
  j4 = j4
  zoom = zoom
  w1 = w1
  w2 = w2
  Crew <- MCCrew
  NoJob = NoJob
  Jobs = {j1, j2, j3, j4}
  Work <- MCWork
  Cancellable = {j4}
  Targets <- MCTargets
  Workers = {w1, w2}
  Reserved = {zoom}
  Callers = {c1}
  MaxJobs = 2
  FgPriority = 3
  PriorityRange = 6
SPECIFICATION Spec
INVARIANT CancelIsNotLost
CHECK_DEADLOCK FALSE
