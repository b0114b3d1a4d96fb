CONSTANTS
  i1 = i1
  i2 = i2
  r1 = r1
  r2 = r2
  None = None
  Images = {i1, i2}
  Requests = {r1, r2}
  First = i1
  MaxOps = 1
  MaxUser = 0
SPECIFICATION Spec
INVARIANT EditsOfThisImage
