CONSTANTS
  None = None
  MaxOps = 2
  ApplyCanFail = FALSE
SPECIFICATION Spec
PROPERTY FreshRender
