CONSTANTS
  r1 = r1
  r2 = r2
  c1 = c1
  c2 = c2
  None = None
  Requests = {r1, r2}
  Conversations = {c1, c2}
  ConvOf <- OneConversation
  Watched = {r1}
  MaxPipe = 2
SPECIFICATION Spec
SYMMETRY SwapCalls
INVARIANT IInv
INVARIANT CancelIsSeen
INVARIANT ContextOfRunningTurn
INVARIANT TurnStateIsOwn
INVARIANT CancelStopsCodex
