CONSTANTS
  Names <- MCNames
  Messages = {m1}
  CtxLens <- MCCtxLens
  PreHashes <- MCPreHashes
  NoParam = NoParam
  None = None
  Raised = Raised
  MaxExtra = 1

SPECIFICATION Spec
INVARIANT AcceptsOnlyExactLength
