CONSTANTS
  Blocks = 5
  BlockSize = 2
  NULL = null

SPECIFICATION Spec

INVARIANT MapAgrees

PROPERTY ImplementsAllocator
