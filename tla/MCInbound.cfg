SPECIFICATION FairSpec
CONSTANTS
  CmdQueue = 2
  AudioQueue = 3
  MaxPosts = 8
INVARIANT IInv
PROPERTY OrderedSpec
PROPERTY EventuallyHandled
PROPERTY PostReturns
