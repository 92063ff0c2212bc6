SPECIFICATION Spec
CONSTANTS
  TurnDetections <- ManualOnly
  Commands = {"update", "commit", "clear", "item", "delete", "create", "cancel", "close"}
  Voices = {v1}
  Modalities = {TRUE}
  Partials = {"words"}
  Finals <- Words
  Faults = {}
  BufferMax = 1
  KeepFrames = 1
  RespQueue = 1
  MaxFrames = 2
  MaxCommands = 3
  MaxVadBatch = 0
  MaxDeltas = 1
INVARIANT PendingItemOpen
INVARIANT OutputItemOwned
INVARIANT ClientInStep
PROPERTY ContractSpec
 
