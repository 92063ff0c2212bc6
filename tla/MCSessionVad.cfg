SPECIFICATION Spec
CONSTANTS
  TurnDetections <- VadModes
  Commands = {}
  Voices = {v1}
  Modalities = {FALSE}
  Partials = {}
  Finals <- Sentences
  Faults = {"llm", "tts"}
  BufferMax = 2
  KeepFrames = 1
  RespQueue = 1
  MaxFrames = 2
  MaxCommands = 0
  MaxVadBatch = 3
  MaxDeltas = 1
INVARIANT IInv
INVARIANT ResponseBookkeeping
INVARIANT NoOrphanPipeline
INVARIANT AcceptedIsCurrent
INVARIANT SpeechItemReserved
INVARIANT WaitsAreTimed
INVARIANT MarkOfAnnouncedTurn
INVARIANT BargeInWins
PROPERTY ContractSpec
PROPERTY DeltasInOrder
