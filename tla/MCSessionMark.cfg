SPECIFICATION Spec
CONSTANTS
  TurnDetections <- ServerOnly
  Commands = {"update"}
  Voices = {v1}
  Modalities = {FALSE}
  Partials = {}
  Finals <- Words
  Faults = {}
  BufferMax = 1
  KeepFrames = 1
  RespQueue = 1
  MaxFrames = 1
  MaxCommands = 1
  MaxVadBatch = 1
  MaxDeltas = 1
INVARIANT MarkOfAnnouncedTurn
