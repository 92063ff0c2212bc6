SPECIFICATION Spec
CONSTANTS
  TurnDetections <- ManualOnly
  Commands = {"create"}
  Voices = {v1, v2}
  Modalities = {FALSE}
  Partials = {}
  Finals <- Words
  Faults = {}
  BufferMax = 1
  KeepFrames = 1
  RespQueue = 1
  MaxFrames = 0
  MaxCommands = 2
  MaxVadBatch = 0
  MaxDeltas = 1
INVARIANT OneVoice
