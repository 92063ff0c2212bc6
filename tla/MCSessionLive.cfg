SPECIFICATION FairSpec
CONSTANTS
  TurnDetections <- VadModes
  Commands = {}
  Voices = {v1}
  Modalities = {FALSE}
  Partials = {}
  Finals <- Words
  Faults = {"ctx", "asr"}
  BufferMax = 2
  KeepFrames = 1
  RespQueue = 1
  MaxFrames = 1
  MaxCommands = 0
  MaxVadBatch = 2
  MaxDeltas = 1
PROPERTY ResponseEnds
 
PROPERTY SessionCloses
