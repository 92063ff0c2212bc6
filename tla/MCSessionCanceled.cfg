SPECIFICATION FairSpec
CONSTANTS
  TurnDetections <- ManualOnly
  Commands = {"create"}
  Voices = {v1}
  Modalities = {FALSE}
  Partials = {}
  Finals <- Words
  Faults = {"canceled"}
  BufferMax = 1
  KeepFrames = 1
  RespQueue = 1
  MaxFrames = 0
  MaxCommands = 1
  MaxVadBatch = 0
  MaxDeltas = 1
PROPERTY ResponseEnds
