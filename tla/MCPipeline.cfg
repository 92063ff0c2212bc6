SPECIFICATION Spec
CONSTANTS
    MinSentenceRunes = 3
    Abbreviations <- MCAbbreviations
    ChunkQueue = 1
    NoFinish = NoFinish
    TextQueue = 1
    AudioQueue = 1
    NoText = NoText
    ChunkCap = 1
    SentenceCap = 1
    Scenarios <- MCScenarios
CHECK_DEADLOCK FALSE
INVARIANTS
    
    SentencesTile
    CallsWhole
PROPERTIES
    EndsTold
    Reclaimed
