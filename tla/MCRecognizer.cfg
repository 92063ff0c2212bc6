SPECIFICATION Spec
CONSTANTS
    AudioQueueFrames = 2
    CtlQueue = 1
    EventQueue = 1
    Nobody = Nobody
    KeepAliveMs = 2
    Plans <- MCPlans
CHECK_DEADLOCK FALSE
INVARIANTS
    SpeechReachesItsTurn
    
PROPERTIES
    
    StreamEnds
