SPECIFICATION CommandsSpec
CONSTANTS
    Starts <- MCStarts
    Calls <- MCCalls
INVARIANTS
    SelectorsHonoured
    V9LeavesStore
    AnswerOfOneSnapshot
PROPERTIES
    UsedStoreStays
    
    CommandsEnd
