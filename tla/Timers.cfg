CONSTANTS
    Entity = {e1, e2}
    Reused = {e1}
    MaxThreads = 2
    DeltaTime = 1
    EvictCount = 2
SPECIFICATION Spec
INVARIANTS
    TypeOK
    OneTimer
    ArgumentLives
    CountsSlowly
PROPERTIES
    AllSilentEvicted
CHECK_DEADLOCK FALSE
