SPECIFICATION SpawnSpec
CONSTANTS
    Launches <- ElevenTasks
INVARIANTS
    EachTaskOnce
CHECK_DEADLOCK FALSE
