\* Three threads and the main program, up to two permits, and two wakes,
\* blocks or removals from the menu.
CONSTANTS
    MaxThreads = 3
    MaxCount = 2
    MaxMeddling = 2
SPECIFICATION LiveSpec
CHECK_DEADLOCK FALSE
INVARIANTS SemTypeOK NoStrandedPermit QueueIsBlocked
PROPERTIES PermitTaken
