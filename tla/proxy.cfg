\* Three nodes, bodies of up to four chunks of which three may be copied, a channel
\* of one chunk and two chunks on their way.
CONSTANTS
    NodeCount = 3
    Limit = 3
    MaxSize = 4
    Room = 1
    Buffer = 2
SPECIFICATION FairSpec
INVARIANTS
    TypeOK
    PartIsNoticed
PROPERTIES
    UploadEnds
CHECK_DEADLOCK FALSE
