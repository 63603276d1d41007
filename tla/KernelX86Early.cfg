SPECIFICATION FairSpec
CONSTANTS
    BufSize = 2
    Keys <- OneCode
    EarlyKeys = TRUE
PROPERTIES
    KeyIsRead
