SPECIFICATION FairSpec
CONSTANTS
    Ids = {x1}
    None = None
    MaxInbox = 2
    MaxData = 1
PROPERTIES SilenceEndsSession
CHECK_DEADLOCK FALSE
