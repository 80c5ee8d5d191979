SPECIFICATION ControlFairSpec
CONSTANTS
    Devices <- MCDevices
    UserOf <- MCUserOf
    Foundings <- MCFoundings
    MAX_MEMBERS = 3
    MAX_NAME = 1
    MaxChanges = 4
    MaxLost = 1
    MaxMail = 1
    MaxBehind = 2
    MAX_REFERENCES = 2
    MAX_TEXT = 1
    MAX_QUOTE = 1
    MAX_ATTACHMENTS = 2
    MAX_THUMBNAIL = 1
    MAX_DEPTH = 4
    MAX_ITEMS = 7
    MAX_ENTRIES = 2
    MAX_BATCH = 2
    CHUNK = 2
    ABYTES = 1
    HEADERS = 1
    BUCKETS = {4, 7, 9}
CHECK_DEADLOCK FALSE
INVARIANT HistoriesAgree
INVARIANT FormatsReadBack
PROPERTY HistoryOnlyGrows
PROPERTY GapCloses
PROPERTY NothingAfterLeaving
