SPECIFICATION OutboxSpec
CONSTANTS
    Devices = {1, 2}
    Batches <- NoBatches
    MAILBOX_MAX_BYTES = 1
    ENVELOPE_TTL_DAYS = 0
    BATCH = 1
    MaxSeq = 3
    MaxDay = 0
    MaxFaults = 0
    Messages = {1}
    Payloads = {2}
    TargetsPerBatch = 1
    MaxLost = 1
    MaxRefused = 1
    MaxCrashes = 0
    MaxGoes = 1
    MaxRearms = 0
    Enrolled = {1}
INVARIANT OwedOrQueued
INVARIANT FinalStatusIsTrue
INVARIANT AcceptedIsWritten
INVARIANT StaleWasGone
PROPERTY SettledForGood
