SPECIFICATION OutboxFairSpec
CONSTANTS
    Devices = {1, 2}
    Batches <- NoBatches
    MAILBOX_MAX_BYTES = 1
    ENVELOPE_TTL_DAYS = 0
    BATCH = 1
    MaxSeq = 3
    MaxDay = 0
    MaxFaults = 0
    Messages = {1}
    Payloads = {}
    TargetsPerBatch = 2
    MaxLost = 1
    MaxRefused = 1
    MaxCrashes = 1
    MaxGoes = 1
    MaxRearms = 1
    Enrolled = {1}
PROPERTY EverySendSettles
