\* Two connection attempts of one device.  The queue of a socket holds one frame,
\* so a second one meets a full queue and a third one can find room again.
SPECIFICATION FairSpec
CONSTANTS
    Sockets = {s1, s2}
    SEND_QUEUE_MAX = 1
    MaxGeneration = 1
    MaxFrames = 3
    MaxFaults = 1
CHECK_DEADLOCK FALSE
 
INVARIANT FramesInOrder
INVARIANT ConfirmedIsSubscribed
PROPERTY OwedIsClosed
