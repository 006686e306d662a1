\* A slow client.
SPECIFICATION Safety
CONSTANTS
    Stall = 2
    MaxChunks = 3
INVARIANTS
    StallMeansSilence
CHECK_DEADLOCK FALSE
