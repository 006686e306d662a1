\* Any text of up to five characters in any chunks, lines of up to four of them.
SPECIFICATION Spec
CONSTANTS
    Streams <- AnyStream
    Buf = 2
    MaxLine = 4
INVARIANTS
    RelayIsFaithful
    EventsNotHeldBack
PROPERTIES
    RelayKeepsPromise
CHECK_DEADLOCK FALSE
