\* A ring of three slots, for more than two laps.
SPECIFICATION FairSpec
CONSTANTS
    BufSize = 3
    MaxEvents = 7
INVARIANTS
    MessagesKept
    NoLostWakeup
PROPERTIES
    EventsInOrder
    EventsHandled
