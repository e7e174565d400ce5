\* One sender (queues do not meet but in the mix), a queue of two.
SPECIFICATION Spec
CONSTANTS
    Peers = {p1}
    Target = 2
    MaxQueue = 2
    MaxPending = 1
    MaxSent = 3
    MaxBreaks = 2
INVARIANTS TypeOK PlayedInOrder QueueIsTheLatest
PROPERTIES SilentIsForgotten QueueDrains
CHECK_DEADLOCK FALSE
