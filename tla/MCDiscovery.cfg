\* Two servers, one datagram that is left from an earlier run.
SPECIFICATION Spec
CONSTANTS
    NumServers = 2
    HostAddresses <- MCHostAddresses
    Mappings <- MCMappings
    Pages <- MCPages
    PreferredPort = 2
    AutoPort = 4
    MaxStrays = 1
INVARIANTS
    TypeOK
    OwnAnswers
PROPERTIES
    GivesUpLate
    StartReturns
\* The program has ended.
CHECK_DEADLOCK FALSE
