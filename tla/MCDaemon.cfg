SPECIFICATION FairSpec
CONSTANTS
    HostNames <- MCHostNames
    Configs <- MCConfigs
    NoName = NoName
    NoConf = NoConf
    Clients = {c1}
    Requestors <- MCRequestors
    MaxStarts = 2
    MaxAlive = 3
    MaxMonitored = 2
    NoWorker = NoWorker
CHECK_DEADLOCK FALSE
INVARIANTS
    TypeOK
    LocalChannelExists
    RecordMatchesList
PROPERTIES
    ServesInTurn
    FailsOnlyForBusyChannel
    MonitoredIsServed
