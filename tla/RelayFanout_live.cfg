CONSTANTS
    Sub = {s1}
    MaxSubs = 1
    QueueMax = 1
    MaxChunks = 2
    SignalBy = 0
    Burst = 1
    Rap = {1}
    Actions = {"Placeholder"}
SPECIFICATION FairSpec
PROPERTIES QueueDrains DeadReaped ShutdownCompletes
