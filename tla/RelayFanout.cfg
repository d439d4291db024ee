CONSTANTS
    Sub = {s1}
    MaxSubs = 1
    QueueMax = 1
    MaxChunks = 3
    SignalBy = 3
    Burst = 1
    Rap = {2}
    Actions = {"Drop", "Placeholder"}
SPECIFICATION Spec
INVARIANTS WireInOrder QueueBounded NoSilentLoss
PROPERTIES ClosingIsFinal ImplementsStream
