CONSTANTS
    Sub = {s1, s2}
    MaxSubs = 1
    QueueMax = 1
    MaxChunks = 2
    SignalBy = 2
    Burst = 2
    Rap = {1}
    Actions = {"Normal"}
SYMMETRY SubSymmetry
SPECIFICATION Spec
INVARIANTS NoLostWakeup NoUseAfterStop CountExact ShutdownClean
