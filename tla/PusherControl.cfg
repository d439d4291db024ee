SPECIFICATION FairSpec
CONSTANTS
    Client = {c1, c2}
    Commands <- MCCommands
    Start <- MCStart
INVARIANTS RefsExact OkMeansApplied InOrder SoleApplier
PROPERTIES Untouched StopReturns
