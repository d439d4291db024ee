SPECIFICATION FairLinkSpec
INVARIANTS RecorderHasInput RecordHonest LabelIsCurrent StopIsClean
PROPERTIES StopReturns StopIsNoticed
