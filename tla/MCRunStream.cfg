CONSTANT MaxGarbled = 1
SPECIFICATION FairSpec
INVARIANTS CompletedIsWhole CleanReplyIsComplete SpendIsQuarrysWord DrainIsWhole
PROPERTY RunIsReported
CHECK_DEADLOCK FALSE
