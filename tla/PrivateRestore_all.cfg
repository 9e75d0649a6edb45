\* Two files, an image that only another program writes, faults and crashes.
CONSTANTS
    Targets <- TwoTargets
    Images = {"old", "new", "other"}
    Requests <- SomeRequests
    MaxFaults = 2
    MaxCrashes = 2
    MaxEdits = 1
SPECIFICATION FairSpec
INVARIANTS OpenGateHasIdleJournal CachesFollowFiles AnswerIsTrue
PROPERTIES DecisionIsFinal ImportIsAtomic ThirdImageIsKept StartupSucceeds
