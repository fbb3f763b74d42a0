SPECIFICATION Spec
CONSTANTS
    MaxKeys = 2
    MaxReq = 2
    MaxTargets = 2
INVARIANTS
    TypeOK
    WaitingHasRequest
    GeneratingMatchesRequests
    VersionsDoNotMix
    NoHalfReplySaved
PROPERTIES
    StopIsFinal
    EveryReplySettles
    GenerationEnds
CHECK_DEADLOCK FALSE
