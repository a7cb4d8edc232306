\* micbios on Linux against two cards whose SCIF calls and daemon may fail
CONSTANTS
    NumMics <- MCNumMics
    MaxId <- MCMaxId
    MaxTokens <- MCMaxTokens
    MaxPort <- MCMaxPort
    MaxRuns <- MCMaxRuns
    Platform = "linux"
    ScifMayFail = TRUE
    DaemonMayFail = TRUE

SPECIFICATION Spec

\* micbios exits once the invocation is over
CHECK_DEADLOCK FALSE

INVARIANT TypeOK
INVARIANT OfflineMeansUntouched
INVARIANT PrefixApplied
INVARIANT EachDeviceRequestedOnce
INVARIANT SetpassSuccessNeedsOldPass
PROPERTY Termination
