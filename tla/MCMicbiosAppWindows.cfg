\* micbios on Windows, where a card is looked up by number, with reliable
\* SCIF and daemon
CONSTANTS
    NumMics <- MCNumMics
    MaxId <- MCMaxId
    MaxTokens <- MCMaxTokens
    MaxPort <- MCMaxPort
    MaxRuns = 1
    Platform = "windows"
    ScifMayFail = FALSE
    DaemonMayFail = FALSE

SPECIFICATION Spec

\* micbios exits once the invocation is over
CHECK_DEADLOCK FALSE

INVARIANT EachDeviceRequestedOnce
