\* every combination of -getversion, -update, -device, -help and -v
CONSTANTS
    Paths <- MCPaths
    Dev <- MCDev

SPECIFICATION Spec

\* micflash exits after one command
CHECK_DEADLOCK FALSE

INVARIANT TypeOK
INVARIANT GetversionNeverUpdates
INVARIANT UpdateOnlyNamedDevice
INVARIANT VerboseSameCommand
