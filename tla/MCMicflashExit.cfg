\* micfw returning 0, 1 or 2
CONSTANTS
    Paths <- MCPaths
    Dev <- MCDev

SPECIFICATION Spec

\* micflash exits after one command
CHECK_DEADLOCK FALSE

INVARIANT ExitReflectsMicfw
