\* image paths with a blank in them
CONSTANTS
    Paths <- MCPathsBlank
    Dev <- MCDev

SPECIFICATION Spec

\* micflash exits after one command
CHECK_DEADLOCK FALSE

INVARIANT VerboseSameCommand
