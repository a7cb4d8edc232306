\* miccheck --ping on Linux with two devices: is every device processed
\* once the default host tests passed?
CONSTANTS
    NumDH <- MCNumDH
    NumOH <- MCNumOH
    NumDev <- MCNumDev
    NumDD <- MCNumDD
    NumOD <- MCNumOD
    Outcome <- MCOutcome

SPECIFICATION Spec

CHECK_DEADLOCK FALSE

INVARIANT DeviceIsolation
