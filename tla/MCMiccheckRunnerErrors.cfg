\* TestRunner.run when probes may also raise exceptions other than FailedTestException.
CONSTANTS
    NumDH <- MCNumDH
    NumOH <- MCNumOH
    NumDev <- MCNumDev
    NumDD <- MCNumDD
    NumOD <- MCNumOD
    Outcome <- MCOutcomesAll

SPECIFICATION Spec

CHECK_DEADLOCK FALSE

INVARIANT TypeOK
INVARIANT OptionalRunIffDefaultsPassed
PROPERTY StatusNeverReverts
INVARIANT ExitStatusSound
INVARIANT ReportOneLinePerTest
