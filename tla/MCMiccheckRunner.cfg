\* TestRunner.run when every probe failure is a FailedTestException.
CONSTANTS
    NumDH <- MCNumDH
    NumOH <- MCNumOH
    NumDev <- MCNumDev
    NumDD <- MCNumDD
    NumOD <- MCNumOD
    Outcome <- MCOutcomesFailedOnly

SPECIFICATION Spec

CHECK_DEADLOCK FALSE

PROPERTY RunSpec
