-------------------------- MODULE MCMiccheckRunner --------------------------
(* TestRunner.run with two tests in every list and three devices.          *)
EXTENDS MiccheckRunner

MCNumDH == 2
MCNumOH == 2
MCNumDev == 3
MCNumDD == 2
MCNumOD == 2

\* every test is a FakePassTest or a FakeFailTest
MCOutcomesFailedOnly(l, k) == FakePassTest \cup FakeFailTest

\* or a test whose _run raises another exception
MCOutcomesAll(l, k) == FakePassTest \cup FakeFailTest \cup raiser

=============================================================================
