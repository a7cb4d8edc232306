------------------------ MODULE MCMiccheckLinuxRun ------------------------
(* TestRunner.run with the tests Linux's get_all_tests builds for         *)
(* `miccheck --ping` on a host with two KNL devices: the four default    *)
(* host tests, KnlStateTest and SystoolsdTest per device, then PingTest; *)
(* every probe ends the ways its _run can end.                            *)
EXTENDS MiccheckRunner, Sequences

L == INSTANCE MiccheckLinuxTests WITH TOTAL_MICS <- 2

MCSettings == L!Settings({"ping"})
MCDevices == 2
MCDH == L!get_default_host_tests
MCOH == L!get_optional_host_tests(MCSettings, <<"PingTest">>)
MCDD == L!get_default_device_tests(MCDevices)
MCOD == L!get_optional_device_tests(MCSettings, <<"PingTest">>, MCDevices)

MCNumDH == Len(MCDH)
MCNumOH == Len(MCOH)
MCNumDev == MCDevices
MCNumDD == Len(MCDD[1])
MCNumOD == IF MCOD = <<>> THEN 0 ELSE Len(MCOD[1])

MCOutcome(l, k) ==
    L!Registry[CASE l = "dh" -> MCDH[k]
                 [] l = "oh" -> MCOH[k]
                 [] l = "dd" -> MCDD[1][k]
                 [] l = "od" -> MCOD[1][k]].outcomes

=============================================================================
