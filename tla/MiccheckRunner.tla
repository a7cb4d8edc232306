--------------------------- MODULE MiccheckRunner ---------------------------
(***************************************************************************)
(* miccheck's test orchestration: TestRunner.run (common/testrunner.py),  *)
(* executing each test through TestRunner._run and MiccheckTest.run       *)
(* (common/base.py), and the exit status main.main derives from whatever  *)
(* TestRunner.run raises (common/main.py).                                 *)
(*                                                                         *)
(* A test is identified by its position in its list; a probe's _run is    *)
(* abstracted to the way it ends:                                          *)
(*   "pass"    it returns,                                                 *)
(*   "failed"  it raises FailedTestException,                              *)
(*   "error"   it raises any other exception (IOError from a sysfs read,  *)
(*             KeyError from FABS[...], ExecProgramException, ...).        *)
(* Progress lines, banners and error messages are left out.               *)
(***************************************************************************)
EXTENDS Naturals, Sequences, Functions

CONSTANTS
    NumDH,      \* len(d_htests): default host tests
    NumOH,      \* len(o_htests): optional host tests
    NumDev,     \* len(devices_list)
    NumDD,      \* len(d_dtests[i]): default tests of each device
    NumOD,      \* len(o_dtests[i]); 0 stands for o_dtests == []
    Outcome(_, _)  \* Outcome(l, k) \subseteq ProbeOutcomes: how the k-th test of
                   \* list l ("dh", "oh", "dd" or "od") may end

ProbeOutcomes == {"pass", "failed", "error"}

\* the probes the unit tests (ut/utils.py) plug into TestRunner: FakePassTest
\* returns, FakeFailTest raises FailedTestException, and a _run patched
\* with raiser(e) raises e, for an e that is not a FailedTestException
FakePassTest == {"pass"}
FakeFailTest == {"failed"}
raiser == {"error"}

ASSUME {NumDH, NumOH, NumDev, NumDD, NumOD} \subseteq Nat

\* testtypes.py: the three values of MiccheckTest._status
NOT_RUN == "not_run"
PASS == "pass"
FAIL == "fail"
Status == {NOT_RUN, PASS, FAIL}

Dev == 1 .. NumDev

VARIABLES
    dh, oh,     \* status of each default / optional host test
    dd, od,     \* status of each device's default / optional tests
    pc,         \* where TestRunner.run / main.main is
    i,          \* index into the test list being iterated
    d,          \* index into devices_list (enumerate)
    optional_host_fail,
    device_failed,
    inner_device_failed,
    exc,        \* what TestRunner.run raised: "none" while running or on return
    num,        \* self._num_tests_run
    lines       \* the "Test n: ..." lines printed, in order

vars == <<dh, oh, dd, od, pc, i, d, optional_host_fail, device_failed,
          inner_device_failed, exc, num, lines>>

report == <<num, lines>>

flags == <<optional_host_fail, device_failed, inner_device_failed>>

Exceptions == {"none", "failed", "error", "optional_host", "device"}

TypeOK ==
    /\ dh \in [1 .. NumDH -> Status]
    /\ oh \in [1 .. NumOH -> Status]
    /\ dd \in [Dev -> [1 .. NumDD -> Status]]
    /\ od \in [Dev -> [1 .. NumOD -> Status]]
    /\ pc \in {"default_host", "optional_host", "next_device", "device_default",
               "device_check", "device_optional", "finish", "done"}
    /\ i \in Nat /\ d \in Nat
    /\ optional_host_fail \in BOOLEAN /\ device_failed \in BOOLEAN
    /\ inner_device_failed \in BOOLEAN
    /\ exc \in Exceptions
    /\ num \in Nat
    /\ lines \in Seq([t : {"dh", "oh", "dd", "od"} \X Nat \X Nat, n : Nat, out : BOOLEAN])

(***************************************************************************)
(* MiccheckTest.run: the status becomes PASS when _run returns and FAIL   *)
(* when it raises; the exception is re-raised unchanged.                  *)
(***************************************************************************)
\* mutant: the status is left as the probe's raw result
StatusAfter_RawResult(o) == IF o = "pass" THEN PASS ELSE o

StatusAfter(o) == IF o = "pass" THEN PASS ELSE FAIL

\* mutant: the counter is advanced only when the test passed
Report_CountOnPass(l, v, k, o) ==
    /\ lines' = Append(lines, [t |-> <<l, v, k>>, n |-> num, out |-> StatusAfter(o) = PASS])
    /\ num' = IF o = "pass" THEN num + 1 ELSE num

\* TestRunner._run: the line "Test %d ..." is formatted with the counter
\* before the test runs; the finally clause advances the counter and
\* prints the line, through p_out if the status is PASS and p_err if not,
\* whether run() returned or raised. l, v, k name the test (v = 0 for a
\* host test).
Report(l, v, k, o) ==
    /\ lines' = Append(lines, [t |-> <<l, v, k>>, n |-> num, out |-> StatusAfter(o) = PASS])
    /\ num' = num + 1

Init ==
    /\ dh = [k \in 1 .. NumDH |-> NOT_RUN]
    /\ oh = [k \in 1 .. NumOH |-> NOT_RUN]
    /\ dd = [v \in Dev |-> [k \in 1 .. NumDD |-> NOT_RUN]]
    /\ od = [v \in Dev |-> [k \in 1 .. NumOD |-> NOT_RUN]]
    /\ pc = "default_host" /\ i = 1 /\ d = 1
    /\ optional_host_fail = FALSE /\ device_failed = FALSE
    /\ inner_device_failed = FALSE
    /\ exc = "none"
    /\ num = 0 /\ lines = <<>>

\* for test in self._d_htests: self._run_host_test(test) -- nothing is
\* caught, so any exception ends run() and reaches main.main.
RunDefaultHostTest ==
    /\ pc = "default_host" /\ i <= NumDH
    /\ \E o \in Outcome("dh", i) :
         /\ dh' = [dh EXCEPT ![i] = StatusAfter(o)] /\ Report("dh", 0, i, o)
         /\ \/ o = "pass" /\ i' = i + 1 /\ UNCHANGED <<pc, exc>>
            \/ o # "pass" /\ pc' = "done" /\ exc' = o /\ UNCHANGED i
    /\ UNCHANGED <<oh, dd, od, d, flags>>

EndDefaultHost ==
    /\ pc = "default_host" /\ i > NumDH
    /\ pc' = "optional_host" /\ i' = 1
    /\ UNCHANGED <<dh, oh, dd, od, report, d, flags, exc>>

\* the bare except: of the optional host loop catches every exception
RunOptionalHostTest ==
    /\ pc = "optional_host" /\ i <= NumOH
    /\ \E o \in Outcome("oh", i) :
         /\ oh' = [oh EXCEPT ![i] = StatusAfter(o)] /\ Report("oh", 0, i, o)
         /\ optional_host_fail' = (optional_host_fail \/ o # "pass")
    /\ i' = i + 1
    /\ UNCHANGED <<dh, dd, od, pc, d, device_failed, inner_device_failed, exc>>

EndOptionalHost ==
    /\ pc = "optional_host" /\ i > NumOH
    /\ pc' = "next_device" /\ d' = 1
    /\ UNCHANGED <<dh, oh, dd, od, report, i, flags, exc>>

\* for i, device in enumerate(devices_list): inner_device_failed = False
NextDevice ==
    /\ pc = "next_device"
    /\ \/ d <= NumDev /\ pc' = "device_default" /\ i' = 1
                      /\ inner_device_failed' = FALSE
       \/ d > NumDev /\ pc' = "finish" /\ UNCHANGED <<i, inner_device_failed>>
    /\ UNCHANGED <<dh, oh, dd, od, report, d, optional_host_fail, device_failed, exc>>

\* the default device loop sits in try/except ex.FailedTestException: a
\* FailedTestException leaves the loop, any other exception leaves run().
RunDefaultDeviceTest ==
    /\ pc = "device_default" /\ i <= NumDD
    /\ \E o \in Outcome("dd", i) :
         /\ dd' = [dd EXCEPT ![d][i] = StatusAfter(o)] /\ Report("dd", d, i, o)
         /\ \/ o = "pass" /\ i' = i + 1 /\ UNCHANGED <<pc, flags, exc>>
            \/ o = "failed" /\ pc' = "device_check"
               /\ device_failed' = TRUE /\ inner_device_failed' = TRUE
               /\ UNCHANGED <<i, optional_host_fail, exc>>
            \/ o = "error" /\ pc' = "done" /\ exc' = "error"
               /\ UNCHANGED <<i, flags>>
    /\ UNCHANGED <<dh, oh, od, d>>

EndDefaultDevice ==
    /\ pc = "device_default" /\ i > NumDD
    /\ pc' = "device_check"
    /\ UNCHANGED <<dh, oh, dd, od, report, i, d, flags, exc>>

\* mutant: the skip only looks at `not self._o_dtests`
DeviceCheck_IgnoresInnerFailure ==
    /\ pc = "device_check"
    /\ \/ NumOD = 0 /\ pc' = "next_device" /\ d' = d + 1 /\ UNCHANGED i
       \/ NumOD # 0 /\ pc' = "device_optional" /\ i' = 1 /\ UNCHANGED d
    /\ UNCHANGED <<dh, oh, dd, od, report, flags, exc>>

\* if inner_device_failed or not self._o_dtests: continue
DeviceCheck ==
    /\ pc = "device_check"
    /\ \/ (inner_device_failed \/ NumOD = 0) /\ pc' = "next_device"
          /\ d' = d + 1 /\ UNCHANGED i
       \/ ~(inner_device_failed \/ NumOD = 0) /\ pc' = "device_optional"
          /\ i' = 1 /\ UNCHANGED d
    /\ UNCHANGED <<dh, oh, dd, od, report, flags, exc>>

\* mutant: a failing optional device test is skipped without recording it
RunOptionalDeviceTest_NoFailFlag ==
    /\ pc = "device_optional" /\ i <= NumOD
    /\ \E o \in Outcome("od", i) :
         /\ od' = [od EXCEPT ![d][i] = StatusAfter(o)] /\ Report("od", d, i, o)
         /\ \/ o # "error" /\ i' = i + 1 /\ UNCHANGED <<pc, exc, device_failed>>
            \/ o = "error" /\ pc' = "done" /\ exc' = "error"
               /\ UNCHANGED <<i, device_failed>>
    /\ UNCHANGED <<dh, oh, dd, d, optional_host_fail, inner_device_failed>>

\* each optional device test in its own try/except ex.FailedTestException
RunOptionalDeviceTest ==
    /\ pc = "device_optional" /\ i <= NumOD
    /\ \E o \in Outcome("od", i) :
         /\ od' = [od EXCEPT ![d][i] = StatusAfter(o)] /\ Report("od", d, i, o)
         /\ \/ o # "error" /\ i' = i + 1
               /\ device_failed' = (device_failed \/ o = "failed")
               /\ UNCHANGED <<pc, exc>>
            \/ o = "error" /\ pc' = "done" /\ exc' = "error"
               /\ UNCHANGED <<i, device_failed>>
    /\ UNCHANGED <<dh, oh, dd, d, optional_host_fail, inner_device_failed>>

\* mutant: the device index is not advanced after the optional tests
EndOptionalDevice_NoAdvance ==
    /\ pc = "device_optional" /\ i > NumOD
    /\ pc' = "next_device"
    /\ UNCHANGED <<dh, oh, dd, od, report, i, d, flags, exc>>

EndOptionalDevice ==
    /\ pc = "device_optional" /\ i > NumOD
    /\ pc' = "next_device" /\ d' = d + 1
    /\ UNCHANGED <<dh, oh, dd, od, report, i, flags, exc>>

\* mutant: the two end-of-run checks in the other order
Finish_DeviceFirst ==
    /\ pc = "finish"
    /\ pc' = "done"
    /\ exc' = CASE device_failed      -> "device"
                [] optional_host_fail -> "optional_host"
                [] OTHER              -> "none"
    /\ UNCHANGED <<dh, oh, dd, od, report, i, d, flags>>

\* after the device loop: optional host failure is reported first
Finish ==
    /\ pc = "finish"
    /\ pc' = "done"
    /\ exc' = CASE optional_host_fail -> "optional_host"
                [] device_failed      -> "device"
                [] OTHER              -> "none"
    /\ UNCHANGED <<dh, oh, dd, od, report, i, d, flags>>

Next ==
    \/ RunDefaultHostTest \/ EndDefaultHost
    \/ RunOptionalHostTest \/ EndOptionalHost
    \/ NextDevice
    \/ RunDefaultDeviceTest \/ EndDefaultDevice \/ DeviceCheck
    \/ RunOptionalDeviceTest \/ EndOptionalDevice
    \/ Finish

\* run() is one single-threaded call that keeps executing until it returns
\* or raises. Each probe is assumed to return: ping and ssh run with a 3 s
\* timeout, but the SCIF probes' blocking scif_recv has none (a hang there
\* is outside this specification).
Spec == Init /\ [][Next]_vars /\ WF_vars(Next)

\* main.main: status 0 ("Status: OK") iff test_runner.run returned
ExitStatus == IF exc = "none" THEN 0 ELSE 1

(***************************************************************************)
(* Properties                                                              *)
(***************************************************************************)

AllPassed(s, n) == \A k \in 1 .. n : s[k] = PASS
AnyRun(s, n) == \E k \in 1 .. n : s[k] # NOT_RUN
AnyFailed(s, n) == \E k \in 1 .. n : s[k] = FAIL

\* Optional tests of a device run only after all of that device's default
\* tests passed (the `inner_device_failed or not self._o_dtests` skip), and
\* once run() has returned or raised a device-level verdict, a device
\* whose default tests all passed had every optional test executed.
OptionalRunIffDefaultsPassed ==
    \A v \in Dev :
        /\ AnyRun(od[v], NumOD) => AllPassed(dd[v], NumDD)
        /\ (pc = "done" /\ exc \notin {"failed", "error"}
            /\ AllPassed(dd[v], NumDD)) => ~\E k \in 1 .. NumOD : od[v][k] = NOT_RUN

\* A test's status changes at most once per run: NOT_RUN -> PASS | FAIL,
\* never back and never between PASS and FAIL (no test instance is run
\* twice by the loops of TestRunner.run).
Settled(s, n) == \A k \in 1 .. n : s[k] # NOT_RUN => s'[k] = s[k]
StatusNeverReverts ==
    [][ /\ Settled(dh, NumDH) /\ Settled(oh, NumOH)
        /\ \A v \in Dev : Settled(dd[v], NumDD) /\ Settled(od[v], NumOD) ]_vars

\* spec.md 77, one report line per executed check: whether a test passed,
\* failed or raised, TestRunner._run's finally clause prints exactly one
\* line for it, the lines are numbered 0, 1, 2, ... by _num_tests_run with
\* no gap or repeat across host and device loops, and a line goes to
\* stdout exactly when its test's status is PASS.
Executed == {<<"dh", 0, k>> : k \in {k \in 1 .. NumDH : dh[k] # NOT_RUN}}
    \cup {<<"oh", 0, k>> : k \in {k \in 1 .. NumOH : oh[k] # NOT_RUN}}
    \cup {<<"dd", v, k>> : <<v, k>> \in {<<v, k>> \in Dev \X (1 .. NumDD) : dd[v][k] # NOT_RUN}}
    \cup {<<"od", v, k>> : <<v, k>> \in {<<v, k>> \in Dev \X (1 .. NumOD) : od[v][k] # NOT_RUN}}
StatusOf(t) ==
    CASE t[1] = "dh" -> dh[t[3]] [] t[1] = "oh" -> oh[t[3]]
      [] t[1] = "dd" -> dd[t[2]][t[3]] [] t[1] = "od" -> od[t[2]][t[3]]
ReportOneLinePerTest ==
    /\ num = Len(lines)
    /\ IsInjective([k \in DOMAIN lines |-> lines[k].t])
    /\ {lines[k].t : k \in DOMAIN lines} = Executed
    /\ \A k \in DOMAIN lines :
         lines[k].n = k - 1 /\ (lines[k].out <=> StatusOf(lines[k].t) = PASS)

\* The exit status of main.main is 0 exactly when no executed test ended
\* FAIL: every failure, on the host or on any device, reaches the status.
ExitStatusSound ==
    pc = "done" =>
        (ExitStatus = 0 <=> ~\/ AnyFailed(dh, NumDH) \/ AnyFailed(oh, NumOH)
                              \/ \E v \in Dev : AnyFailed(dd[v], NumDD)
                                              \/ AnyFailed(od[v], NumOD))

\* spec.md 4.4.3d: a failure on one device never blocks processing of
\* the subsequent devices; only a failing default host test stops the run
\* before the devices. A device is processed when its first test ran.
DeviceProcessed(v) ==
    IF NumDD > 0 THEN dd[v][1] # NOT_RUN ELSE NumOD = 0 \/ od[v][1] # NOT_RUN
DeviceIsolation ==
    (pc = "done" /\ AllPassed(dh, NumDH)) => \A v \in Dev : DeviceProcessed(v)

(***************************************************************************)
(* Refinement: TestRunner.run, seen only when it has finished, is one     *)
(* step of the abstract run of MiccheckRunSpec.                           *)
(***************************************************************************)
VerdictOf(e) ==
    CASE e = "none"          -> "ok"
      [] e = "failed"        -> "default_host"
      [] e = "optional_host" -> "optional_host"
      [] e = "device"        -> "device"
      [] e = "error"         -> "error"

Finished(s, unset) == IF pc = "done" THEN s ELSE unset

Abs == INSTANCE MiccheckRunSpec WITH
    dh <- Finished(dh, [k \in 1 .. NumDH |-> NOT_RUN]),
    oh <- Finished(oh, [k \in 1 .. NumOH |-> NOT_RUN]),
    dd <- Finished(dd, [v \in Dev |-> [k \in 1 .. NumDD |-> NOT_RUN]]),
    od <- Finished(od, [v \in Dev |-> [k \in 1 .. NumOD |-> NOT_RUN]]),
    verdict <- Finished(VerdictOf(exc), "pending")

\* Every run executes exactly the tests spec.md 4.4 prescribes for the
\* probe results it met, reports the verdict 4.4.4 prescribes, and ends.
RunSpec == Abs!Spec /\ Abs!Completes

=============================================================================
