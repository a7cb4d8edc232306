--------------------------- MODULE MiccheckRunSpec ---------------------------
(***************************************************************************)
(* What one miccheck run promises (spec.md 4.4 and 7), with the run as a  *)
(* single step: given how each test turned out, which tests were executed *)
(* and which overall verdict the run reports.                             *)
(*   - default host tests run in order until the first failure, which     *)
(*     ends the whole run;                                                 *)
(*   - otherwise every optional host test runs;                           *)
(*   - every device is processed; its default tests run in order until   *)
(*     its first failure, and its optional tests all run iff its default  *)
(*     tests all passed;                                                   *)
(*   - the verdict: default host failure, else an optional host failure,  *)
(*     else any device failure, else success.                             *)
(***************************************************************************)
EXTENDS Naturals

CONSTANTS NumDH, NumOH, NumDev, NumDD, NumOD

NOT_RUN == "not_run"
PASS == "pass"
FAIL == "fail"
Status == {NOT_RUN, PASS, FAIL}
Dev == 1 .. NumDev

VARIABLES dh, oh, dd, od, verdict

vars == <<dh, oh, dd, od, verdict>>

Verdicts == {"pending", "ok", "default_host", "optional_host", "device"}

AllPassed(s, n) == \A k \in 1 .. n : s[k] = PASS
NoneRun(s, n) == \A k \in 1 .. n : s[k] = NOT_RUN

\* a fail-fast sequence: test k ran iff every test before it passed
FailFast(s, n) ==
    \A k \in 1 .. n : s[k] # NOT_RUN <=> \A j \in 1 .. k - 1 : s[j] = PASS

Init ==
    /\ dh = [k \in 1 .. NumDH |-> NOT_RUN]
    /\ oh = [k \in 1 .. NumOH |-> NOT_RUN]
    /\ dd = [v \in Dev |-> [k \in 1 .. NumDD |-> NOT_RUN]]
    /\ od = [v \in Dev |-> [k \in 1 .. NumOD |-> NOT_RUN]]
    /\ verdict = "pending"

Run ==
    /\ verdict = "pending"
    /\ dh' \in [1 .. NumDH -> Status] /\ FailFast(dh', NumDH)
    /\ oh' \in [1 .. NumOH -> Status]
    /\ dd' \in [Dev -> [1 .. NumDD -> Status]]
    /\ od' \in [Dev -> [1 .. NumOD -> Status]]
    /\ LET hostOK == AllPassed(dh', NumDH) IN
       /\ \A k \in 1 .. NumOH : oh'[k] # NOT_RUN <=> hostOK
       /\ \A v \in Dev :
            /\ IF hostOK THEN FailFast(dd'[v], NumDD) ELSE NoneRun(dd'[v], NumDD)
            /\ \A k \in 1 .. NumOD :
                 od'[v][k] # NOT_RUN <=> hostOK /\ AllPassed(dd'[v], NumDD)
       /\ verdict' =
            CASE ~hostOK -> "default_host"
              [] \E k \in 1 .. NumOH : oh'[k] = FAIL -> "optional_host"
              [] \E v \in Dev : \/ \E k \in 1 .. NumDD : dd'[v][k] = FAIL
                                \/ \E k \in 1 .. NumOD : od'[v][k] = FAIL
                 -> "device"
              [] OTHER -> "ok"

Spec == Init /\ [][Run]_vars

\* the run ends: Run is the only step, so this is what WF_vars(Run) asks
Completes == <>(verdict # "pending")

=============================================================================
