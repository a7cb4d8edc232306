-------------------------- MODULE MiccheckTestBase --------------------------
(***************************************************************************)
(* What the platform test catalogs share (common/__init__.py and           *)
(* common/base.py): the targets, the attributes @testattrs sets on a test  *)
(* class, and filter_tests and the sort on _order, over a registry that    *)
(* maps the class names of a module's globals() to their records.         *)
(***************************************************************************)
EXTENDS Integers, Sequences, SequencesExt, Bitwise, TLC

Host == "host"          \* common: target_host
Device == "device"      \* common: target_device
Unset == -1             \* testattrs(order=-1)

\* testtypes.py: each type constant (PCI_CARD_COUNT = 0, the next one + 1)
\* and its entry of TEST_NAMES, the name of the option dest and of the test
TEST_NAMES ==
       ("PCI_CARD_COUNT" :> "pci_card_count") @@ ("DRIVER_CARD_COUNT" :> "driver_card_count")
    @@ ("DRIVER_LOADED" :> "driver_loaded") @@ ("MPSS_DAEMON" :> "mpss_daemon")
    @@ ("DRIVER_VERSION" :> "driver_version") @@ ("STATE_POST" :> "state_post")
    @@ ("RAS" :> "ras") @@ ("SYSTOOLSD" :> "systoolsd")
    @@ ("BIOS_VERSION" :> "bios_version") @@ ("SMC_VERSION" :> "smc_version")
    @@ ("ME_VERSION" :> "me_version") @@ ("NTBEEPROM_VERSION" :> "ntbeeprom_version")
    @@ ("PING" :> "ping") @@ ("SSH" :> "ssh") @@ ("COI" :> "coi")

get_test_name(ttype) == TEST_NAMES[ttype]

\* @testattrs(ttype, target, order=...) on a class; isOpt and outs say
\* whether it is an OptionalTest and how its _run may end
Class(ttype, tgt, ord, isOpt, outs) ==
    [name |-> get_test_name(ttype), target |-> tgt, order |-> ord,
     optional |-> isOpt, outcomes |-> outs]

\* a MiccheckTest subclass without @testattrs: getattr(t, "target", "")
Untagged == [name |-> "", target |-> "", order |-> Unset, optional |-> FALSE, outcomes |-> {}]

(***************************************************************************)
(* common/tests.py: the probes that talk to a card daemon over            *)
(* _ScifClient (SystoolsdTest, RasTest), and how their _run ends.         *)
(***************************************************************************)
\* _ScifClient.__init__ (_open, _connect), then send and recv; each raises
\* ScifError on -1
ScifCalls == <<"scif_open", "scif_connect", "scif_send", "scif_recv">>

\* loads: ctypes.CDLL of _get_libscif found the library (else OSError,
\* raised inside the try but not the ScifError it catches); failAt: the
\* first call that returned -1, 0 for none; responds: the header check
ScifProbeEnd(loads, failAt, responds) ==
    CASE ~loads -> "error"
      [] failAt \in DOMAIN ScifCalls -> "failed"
      [] responds -> "pass"
      [] OTHER -> "failed"

\* checks: the results the header check can give on the daemon's answers
ScifProbeEnds(checks) ==
    {ScifProbeEnd(l, f, c) : l \in BOOLEAN, f \in 0 .. Len(ScifCalls), c \in checks}

\* SystoolsdTest: GET_SYSTOOLSD_INFO on port 130; `if not resp.length`
SystoolsdResponses == [length : {0, 16}]
SystoolsdResponds(resp) == resp.length # 0

\* RasTest: MR_REQ_HWINF on port 100; `if not resp.cmd & MR_RESP`
MR_REQ_HWINF == 1
MR_RESP == 2^14
RasResponses == [cmd : {MR_REQ_HWINF, MR_REQ_HWINF + MR_RESP}]
RasResponds(resp) == (resp.cmd & MR_RESP) # 0

is_enabled(name, settings) == name \in settings

\* [t for t in from_dict.values() if ... target == target and is_enabled]:
\* dictOrder is the order in which globals().values() yields the classes
filter_tests(reg, target, settings, dictOrder) ==
    SelectSeq(dictOrder, LAMBDA c : reg[c].target = target
                                    /\ is_enabled(reg[c].name, settings))

\* sorted(..., key=OptionalTest.get_order): a stable sort on _order
\* (insertion of each class after every class of smaller or equal _order)
RECURSIVE InsertByOrder(_, _, _)
InsertByOrder(reg, s, c) ==
    IF s = <<>> \/ reg[c].order < reg[Head(s)].order THEN <<c>> \o s
    ELSE <<Head(s)>> \o InsertByOrder(reg, Tail(s), c)

SortedByOrder(reg, s) == FoldLeft(LAMBDA acc, c : InsertByOrder(reg, acc, c), <<>>, s)

=============================================================================
