------------------------- MODULE MiccheckLinuxTests -------------------------
(***************************************************************************)
(* The Linux test catalog of miccheck (linux/tests.py) and the selection  *)
(* helpers it uses (common/base.py, the option dests of common/main.py).   *)
(*                                                                         *)
(* Every MiccheckTest subclass in the module's globals() is a record: the *)
(* attributes @testattrs gives it (name, target, _order), whether it is an *)
(* OptionalTest (has get_order), and how its _run may end:                 *)
(*   "pass"   it returns,                                                  *)
(*   "failed" it raises FailedTestException,                               *)
(*   "error"  it raises anything else (IOError, OSError, KeyError, or     *)
(*            ExecProgramException, which the code never converts).       *)
(* A class without @testattrs has target "" (getattr(t, "target", "")).   *)
(***************************************************************************)
EXTENDS MiccheckTestBase

CONSTANT TOTAL_MICS     \* FAMILY, TOTAL_MICS = _num_mics_pci(): KNL devices on PCI

\* the reads of sysfs / procfs that may raise IOError or OSError
MayRaise == {"pass", "failed", "error"}
FailOnly == {"pass", "failed"}

PciDevicesTest ==
    Class("PCI_CARD_COUNT", Host, Unset, FALSE,
          IF TOTAL_MICS < 1 THEN {"failed"} ELSE {"pass"})

\* os.listdir("/sys/class/mic") raises OSError, which is not the caught ValueError
ScifDevicesTest == Class("DRIVER_CARD_COUNT", Host, Unset, FALSE, MayRaise)

\* open("/proc/modules") is not guarded
KnlDriversTest == Class("DRIVER_LOADED", Host, Unset, FALSE, MayRaise)

\* __new__ returns KnlDriversTest(): the same attributes and probe
MicDriverTest == KnlDriversTest

\* IOError of a vanishing /proc/<pid> is caught per process
MpssRunTest == Class("MPSS_DAEMON", Host, Unset, FALSE, FailOnly)

\* two unguarded sysfs reads before the checks
KnlStateTest == Class("STATE_POST", Device, Unset, FALSE, MayRaise)

\* ctests.SystoolsdTest over libscif.so.0
SystoolsdTest ==
    Class("SYSTOOLSD", Device, Unset, FALSE, ScifProbeEnds({SystoolsdResponds(r) : r \in SystoolsdResponses}))

\* classes without @testattrs
DeviceStateTest == Untagged
DaemonTest == Untagged

\* IOError is converted
BiosVersionTest == Class("BIOS_VERSION", Device, 0, TRUE, FailOnly)

\* FABS[...] and expected_versions[card_fab] raise KeyError
SmcVersionTest == Class("SMC_VERSION", Device, 1, TRUE, MayRaise)

MEVersionTest == Class("ME_VERSION", Device, 2, TRUE, FailOnly)

NTBEEPROMVersionTest == Class("NTBEEPROM_VERSION", Device, 3, TRUE, MayRaise)

\* OSError (no /bin/ping) is turned into ExecProgramException
PingTest == Class("PING", Device, 4, TRUE, MayRaise)

SshTest == Class("SSH", Device, 5, TRUE, MayRaise)

\* runs SshTest().run first, then its own ssh command
CoiTest == Class("COI", Device, 6, TRUE, SshTest.outcomes \cup MayRaise)

\* the @testattrs classes in the order linux/tests.py declares them
RegistrationOrder ==
    <<"PciDevicesTest", "ScifDevicesTest", "KnlDriversTest", "MicDriverTest",
      "MpssRunTest", "KnlStateTest", "SystoolsdTest", "BiosVersionTest",
      "SmcVersionTest", "MEVersionTest", "NTBEEPROMVersionTest", "PingTest",
      "SshTest", "CoiTest">>

\* the MiccheckTest subclasses among globals(), by class name
Registry ==
       ("PciDevicesTest" :> PciDevicesTest)
    @@ ("ScifDevicesTest" :> ScifDevicesTest)
    @@ ("KnlDriversTest" :> KnlDriversTest)
    @@ ("MicDriverTest" :> MicDriverTest)
    @@ ("MpssRunTest" :> MpssRunTest)
    @@ ("KnlStateTest" :> KnlStateTest)
    @@ ("DeviceStateTest" :> DeviceStateTest)
    @@ ("SystoolsdTest" :> SystoolsdTest)
    @@ ("DaemonTest" :> DaemonTest)
    @@ ("BiosVersionTest" :> BiosVersionTest)
    @@ ("SmcVersionTest" :> SmcVersionTest)
    @@ ("MEVersionTest" :> MEVersionTest)
    @@ ("NTBEEPROMVersionTest" :> NTBEEPROMVersionTest)
    @@ ("PingTest" :> PingTest)
    @@ ("SshTest" :> SshTest)
    @@ ("CoiTest" :> CoiTest)

(***************************************************************************)
(* Settings: the attributes optparse and enable_firmware_tests set.       *)
(***************************************************************************)
CliFlags == {"firmware", "ping", "ssh", "coi"}

\* -p/--ssh/-c store into dest ping/ssh/coi; -f sets the four firmware names
Settings(flags) ==
    (flags \cap {"ping", "ssh", "coi"})
    \cup (IF "firmware" \in flags
          THEN {get_test_name(t) : t \in {"BIOS_VERSION", "SMC_VERSION", "ME_VERSION",
                                           "NTBEEPROM_VERSION"}}
          ELSE {})

\* mutant: the list names only the network tests
OPTIONAL_TESTS_NetworkOnly == {"ping", "ssh", "coi"}

OPTIONAL_TESTS == {get_test_name(t) : t \in {"PING", "SSH", "COI", "BIOS_VERSION", "SMC_VERSION"}}

doptionals_enabled(settings) == OPTIONAL_TESTS \cap settings # {}

get_default_host_tests ==
    <<"PciDevicesTest", "MicDriverTest", "ScifDevicesTest", "MpssRunTest">>

get_optional_host_tests(settings, dictOrder) ==
    SortedByOrder(Registry, filter_tests(Registry, Host, settings, dictOrder))

\* mutant: one list for all devices, [t() for t in classes]
get_default_device_tests_Shared(ndevices) == <<"KnlStateTest", "SystoolsdTest">>

\* one list per device; DeviceStateTest() and DaemonTest() build
\* KnlStateTest and SystoolsdTest instances
get_default_device_tests(ndevices) ==
    [v \in 1 .. ndevices |-> <<"KnlStateTest", "SystoolsdTest">>]

\* mutant: the classes in the order filter_tests yields them, unsorted
get_optional_device_tests_Unsorted(settings, dictOrder, ndevices) ==
    IF ~doptionals_enabled(settings) THEN <<>>
    ELSE [v \in 1 .. ndevices |-> filter_tests(Registry, Device, settings, dictOrder)]

get_optional_device_tests(settings, dictOrder, ndevices) ==
    IF ~doptionals_enabled(settings) THEN <<>>
    ELSE [v \in 1 .. ndevices |->
            SortedByOrder(Registry, filter_tests(Registry, Device, settings, dictOrder))]

=============================================================================
