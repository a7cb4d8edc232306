------------------------ MODULE MiccheckWindowsTests ------------------------
(***************************************************************************)
(* The Windows test catalog of miccheck (windows/tests.py): the classes   *)
(* of the module's globals() as records, as in MiccheckLinuxTests, and the *)
(* get_*_tests functions. Every probe reads WMI (pywintypes.com_error,     *)
(* KeyError on a missing node_id) or loads uSCIF.dll (WindowsError);       *)
(* only _num_mics_wmi catches, and only com_error.                         *)
(***************************************************************************)
EXTENDS MiccheckTestBase

CONSTANTS
    TOTAL_MICS,     \* FAMILY, TOTAL_MICS = _num_mics_pci()
    FAMILY          \* "knc", "knl", or "" when no device is on PCI

MayRaise == {"pass", "failed", "error"}
FailOnly == {"pass", "failed"}

PciDevicesTest ==
    Class("PCI_CARD_COUNT", Host, Unset, FALSE,
          IF TOTAL_MICS < 1 THEN {"failed"} ELSE {"pass"})

\* _num_mics_wmi turns com_error into 0 devices
WmiDevicesTest == Class("DRIVER_CARD_COUNT", Host, Unset, FALSE, FailOnly)
MicDriverTest == Class("DRIVER_LOADED", Host, Unset, FALSE, FailOnly)

\* no option has dest driver_version: the class is never enabled
DriverVersionTest == Class("DRIVER_VERSION", Host, 0, TRUE, MayRaise)

StateTest == Class("STATE_POST", Device, Unset, FALSE, MayRaise)

\* ctests.RasTest / SystoolsdTest: ScifError is converted, the CDLL load
\* of uSCIF.dll is not
RasTest == Class("RAS", Device, Unset, FALSE, ScifProbeEnds({RasResponds(r) : r \in RasResponses}))
SystoolsdTest ==
    Class("SYSTOOLSD", Device, Unset, FALSE, ScifProbeEnds({SystoolsdResponds(r) : r \in SystoolsdResponses}))

\* _get_wmi_mic_instances()[dev_num]; FABS[mic.fab_version]
BiosVersionTest == Class("BIOS_VERSION", Device, 0, TRUE, MayRaise)
SmcVersionTest == Class("SMC_VERSION", Device, 1, TRUE, MayRaise)
MEVersionTest == Class("ME_VERSION", Device, 2, TRUE, MayRaise)
NTBEEPROMVersionTest == Class("NTBEEPROM_VERSION", Device, 3, TRUE, MayRaise)

\* OSError (no ping) becomes ExecProgramException, a failed ping
\* FailedTestException
PingTest == Class("PING", Device, 4, TRUE, MayRaise)

\* the @testattrs classes in the order windows/tests.py declares them
RegistrationOrder ==
    <<"PciDevicesTest", "WmiDevicesTest", "MicDriverTest", "DriverVersionTest",
      "StateTest", "RasTest", "SystoolsdTest", "BiosVersionTest",
      "SmcVersionTest", "MEVersionTest", "NTBEEPROMVersionTest", "PingTest">>

Registry ==
       ("PciDevicesTest" :> PciDevicesTest)
    @@ ("WmiDevicesTest" :> WmiDevicesTest)
    @@ ("MicDriverTest" :> MicDriverTest)
    @@ ("DriverVersionTest" :> DriverVersionTest)
    @@ ("StateTest" :> StateTest)
    @@ ("RasTest" :> RasTest)
    @@ ("SystoolsdTest" :> SystoolsdTest)
    @@ ("BiosVersionTest" :> BiosVersionTest)
    @@ ("SmcVersionTest" :> SmcVersionTest)
    @@ ("MEVersionTest" :> MEVersionTest)
    @@ ("NTBEEPROMVersionTest" :> NTBEEPROMVersionTest)
    @@ ("PingTest" :> PingTest)

\* --ssh, --coi and --devicehost are added only when platform.system() is
\* "Linux"
CliFlags == {"firmware", "ping"}

Settings(flags) ==
    (flags \cap {"ping"})
    \cup (IF "firmware" \in flags
          THEN {get_test_name(t) : t \in {"BIOS_VERSION", "SMC_VERSION", "ME_VERSION",
                                           "NTBEEPROM_VERSION"}}
          ELSE {})

OPTIONAL_TESTS ==
    {get_test_name(t) : t \in {"PING", "BIOS_VERSION", "SMC_VERSION", "ME_VERSION", "NTBEEPROM_VERSION"}}

\* any(getattr(settings, opt, None) for opt in OPTIONAL_TESTS)
optionals_enabled(settings) == OPTIONAL_TESTS \cap settings # {}

get_default_host_tests == <<"PciDevicesTest", "MicDriverTest", "WmiDevicesTest">>

get_optional_host_tests(settings, dictOrder) ==
    SortedByOrder(Registry, filter_tests(Registry, Host, settings, dictOrder))

\* the classes follow FAMILY; one list of fresh instances per device
get_default_device_tests(ndevices) ==
    LET classes == CASE FAMILY = "knc" -> <<"StateTest", "RasTest">>
                     [] FAMILY = "knl" -> <<"StateTest", "SystoolsdTest">>
                     [] OTHER -> <<>>
    IN [v \in 1 .. ndevices |-> classes]

\* mutant: the sort applied to the first device's list only
get_optional_device_tests_FirstSorted(settings, dictOrder, ndevices) ==
    IF ~optionals_enabled(settings) THEN <<>>
    ELSE [v \in 1 .. ndevices |->
            IF v = 1 THEN SortedByOrder(Registry, filter_tests(Registry, Device, settings, dictOrder))
            ELSE filter_tests(Registry, Device, settings, dictOrder)]

get_optional_device_tests(settings, dictOrder, ndevices) ==
    IF ~optionals_enabled(settings) THEN <<>>
    ELSE [v \in 1 .. ndevices |->
            SortedByOrder(Registry, filter_tests(Registry, Device, settings, dictOrder))]

=============================================================================
