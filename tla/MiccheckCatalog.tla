--------------------------- MODULE MiccheckCatalog ---------------------------
(***************************************************************************)
(* pltfm.get_all_tests(settings) (linux/tests.py or windows/tests.py, as  *)
(* sys.platform picks in common/main.py), after parse_command_line and    *)
(* enable_firmware_tests have set the attributes of settings from the     *)
(* command-line flags. On Windows FAMILY is the card family on PCI.       *)
(*                                                                         *)
(* The order in which globals().values() yields the classes is not fixed  *)
(* by the program (a dict of the module's names), so it is any order of   *)
(* the classes that pass filter_tests; the order of the others never      *)
(* shows.                                                                  *)
(***************************************************************************)
EXTENDS MiccheckTestBase

CONSTANTS
    TOTAL_MICS,     \* devices on PCI
    NDevices        \* len(settings.device)

L == INSTANCE MiccheckLinuxTests
W(f) == INSTANCE MiccheckWindowsTests WITH FAMILY <- f

\* the platforms and the families their catalogs support
Platforms == {"linux", "windows"}
Families(p) == IF p = "linux" THEN {"knl"} ELSE {"knc", "knl"}

Registry(p) == IF p = "linux" THEN L!Registry ELSE W("knl")!Registry
RegistrationOrder(p) == IF p = "linux" THEN L!RegistrationOrder ELSE W("knl")!RegistrationOrder
CliFlags(p) == IF p = "linux" THEN L!CliFlags ELSE W("knl")!CliFlags
Settings(p, flags) == IF p = "linux" THEN L!Settings(flags) ELSE W("knl")!Settings(flags)

VARIABLES
    platform,           \* sys.platform
    family,             \* FAMILY
    version,            \* --version: main prints the banner and returns 0
    flags,              \* the optional-test flags given on the command line
    dictOrder,          \* iteration order of globals().values()
    catalog             \* the four lists get_all_tests returns

vars == <<platform, family, version, flags, dictOrder, catalog>>

Passing(p, settings) ==
    {c \in DOMAIN Registry(p) : Registry(p)[c].target \in {Host, Device}
                                /\ is_enabled(Registry(p)[c].name, settings)}

None == [dh |-> <<>>, oh |-> <<>>, dd |-> <<>>, od |-> <<>>, done |-> FALSE]

TypeOK ==
    LET Classes == DOMAIN Registry(platform) IN
    /\ platform \in Platforms /\ family \in Families(platform)
    /\ version \in BOOLEAN /\ flags \subseteq CliFlags(platform)
    /\ dictOrder \in Seq(Classes)
    /\ catalog.done \in BOOLEAN
    /\ catalog.dh \in Seq(Classes) /\ catalog.oh \in Seq(Classes)
    /\ catalog.done => /\ catalog.dd \in [1 .. NDevices -> Seq(Classes)]
                       /\ catalog.od \in [1 .. NDevices -> Seq(Classes)] \cup {<<>>}

Init ==
    /\ platform \in Platforms /\ family \in Families(platform)
    /\ version \in BOOLEAN /\ flags \in SUBSET CliFlags(platform)
    /\ dictOrder \in SetToSeqs(Passing(platform, Settings(platform, flags)))
    /\ catalog = None

\* get_all_tests of the module sys.platform imported; main reaches it only
\* without --version
get_all_tests ==
    LET s == Settings(platform, flags)
        lists ==
          IF platform = "linux"
          THEN [dh |-> L!get_default_host_tests,
                oh |-> L!get_optional_host_tests(s, dictOrder),
                dd |-> L!get_default_device_tests(NDevices),
                od |-> L!get_optional_device_tests(s, dictOrder, NDevices),
                done |-> TRUE]
          ELSE [dh |-> W(family)!get_default_host_tests,
                oh |-> W(family)!get_optional_host_tests(s, dictOrder),
                dd |-> W(family)!get_default_device_tests(NDevices),
                od |-> W(family)!get_optional_device_tests(s, dictOrder, NDevices),
                done |-> TRUE]
    IN /\ ~version /\ ~catalog.done /\ catalog' = lists
       /\ UNCHANGED <<platform, family, version, flags, dictOrder>>

Spec == Init /\ [][get_all_tests]_vars

(***************************************************************************)
(* spec.md 4.2: filterEnabled(scope, enabled) returns every registered    *)
(* check of that scope whose name is enabled, sorted ascending by         *)
(* orderKey, equal keys in the order the checks were registered.          *)
(***************************************************************************)
SpecFilterEnabled(p, scope, settings) ==
    LET reg == Registry(p)
        ro == RegistrationOrder(p)
        idx(c) == CHOOSE k \in DOMAIN ro : ro[k] = c
    IN SortSeq(SelectSeq(ro, LAMBDA c : reg[c].target = scope
                                        /\ is_enabled(reg[c].name, settings)),
               LAMBDA a, b : \/ reg[a].order < reg[b].order
                             \/ reg[a].order = reg[b].order /\ idx(a) < idx(b))

\* The optional lists TestRunner receives are exactly spec.md 4.2's, on
\* each platform, for every combination of flags and every iteration order
\* of globals(): the sort on _order removes the dict order, and the
\* doptionals_enabled / _optionals_enabled gate drops nothing the flags
\* enabled.
CatalogMatchesSpec ==
    catalog.done =>
        LET s == Settings(platform, flags) IN
        /\ catalog.oh = SpecFilterEnabled(platform, Host, s)
        /\ \A v \in 1 .. NDevices :
             (IF catalog.od = <<>> THEN <<>> ELSE catalog.od[v])
                = SpecFilterEnabled(platform, Device, s)

=============================================================================
