# TLA+ models of the MPSS system tools (miccheck, micbios, micflash)

This directory holds TLA+ modules and TLC configurations for the Python
system tools in `src/mpss4/mpss-systools/apps/`. It models
`miccheck` (its run order and exit status decide whether a host is reported
healthy, and its test catalog decides what is run) and `micbios` (its
settings word and its device-by-device requests to the card daemon) and
`micflash` (the `micfw` command line it builds from its options, and its
exit status).

## The system

| Part | Source | What it does | State that changes |
|---|---|---|---|
| TestRunner | `miccheck/_miccheck/common/testrunner.py` | Runs the default host tests, then the optional host tests, then per device the default and optional device tests. Fail-fast rules apply. It raises at the end if any test failed. | the status of each test instance; the flags `optional_host_fail`, `device_failed`, `inner_device_failed`; the loop position |
| MiccheckTest | `common/base.py` | `run()` sets the status to PASS, or to FAIL and re-raises. | `status` of each test instance |
| DeviceSelector | `common/main.py` `select_devices`, `set_hostnames` | Expands `--device` (`all`, `micN`, `micA-micB`) into device objects. | the device list in `settings.device` |
| TestCatalog | `common/base.py` `testattrs`, `linux/tests.py`/`windows/tests.py` `get_*_tests` | The registry of tests, filtered by enable flags and sorted by `order`. | none after start-up; the result is the four lists given to TestRunner |
| Probes | `linux/tests.py`, `windows/tests.py`, `common/tests.py` | Each test reads sysfs, WMI or /proc, or runs ping/ssh/SCIF. | none, except what they raise |
| main | `common/main.py` `main` | Parses the options, selects devices, builds the runner and maps the outcome to exit status 0/1. | the exit status |
| micbios | `micbios/_micbios/*.py` | Reads and writes BIOS settings through the systools daemon over SCIF, device by device. | the settings of the cards |
| micflash | `micfw/scripts/micflash.py` | Turns options into `micfw` commands. | none (it only runs commands) |

How the parts interact: `main` calls `select_devices`, then
`get_all_tests`, then `TestRunner(*tests).run(devices)`. The runner calls
`MiccheckTest.run` on each test. That calls the probe's `_run`. The probe
returns or raises. The runner turns what was raised into the overall verdict,
and `main` turns the verdict into the exit status.

Behaviours that are hard to test and that the models reach:
- which exception a probe raises decides how far a run gets. Only
  `FailedTestException` is caught per device (testrunner.py:78);
- the per-device flag `inner_device_failed` decides whether a device's
  optional tests run;
- the order of the two verdict checks at the end of `run`;
- the iteration order of a CPython 2 `set`, which `select_devices` returns
  as the device order;
- the boundary checks of the device expansion.

## Modules

| Module | Models | Kind |
|---|---|---|
| `MiccheckRunSpec` | What one miccheck run promises (spec.md 4.4 and 7), with the whole run as one step. | abstract spec |
| `MiccheckRunner` | `TestRunner.run`, `MiccheckTest.run` and `main`'s exit status. | detailed spec, refines `MiccheckRunSpec` |
| `MCMiccheckRunner` | Sets the constants for TLC. | MC module |
| `MiccheckSelect` | `select_devices`, including the CPython 2 set it returns through, then `set_hostnames`, as in `main`'s setup. | operators plus a two-step machine |
| `MCMiccheckSelect` | Sets the constants for TLC. | MC module |
| `MiccheckTestBase` | What both catalogs share: `target_host`/`target_device`, the attributes `@testattrs` sets, `is_enabled`, `filter_tests` and the stable sort on `_order`, over a registry given as argument. | operators |
| `MiccheckLinuxTests` | The Linux test classes of `linux/tests.py` as records, their declaration order, `doptionals_enabled` and the `get_*_tests` functions. | operators |
| `MiccheckWindowsTests` | The same for `windows/tests.py`, with the card family `FAMILY` as a constant: `get_default_device_tests` follows it. | operators |
| `MiccheckCatalog` | `get_all_tests` of the platform module `main` imports, after the command-line flags have set `settings`, for every iteration order of `globals()`. | one-step machine, checked against spec.md 4.2 |
| `MCMiccheckCatalog` | Sets the constants for TLC. | MC module |
| `MCMiccheckLinuxRun` | Composes `MiccheckRunner` with the catalog: the four test lists and the way each test may end come from `MiccheckLinuxTests`. | MC module composing two components |
| `MicbiosSettings` | `Shifts`, `Properties`, `SyscfgSettings` (decode, encode, display) and the mode and property tables of the Set* and Getinfo actions, over a card that keeps the settings word. The inputs are the subparsers and choices of `parsermb.py`, looked up through `validators`, commandsmb's subclasses and `Micbios.actions`, as `micbios.py` `main` does. | operators plus a machine |
| `MCMicbiosSettings` | Sets the constants for TLC. | MC module |
| `MicbiosApp` | One micbios invocation: `expand_devices`, the online check, and the `MicBiosReq` of each device with its SCIF calls, the bind loop, the recv retry and the daemon's answers. | state machine |
| `MCMicbiosApp` | Sets the constants for TLC. | MC module |
| `MicflashDispatch` | `micflash.py`: `main`'s choice, `validate_multiple_options`, `getversion`, `update`, `verbose` and `execute`. | operators plus a two-step machine |
| `MCMicflashDispatch` | Sets the constants for TLC. | MC module |

### MiccheckRunner

Constants:
- `NumDH`, `NumOH`: the number of default and optional host tests;
- `NumDev`: the number of devices;
- `NumDD`, `NumOD`: the number of default and optional tests of each
  device;
- `Outcomes`: how a probe may end. `"pass"` means it returned.
  `"failed"` means `FailedTestException`. `"error"` means any other
  exception: an `IOError` from a sysfs read, a `KeyError` from a parsed
  table, or an `ExecProgramException`. The two runner runs use the unit
  tests' doubles of `ut/utils.py`: every test is a `FakePassTest`
  (`{"pass"}`) or a `FakeFailTest` (`{"failed"}`), and in the second run
  may also be a `_run` patched with `raiser` (`{"error"}`).

Variables:
- `dh`, `oh`, `dd`, `od`: the `status` attribute of each test instance.
  Device tests are instantiated once per device, so `dd[v][k]` is a separate
  instance;
- `pc`, `i`, `d`: the loop and the position in it;
- `optional_host_fail`, `device_failed`, `inner_device_failed`: the
  runner's flags;
- `exc`: what `run` raised, or `"none"`;
- `num`, `lines`: `_num_tests_run` and the report lines printed so far,
  each the test it names, the number it carries, and whether it went to
  `p_out` (status PASS) or `p_err`.

One action per step of `run`:
- `RunDefaultHostTest`, `EndDefaultHost`;
- `RunOptionalHostTest`, `EndOptionalHost`;
- `NextDevice`;
- `RunDefaultDeviceTest`, `EndDefaultDevice`;
- `DeviceCheck` (the `if inner_device_failed or not self._optional_device_tests` line);
- `RunOptionalDeviceTest`, `EndOptionalDevice`;
- `Finish` (the two verdict checks).

Each test action includes `MiccheckTest.run`'s status update
(`StatusAfter`) and `_run`'s `finally` (`Report`): the line is formatted
with the counter before the test runs, and the counter advance and the
print happen whether the test returned or raised. The code prints one
combined line per test ("Test n: ... ... pass"), where spec.md 65
describes a progress line and an outcome line; spec.md 77 ("one line per
executed check") matches the code, and `ReportOneLinePerTest` checks it.
It also includes the `except` clause of the loop that
catches, or the escape of the exception out of `run`. `ExitStatus` is
`main`'s `status`.

The refinement mapping shows the statuses only once `pc = "done"`. The
abstract spec takes the whole run as one step. The verdict maps from `exc`.

### MiccheckSelect

`SelectDevices(toks)` translates `select_devices`. It rejects `all` inside a
list and tokens that fail the regex. `Expand` is the expansion loop: the
out-of-range check comes first, then the reversed-range check, then the
append. The last step is `SetIterOrder`, the slot order of the set's hash
table. A token is a record: `[kind |-> "mic", n |-> 3]`,
`[kind |-> "range", a, b]`, `all`, or `bad` (anything the regex rejects).
The input is every list of up to `MaxTokens` tokens.

`set_hostnames(maps, devs)` comes next: `SetHostnames` runs it after a
selection that was accepted, as `main` does. A `--devicehost` element is
either `bad` (the regex rejects it) or `[n, pad, host]`. `pad = 1` is the
number written with a leading zero (`mic08`). `Fill` is the loop that
builds the dict. Its duplicate check compares the names as written, and its
existence check compares their `int()`. The lookup by `device.name` then
uses only the unpadded name. So `mic08:h` passes both checks and is never
applied: mic8 keeps its own name, and ping and ssh address it under that.
TLC shows this. It is listed as a hazard, and `HostnamesSound` states only
what holds: mappings written in the form the option's help gives are
checked and applied exactly.

### MiccheckCatalog

Each test class is a record with the attributes `@testattrs` gives it
(`name`, `target`, `order`; the name is `get_test_name` of its type
constant, through `TEST_NAMES` of testtypes.py, as are the option dests
and `OPTIONAL_TESTS`), whether it is an `OptionalTest`, and the set of
ways its `_run` may end. That set is read off the probe body: a probe whose
sysfs reads are unguarded may raise `"error"`. `Init` picks the flags and an
order of `globals().values()`. The order is any permutation, since the
program does not fix it. `get_all_tests` builds the four lists in one step.
`sorted(key=get_order)` is a stable insertion sort (`InsertByOrder`).
`Init` also picks the platform and, on Windows, the family (`knc` or
`knl`). The Linux module supports KNL only. The option set depends on the
platform: `--ssh` and `--coi` exist only on Linux. On Windows,
`DriverVersionTest` is an optional host test that no option enables, so
the optional host list there is always empty. That agrees with spec.md 4.2,
since no configuration names it. The variable `version` is `--version`:
`main` prints the banner and returns 0 before `get_all_tests`, so no list
is built.

The SCIF probes (`SystoolsdTest` on both platforms, `RasTest` on Windows)
have their end set computed from `common/tests.py` by `ScifProbeEnds`:
`_get_libscif` failing to load the library raises `OSError` (`"error"`);
a -1 from `scif_open`, `scif_connect`, `scif_send` or `scif_recv` raises
`ScifError`, a `FailedTestException` (`"failed"`); otherwise the answer's
header decides: a zero `length` for systoolsd, a `cmd` without the
`MR_RESP` bit for RAS (`"failed"`), else `"pass"`.

`MCMiccheckLinuxRun` feeds the lists that `--ping` gives on two devices,
and their outcome sets, into `MiccheckRunner` through the `Outcome`
constant operator.

### MicbiosSettings

The decode `SyscfgSettings(value)` is `(value >> shift) & mask` per field.
The encode `set_mode` is `0 | mode << shift`. `setting_by_name` reads a
field through its own `*_config_name` table. `apei-table` reads through
`apei_ffm_config_name`, as in the code. The card is not in this repository.
It is modelled as keeping one 17-bit word and, on a write of a property,
taking the bits spec.md 6 gives that property from the word sent
(`DaemonWrite`). The machine sends up to `MaxWrites` set commands and any
number of getinfo commands.

Each step is one invocation of `main`. `SetCommand(sub, m)` takes a
subparser name and one of its `mode` choices. `GetinfoCommand(b)` takes a
`biossetting` choice. The name then goes through four tables, each kept by
hand and keyed by the strings of `Subcommandsmb`: `validators`,
`MicBiosCommands.factory`'s `classes_dict`, `Micbios.actions` and the
action's `mapper`. A name missing from any of them is a `KeyError`, which
`main` does not catch (`KeyErrorExit`): nothing is sent, and the status
is 1.

### MicbiosApp

Variables and the code they stand for:
- `action`, `toks`: the subcommand and its device list;
- `online`, `pwd`, `setting`, `reqs`: the cards. `reqs` counts the
  requests each card's daemon received;
- `devs`: `self.devices`;
- `d`, `step`: the device loop and the position in the calls of its
  `MicBiosReq`;
- `port`: the bind loop;
- `retried`: the one retry of `recv`;
- `verdict`: the `card_errno` the daemon will answer with;
- `got`: getinfo's `mb_settings`;
- `exit`: main's status;
- `runs`, `start`: the invocations so far, and the cards' passwords when
  the current one began.

`Rerun` is the same command line run again after status 1. It is a new
process, so every variable of `main` starts over. The cards keep their
passwords and settings. This is the way a partly applied set-pass meets
the next invocation.

A device name is `[n, pad]`. `pad = 1` is the same number written with a
leading zero, so it is a different string. Actions:
- `Parse`: `utils.expand_devices`;
- `CheckOnline`: `SyscfgAction.__init__`;
- `ScifCall`: `_open`, `_connect` and `send`;
- `bind`: `_bind`'s port loop;
- `send_req`: the send of the `_MicBiosRequest`. The daemon acts on it;
- `send_pwd`: the new password of `passwd_req`;
- `recv`: `scif_recv` returned -1, so it retries once and raises the
  second time;
- `Received`: the record arrived and its `card_errno` is checked;
- `Finish`: the loop is over, and main returns None, which is status 0.

Any failure is `Abort`: a `MicBiosError` out of main, status 1.

### MicflashDispatch

An option value is a record:
- `"empty"`: the argparse default, used when the option is not given;
- `"none"`: the option given with no value (`nargs='?'`);
- a path: a sequence of blank-separated words.

`Truthy` is Python truth, under which only `"none"` is false.
`Init` picks any `Options` record. That is every result `parse_args` can
give. Each command builder is an IF/ELSE chain in the order of the code's
`if`/`elif` chain. A command line is what the shell makes of the string:
a sequence of arguments, each a sequence of words. `Quoted(p)` is one
argument. `Words(p)` gives one argument per word, as unquoted text does.
Actions:
- `Dispatch`: `main`. It ends the invocation with the help or an error,
  or passes the command to `execute`;
- `execute`: `Popen(..., shell=True)`. micfw returns 0, 1 or 2, and 2
  prints the help. `main` then returns None, which is status 0.

## Runs

| Run | Config | Expect | What it shows |
|---|---|---|---|
| `runner_core` | `MCMiccheckRunner.cfg` | pass | Probes may return or raise `FailedTestException`. Then the runner implements `MiccheckRunSpec` (`RunSpec`, including that the run ends). Its state space is contained in `runner_probe_errors`', so the runner's invariants are checked there only. |
| `runner_probe_errors` | `MCMiccheckRunnerErrors.cfg` | pass | Probes may also raise other exceptions. Optional tests of a device run exactly when its default tests passed (`OptionalRunIffDefaultsPassed`). A status, once set, never changes (`StatusNeverReverts`). The exit status is 0 exactly when every executed test passed (`ExitStatusSound`). The report has one line per executed test, numbered 0, 1, ... without gap or repeat, on stdout exactly when the test passed (`ReportOneLinePerTest`). |
| `runner_device_isolation` | `MCMiccheckLinuxRun.cfg` | violation | `DeviceIsolation`: if the default host tests pass, every device is processed. With the real Linux catalog, `KnlStateTest` on device 1 raises an `IOError` from an unguarded sysfs read, and device 2 is never tested. |
| `catalog` | `MCMiccheckCatalog.cfg` | pass | On Linux and on Windows with either family, for every flag combination and every `globals()` order, the optional lists are exactly spec.md 4.2's filterEnabled: sorted by order, registration order on ties, nothing enabled dropped by the `doptionals_enabled` gate (`CatalogMatchesSpec`). |
| `select_core` | `MCMiccheckSelect.cfg` | pass | An accepted selection is exactly the named devices, each once, all detected (`SelectionSound`). A rejection is one the spec makes, or a reversed range (`RejectionJustified`). `set_hostnames` rejects exactly the malformed, duplicate and undetected mappings, and gives each device the host of its one mapping (`HostnamesSound`). |
| `select_order` | `MCMiccheckSelectOrder.cfg` | violation | `SelectionAscending`: `mic4-mic8` on a host with 9 devices comes out as 8,4,5,6,7. |
| `micbios_settings` | `MCMicbiosSettings.cfg` | pass | Every command line argparse accepts gets through the four tables (`ParsedCommandsDispatch`). Every word a Set* action sends has its mode in exactly that field's bits and decodes back to it (`WordRoundTrip`). After any sequence of sets, getinfo shows the name of the mode last set for that setting (`GetinfoShowsLastSet`), read through the property id the setting's Set* action writes (`GetinfoReadsWhatSetWrites`). |
| `micbios_app` | `MCMicbiosApp.cfg` | pass | On Linux with SCIF calls returning -1 and daemon errors: an offline card means no card gets a request (`OfflineMeansUntouched`). Cards are served strictly in list order up to the failure, and status 0 means all were served (`PrefixApplied`). No card gets two requests (`EachDeviceRequestedOnce`). set-pass succeeds only when every listed card had the old password at the start of the invocation, so after a set-pass that failed on a later card, the rerun fails (`SetpassSuccessNeedsOldPass`). Every invocation ends (`Termination`). |
| `micbios_windows_duplicate` | `MCMicbiosAppWindows.cfg` | violation | `EachDeviceRequestedOnce`: `mic0,mic00` keeps two names for card 0, the Windows lookup is by number, and card 0 receives two requests. |
| `micflash_dispatch` | `MCMicflashDispatch.cfg` | pass | With one-word paths: micfw update runs only when `-update` was given (`GetversionNeverUpdates`). It flashes the named device, or all when none is named (`UpdateOnlyNamedDevice`). `-v` runs the same command as without it, plus `-v` (`VerboseSameCommand`). |
| `micflash_verbose_quoting` | `MCMicflashQuoting.cfg` | violation | `VerboseSameCommand`: with the path `my fw.img`, `verbose` passes `my` and `fw.img` as two arguments, where `update` quotes it as one. |
| `micflash_exit_status` | `MCMicflashExit.cfg` | violation | `ExitReflectsMicfw`: micfw returns 1 and micflash still exits 0. |

Every property of a passing run has a mutant in `PROJECT.json`: a plausible
bug in a mapped definition that TLC then catches.

## Findings

Each violation run shows one disagreement between the code and what spec.md or a docstring says:

- `runner_device_isolation` (spec_code_divergence, `miccheck/_miccheck/common/testrunner.py:78`): The device loops catch only ex.FailedTestException. MiccheckTest.run re-raises whatever _run raised, and KnlStateTest reads sysfs with no try (linux/tests.py:232), so an IOError from device k ends TestRunner.run and devices k+1.. are never tested. spec.md 4.4.3d and 7 say a device failure never blocks the next device and a probe error never propagates past one test.
- `select_order` (spec_code_divergence, `miccheck/_miccheck/common/main.py:151`): select_devices returns [DeviceInfo(d) for d in set(expanded_list)]. A CPython 2 set iterates in slot order, so with 9 or more devices 'mic4-mic8' yields 8,4,5,6,7. spec.md 4.1 and 8 say the result is sorted ascending. micbios sorts after its set() (utils.py:73); miccheck does not.
- `micbios_windows_duplicate` (code_bug, `micbios/_micbios/utils.py:72`): _expand_devices removes duplicates by name string, so 'mic0,mic00' keeps both names, while the Windows device is looked up by number: card 0 receives two requests (a second set-pass then fails with 'Invalid password.' after the first changed it). spec.md 8 says the expansion of a device expression is duplicate-free.
- `micflash_verbose_quoting` (code_bug, `micfw/scripts/micflash.py:84`): getversion and update put the image path in double quotes; verbose does not, so a path with a blank reaches micfw as two arguments under -v.
- `micflash_exit_status` (spec_code_divergence, `micfw/scripts/micflash.py:30`): execute ignores micfw's return code except for printing the help on 2, and main returns None, so micflash exits 0 when micfw failed. spec.md 6 says the status is nonzero on failure.

`select_devices` also rejects a reversed range `micA-micB` with A > B
(main.py:135), where spec.md 4.1 swaps the bounds and micbios does. The
`select_core` run accepts that rejection in `RejectionJustified` and states
the divergence in the hazard list rather than in a run of its own.

## Bounds

- Runner: 2 default and 2 optional host tests, 3 devices with 2 default and
  2 optional tests each. Two tests per list are the fewest that show "stop
  at the first failure" (one test before and one after). Three devices show
  a failing device between two others, so a flag that leaks from one device
  to the next is caught.
- Select: 9 devices and numbers 0..9 in tokens. A device count of 8 or
  fewer can never show the set order problem: each ordinal n < 8 sits in
  slot n of the 8-slot table. From 9 on, 8 and 0 share a slot. `MaxId = 9`
  also writes one number past the last device, so the out-of-range checks
  are exercised. Lists of up to two tokens cover duplicates, overlapping
  ranges and `all` inside a list. `--devicehost` lists of up to two
  elements, taken from: mic8 with two hosts, mic08, mic9 and a malformed
  element. That covers a duplicate, a padded alias of the last device,
  one past it, and the early rejection. The order run uses no mappings.

- Catalog: two devices and every subset of the platform's flags (four on
  Linux, two on Windows), with every order of the enabled classes (up to 7
  on Linux, so 5040 orders; up to 5 on Windows).
- MicbiosSettings: two writes with getinfo in between. That covers a
  setting changed once and a setting left alone while another changes.
- MicbiosApp: two cards and numbers 0..2, so one number is past the last
  card. Two tokens give duplicates, padded names, overlaps and `all` in a
  list. Two ports show the bind loop moving on and giving up. Every card
  may be online or not and have the command's password or not. One rerun
  (`MaxRuns = 2`) lets a set-pass that changed card 0 and failed on card 1
  be run again.
- MicflashDispatch: every combination of the five options with one device
  and one path (192 states). The quoting run adds a two-word path, the
  fewest words that show the split.

## Fairness

`MiccheckRunner.Spec` has `WF_vars(Next)`. miccheck is one thread with no
waiting. The fairness assumes every probe returns or raises. ping is
called with `-W 3`, and ssh with `ConnectTimeout`, so those do. The SCIF
probes (SystoolsdTest, RasTest in common/tests.py) call `scif_recv` with
the blocking flag and no timeout. A daemon that accepts the connection and
never answers hangs miccheck on that device. The model assumes the daemon
answers; the hang is listed as a hazard and not checked. The abstract
spec states termination directly as `Completes == <>(verdict # "pending")`.

`MicbiosApp.Spec` has `WF_vars(Step)`, the steps of one invocation.
`Rerun` has no fairness: whether the user runs the command again is not
the program's to decide. micbios is one thread. The
assumption is that every libscif call returns, with data or -1. `scif_recv`
is called blocking and with no timeout, so a daemon that never answers
hangs micbios. That case is listed as a hazard and not modelled.

## Not modelled, and the plan

Not modelled:
- `printing.py` (wording and layout only);
- `parse_command_line` and micflash's argparse setup: option
  declarations, abstracted to the set of parsed option records. In
  `parsermb.py` the subparser names and choices are modelled. The
  validators are empty, and the password strings are abstracted. Their flags
  are inputs to the catalog and to micbios. The micbios validators are
  empty;
- the bodies of the probes: sysfs, WMI, `/proc` and commands. Only how they
  end is modelled (for the SCIF probes, the call sequence and the header
  check that decide it, see MiccheckCatalog);
- the Windows probes' bodies (WMI), and the import-time `_num_mics_pci`,
  which raises outside `main`'s `try` when KNC and KNL cards are mixed;
- the systoolsd daemon, which is not in the repository. It is modelled from
  spec.md 6 (`DaemonWrite`, `RequestVerdicts`);
- the rest of `ut/utils.py`: `FakeScifClient`, `FakeMicWmi`, the
  `devices` and `tut` fixtures and `generic_tag` are pytest scaffolding for
  the probe bodies, which are not modelled. `FakePassTest`, `FakeFailTest`
  and `raiser` are the runner's outcome sets;
- `parser.error` for extra arguments, which exits
  with 2 through `SystemExit` (not caught by `except Exception`). It never
  touches a device or a test;
- a SCIF daemon that never answers (miccheck's SCIF probes and micbios'
  `recv`): both wait with no timeout. See Fairness.

Next sittings:
1. The Windows catalog composed with the runner, like `MCMiccheckLinuxRun`.
2. A probe in progress as a state of the runner, so a daemon that never
   answers can be checked against spec.md 4.4.3d.
