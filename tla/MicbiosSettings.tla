--------------------------- MODULE MicbiosSettings ---------------------------
(***************************************************************************)
(* micbios' BIOS settings word: the Shifts and Properties of              *)
(* systoolsd_api.py, SyscfgSettings of scifmb.py (decode by shift and     *)
(* mask, encode by OR-ing a mode in at its shift, display through the     *)
(* *_config_name tables) and the mode tables of the Set* and Getinfo      *)
(* actions of appmb.py; and the command line that reaches them: the      *)
(* subparsers of parsermb.py with the choices of their arguments, and the *)
(* tables main looks the subcommand up in (validators, the subcommand     *)
(* attributes of commandsmb.py, Micbios.actions).                          *)
(***************************************************************************)
EXTENDS Integers, Bitwise, Functions, TLC

Settings == {"cluster", "ecc", "apei-supp", "apei-einj", "apei-ffm", "apei-table", "fwlock"}

\* systoolsd_api.Shifts
Shifts ==
    [cluster |-> 0, ecc |-> 4, apei_supp |-> 7, apei_einj |-> 9,
     apei_ffm |-> 11, apei_table |-> 13, fwlock |-> 15]

\* systoolsd_api.Properties
Properties ==
    [cluster |-> 1, ecc |-> 2, apeisupp |-> 4, apeiffm |-> 8, apeieinj |-> 16,
     apeitable |-> 32, fwlock |-> 64]

\* the attribute of SyscfgSettings that holds each setting, with its mask
Field ==
    ("cluster" :> [attr |-> "cluster", mask |-> 15])
    @@ ("ecc" :> [attr |-> "ecc", mask |-> 7])
    @@ ("apei-supp" :> [attr |-> "apei_supp", mask |-> 3])
    @@ ("apei-einj" :> [attr |-> "apei_einj", mask |-> 3])
    @@ ("apei-ffm" :> [attr |-> "apei_ffm", mask |-> 3])
    @@ ("apei-table" :> [attr |-> "apei_table", mask |-> 3])
    @@ ("fwlock" :> [attr |-> "fwlock", mask |-> 3])

\* mutant: apei_ffm decoded with the apei_einj shift
SyscfgSettings_FfmReadsEinj(value) ==
    [s \in Settings |->
        shiftR(value, Shifts[Field[IF s = "apei-ffm" THEN "apei-einj" ELSE s].attr])
        & Field[s].mask]

\* SyscfgSettings.__init__: self.<attr> = (value >> shift) & mask
SyscfgSettings(value) ==
    [s \in Settings |-> shiftR(value, Shifts[Field[s].attr]) & Field[s].mask]

\* SyscfgSettings().set_<attr>_mode(mode): value |= mode << shift, from 0
\* (mutant: the apei-supp shift one bit low)
set_mode_LowApeiSupp(s, mode) ==
    0 | (mode * 2 ^ (IF s = "apei-supp" THEN 6 ELSE Shifts[Field[s].attr]))

\* mutant: fwlock shifted past the 17 bits of the word
set_mode_FwlockPastWord(s, mode) ==
    0 | (mode * 2 ^ (IF s = "fwlock" THEN 17 ELSE Shifts[Field[s].attr]))

set_mode(s, mode) == 0 | (mode * 2 ^ Shifts[Field[s].attr])

\* systoolsd_api.*_config_name
cluster_config_name ==
    (0 :> "All2All") @@ (1 :> "SNC-2") @@ (2 :> "SNC-4") @@ (3 :> "Hemisphere")
    @@ (4 :> "Quadrant") @@ (5 :> "Auto")
ecc_config_name == (0 :> "Disable") @@ (1 :> "Enable") @@ (2 :> "Auto")
OnOffName == (0 :> "Disable") @@ (1 :> "Enable")

\* the table each field's own config_name function gives
ConfigName(s) ==
    CASE s = "cluster" -> cluster_config_name
      [] s = "ecc" -> ecc_config_name
      [] OTHER -> OnOffName

\* SyscfgSettings.setting_by_name via mapper and the *_mode methods;
\* apei_table_mode calls apei_ffm_config_name
setting_by_name(settings, s) ==
    LET tbl == IF s = "apei-table" THEN ConfigName("apei-ffm") ELSE ConfigName(s)
    IN tbl[settings[s]]

OnOff == ("disable" :> 0) @@ ("enable" :> 1)

\* the mapper of each Set* action: parser choice -> mode code, and its prop
SetActions ==
    ("cluster" :> [prop |-> Properties.cluster,
                   mapper |-> ("all2all" :> 0) @@ ("snc2" :> 1) @@ ("snc4" :> 2)
                              @@ ("hemisphere" :> 3) @@ ("quadrant" :> 4) @@ ("auto" :> 5)])
    @@ ("ecc" :> [prop |-> Properties.ecc,
                  mapper |-> ("disable" :> 0) @@ ("enable" :> 1) @@ ("auto" :> 2)])
    @@ ("apei-supp" :> [prop |-> Properties.apeisupp, mapper |-> OnOff])
    @@ ("apei-ffm" :> [prop |-> Properties.apeiffm, mapper |-> OnOff])
    @@ ("apei-einj" :> [prop |-> Properties.apeieinj, mapper |-> OnOff])
    @@ ("apei-table" :> [prop |-> Properties.apeitable, mapper |-> OnOff])
    @@ ("fwlock" :> [prop |-> Properties.fwlock, mapper |-> OnOff])

\* mutant: Getinfo's ids for apei-ffm and apei-einj swapped
GetinfoProp_SwappedApei ==
    ("cluster" :> 1) @@ ("ecc" :> 2) @@ ("apei-supp" :> 4) @@ ("apei-ffm" :> 16)
    @@ ("apei-einj" :> 8) @@ ("apei-table" :> 32) @@ ("fwlock" :> 64)

\* Getinfo.mapper[setting][0]
GetinfoProp ==
    ("cluster" :> 1) @@ ("ecc" :> 2) @@ ("apei-supp" :> 4) @@ ("apei-ffm" :> 8)
    @@ ("apei-einj" :> 16) @@ ("apei-table" :> 32) @@ ("fwlock" :> 64)

(***************************************************************************)
(* The command line. Each table is kept by hand and keyed by the          *)
(* subcommand strings of constantsmb.Subcommandsmb.                        *)
(***************************************************************************)
\* mutant: the name commandsmb's docstring gives set-apei-einjtable
Subcommandsmb_ApeiTable ==
    [setpass |-> "set-pass", getinfo |-> "getinfo", cluster |-> "set-cluster-mode",
     ecc |-> "set-ecc", apeisupp |-> "set-apei-supp", apeiffm |-> "set-apei-ffm",
     apeieinj |-> "set-apei-einj", apeitable |-> "set-apei-table",
     fwlock |-> "set-fwlock"]

Subcommandsmb ==
    [setpass |-> "set-pass", getinfo |-> "getinfo", cluster |-> "set-cluster-mode",
     ecc |-> "set-ecc", apeisupp |-> "set-apei-supp", apeiffm |-> "set-apei-ffm",
     apeieinj |-> "set-apei-einj", apeitable |-> "set-apei-einjtable",
     fwlock |-> "set-fwlock"]

\* micbios_parser: the names of the Set* subparsers, as literals, and the
\* choices of their "mode" argument
ModeChoices ==
    ("set-fwlock" :> {"enable", "disable"})
    @@ ("set-cluster-mode" :> {"all2all", "snc2", "snc4", "hemisphere", "quadrant", "auto"})
    @@ ("set-ecc" :> {"enable", "disable", "auto"})
    @@ ("set-apei-supp" :> {"enable", "disable"})
    @@ ("set-apei-ffm" :> {"enable", "disable"})
    @@ ("set-apei-einjtable" :> {"enable", "disable"})
    @@ ("set-apei-einj" :> {"enable", "disable"})

\* the choices of getinfo's "biossetting" argument
BiosSettingChoices ==
    {"cluster", "ecc", "apei-supp", "apei-ffm", "apei-einj", "apei-table", "fwlock"}

\* the keys of parsermb.validators
validators ==
    {Subcommandsmb.setpass, Subcommandsmb.cluster, Subcommandsmb.ecc,
     Subcommandsmb.apeisupp, Subcommandsmb.apeieinj, Subcommandsmb.apeitable,
     Subcommandsmb.apeiffm, Subcommandsmb.fwlock, Subcommandsmb.getinfo}

\* MicBiosCommands.factory: the subcommand attribute of each subclass
CommandClasses ==
    {Subcommandsmb.setpass, Subcommandsmb.cluster, Subcommandsmb.ecc,
     Subcommandsmb.apeisupp, Subcommandsmb.apeiffm, Subcommandsmb.apeieinj,
     Subcommandsmb.apeitable, Subcommandsmb.fwlock, Subcommandsmb.getinfo}

\* Micbios.register(name, cls): each class by the setting its _run writes
actions ==
    (Subcommandsmb.getinfo :> "getinfo") @@ (Subcommandsmb.cluster :> "cluster")
    @@ (Subcommandsmb.setpass :> "setpass") @@ (Subcommandsmb.ecc :> "ecc")
    @@ (Subcommandsmb.apeisupp :> "apei-supp") @@ (Subcommandsmb.apeiffm :> "apei-ffm")
    @@ (Subcommandsmb.apeieinj :> "apei-einj") @@ (Subcommandsmb.apeitable :> "apei-table")
    @@ (Subcommandsmb.fwlock :> "fwlock")

\* validators[...], classes_dict[...] and Micbios.actions[...] find it
Dispatches(sub) == sub \in validators /\ sub \in CommandClasses /\ sub \in DOMAIN actions

(***************************************************************************)
(* A card receiving up to MaxWrites set-<setting> commands and answering  *)
(* getinfo for any setting. The daemon is not part of this repository: it *)
(* is taken to keep one settings word, to replace, on a write of a        *)
(* property, the bits spec.md 6 gives that property by those of the word  *)
(* sent, and to return the whole word on a read.                          *)
(***************************************************************************)
CONSTANT MaxWrites

\* spec.md 6: the bits of each field in the settings word
SpecBits ==
    ("cluster" :> <<0, 3>>) @@ ("ecc" :> <<4, 6>>) @@ ("apei-supp" :> <<7, 8>>)
    @@ ("apei-einj" :> <<9, 10>>) @@ ("apei-ffm" :> <<11, 12>>)
    @@ ("apei-table" :> <<13, 14>>) @@ ("fwlock" :> <<15, 16>>)

SpecField(w, s) == (w \div 2 ^ SpecBits[s][1]) % 2 ^ (SpecBits[s][2] - SpecBits[s][1] + 1)

\* the setting a property id stands for
PropSetting(prop) == CHOOSE s \in Settings : SetActions[s].prop = prop

DaemonWrite(card, prop, sent) ==
    LET s == PropSetting(prop)
    IN card + (SpecField(sent, s) - SpecField(card, s)) * 2 ^ SpecBits[s][1]

VARIABLES
    card,       \* the settings word the card keeps
    sent,       \* the last word a Set* action sent, with its setting and mode
    last,       \* the mode last set for each setting
    shown,      \* the last invocation, if it was getinfo: what it read and printed
    writes,     \* the Set* invocations so far
    raised      \* an invocation ended in a KeyError of one of the tables

vars == <<card, sent, last, shown, writes, raised>>

Never == "never"
NoWord == [word |-> -1, setting |-> "cluster", mode |-> Never]

Names == {"All2All", "SNC-2", "SNC-4", "Hemisphere", "Quadrant", "Auto",
          "Disable", "Enable"}

TypeOK ==
    /\ card \in 0 .. 2 ^ 17 - 1
    /\ sent.word \in {-1} \cup 0 .. 2 ^ 17 - 1 /\ sent.setting \in Settings
    /\ last \in [Settings -> {Never} \cup DOMAIN SetActions["cluster"].mapper
                                     \cup DOMAIN SetActions["ecc"].mapper]
    /\ shown \in {<<>>} \cup [setting : Settings, prop : Range(Properties), text : Names]
    /\ writes \in 0 .. MaxWrites /\ raised \in BOOLEAN

Init ==
    /\ card = 0 /\ sent = NoWord /\ last = [s \in Settings |-> Never]
    /\ shown = <<>> /\ writes = 0 /\ raised = FALSE

\* the _run of the Set* action for s: SyscfgSettings().set_<s>_mode(code),
\* written with SetActions[s].prop (MicBiosReq.write_req)
SetSetting(s, m) ==
    /\ writes < MaxWrites
    /\ LET w == set_mode(s, SetActions[s].mapper[m]) IN
       /\ sent' = [word |-> w, setting |-> s, mode |-> m]
       /\ card' = DaemonWrite(card, SetActions[s].prop, w)
    /\ last' = [last EXCEPT ![s] = m]
    /\ writes' = writes + 1
    /\ shown' = <<>> /\ UNCHANGED raised

\* Getinfo.run: read_req(GetinfoProp[s]), SyscfgSettings(resp.value),
\* setting_by_name(s)
GetinfoSetting(s) ==
    /\ shown' = [setting |-> s, prop |-> GetinfoProp[s],
                 text |-> setting_by_name(SyscfgSettings(card), s)]
    /\ UNCHANGED <<card, sent, last, writes, raised>>

\* a KeyError out of main (it catches MicBiosError, OSError, ImportError
\* only): nothing is sent
KeyErrorExit == raised' = TRUE /\ shown' = <<>> /\ UNCHANGED <<card, sent, last>>

\* micbios.py main for "micbios <sub> <mode> <devices>"
SetCommand(sub, m) ==
    /\ writes < MaxWrites
    /\ IF Dispatches(sub) /\ actions[sub] \in Settings
          /\ m \in DOMAIN SetActions[actions[sub]].mapper
       THEN SetSetting(actions[sub], m)
       ELSE KeyErrorExit /\ writes' = writes + 1

\* micbios.py main for "micbios getinfo <setting>": Getinfo.mapper and
\* SyscfgSettings.mapper are looked up by the choice
GetinfoCommand(b) ==
    IF Dispatches(Subcommandsmb.getinfo) /\ b \in DOMAIN GetinfoProp /\ b \in Settings
    THEN GetinfoSetting(b)
    ELSE KeyErrorExit /\ UNCHANGED writes

Next ==
    \/ \E sub \in DOMAIN ModeChoices : \E m \in ModeChoices[sub] : SetCommand(sub, m)
    \/ \E b \in BiosSettingChoices : GetinfoCommand(b)

Spec == Init /\ [][Next]_vars

(***************************************************************************)
(* Properties                                                              *)
(***************************************************************************)
\* The word a Set* action sends carries its mode only in the bits spec.md 6
\* gives that setting, and SyscfgSettings decodes from it exactly that
\* mode for the setting and 0 for every other one (the shifts and masks of
\* encode and decode agree with each other and with the layout).
WordRoundTrip ==
    sent.word # -1 =>
        LET code == SetActions[sent.setting].mapper[sent.mode]
            dec == SyscfgSettings(sent.word)
        IN /\ \A o \in Settings : SpecField(sent.word, o) = IF o = sent.setting THEN code ELSE 0
           /\ dec[sent.setting] = code
           /\ \A o \in Settings \ {sent.setting} : dec[o] = 0

\* After any sequence of set commands, getinfo of a setting shows the
\* name, in that setting's own *_config_name table, of the mode last set
\* for it (or of 0 when none was), whatever was written to other settings.
GetinfoShowsLastSet ==
    shown # <<>> =>
        LET s == shown.setting
            code == IF last[s] = Never THEN 0 ELSE SetActions[s].mapper[last[s]]
        IN shown.text = ConfigName(s)[code]

\* getinfo of a setting asks the daemon for the property id the Set*
\* action of the same setting writes (the two tables of appmb.py are kept
\* apart by hand).
GetinfoReadsWhatSetWrites ==
    shown # <<>> => shown.prop = SetActions[shown.setting].prop

\* Every command line argparse accepts for a Set* subcommand or getinfo is
\* found in validators, in MicBiosCommands.factory's classes, in
\* Micbios.actions and in the action's mode table: none of the tables kept
\* by hand in parsermb.py, constantsmb.py, commandsmb.py and appmb.py lacks
\* a name the parser offers.
ParsedCommandsDispatch == ~raised

=============================================================================
