--------------------------- MODULE MicflashDispatch ---------------------------
(***************************************************************************)
(* micflash (micfw/scripts/micflash.py): the options argparse gives, the  *)
(* choice main, validate_multiple_options, getversion, update and verbose *)
(* make, and the micfw command line execute hands to the shell.            *)
(*                                                                         *)
(* An option value is a record: "empty" (the default: the option is not   *)
(* given), "none" (given with no value, nargs='?') or a path. A path is    *)
(* the sequence of its blank-separated words. A command line is what the  *)
(* shell makes of the string: a sequence of arguments, each a sequence of  *)
(* words; text in \"...\" is one argument, unquoted text one per word.     *)
(***************************************************************************)
EXTENDS Integers, Sequences

CONSTANTS
    Paths,      \* the paths a user may give, each a sequence of words
    Dev         \* a device name given with -device

Empty == [kind |-> "empty"]
NoValue == [kind |-> "none"]
Values == {Empty, NoValue} \cup [kind : {"path"}, p : Paths]
NoDev == "none"

Options ==
    [getversion : Values, update : Values, device : {NoDev, Dev},
     helpmsg : BOOLEAN, v : BOOLEAN]

\* Python truth: None is false, "empty" and a path are true
Truthy(x) == x.kind # "none"
Given(dev) == dev # NoDev

\* the shell splits unquoted text at blanks
Words(ws) == [i \in DOMAIN ws |-> <<ws[i]>>]
Quoted(p) == <<p>>

MICFW_GET_CMD == Words(<<"micfw", "device-version">>)
MICFW_DEV_CMD == Words(<<"micfw", "device-version", "-d">>)
MICFW_FILE == Words(<<"micfw", "file-version">>)
UPDATE == Words(<<"micfw", "update">>)
V == Words(<<"-v">>)

Exec(argv) == [kind |-> "exec", argv |-> argv]
Help == [kind |-> "help", argv |-> <<>>]            \* PARSER.print_help()

\* mutant: device-version without -d
getversion_NoDashD(o) ==
    IF ~Truthy(o.getversion) /\ Given(o.device)
    THEN Exec(MICFW_GET_CMD \o Words(<<o.device>>))
    ELSE IF o.getversion # Empty /\ Truthy(o.getversion)
    THEN Exec(MICFW_FILE \o Quoted(o.getversion.p))
    ELSE IF ~Truthy(o.getversion) THEN Exec(MICFW_GET_CMD)
    ELSE Help

getversion(o) ==
    IF ~Truthy(o.getversion) /\ Given(o.device)
    THEN Exec(MICFW_DEV_CMD \o Words(<<o.device>>))
    ELSE IF o.getversion # Empty /\ Truthy(o.getversion)
    THEN Exec(MICFW_FILE \o Quoted(o.getversion.p))
    ELSE IF ~Truthy(o.getversion) THEN Exec(MICFW_GET_CMD)
    ELSE Help

\* mutant: the device is dropped when a file is given
update_IgnoresDevice(o) ==
    IF ~Truthy(o.update) /\ Given(o.device)
    THEN Exec(UPDATE \o Words(<<o.device>>))
    ELSE IF o.update # Empty /\ Truthy(o.update)
    THEN Exec(UPDATE \o Words(<<"all", "--file">>) \o Quoted(o.update.p))
    ELSE IF ~Truthy(o.update) THEN Exec(UPDATE \o Words(<<"all">>))
    ELSE Help

update(o) ==
    IF ~Truthy(o.update) /\ Given(o.device)
    THEN Exec(UPDATE \o Words(<<o.device>>))
    ELSE IF o.update # Empty /\ Truthy(o.update)
    THEN IF Given(o.device)
         THEN Exec(UPDATE \o Words(<<o.device, "--file">>) \o Quoted(o.update.p))
         ELSE Exec(UPDATE \o Words(<<"all", "--file">>) \o Quoted(o.update.p))
    ELSE IF ~Truthy(o.update) THEN Exec(UPDATE \o Words(<<"all">>))
    ELSE Help

\* mutant: the first branch tests only the device
verbose_DeviceFirst(o) ==
    IF Given(o.device) THEN Exec(UPDATE \o Words(<<o.device>>) \o V)
    ELSE IF ~Truthy(o.getversion) /\ Given(o.device)
    THEN Exec(MICFW_DEV_CMD \o Words(<<o.device>>) \o V)
    ELSE IF o.update # Empty /\ Truthy(o.update)
    THEN Exec(UPDATE \o Words(<<IF Given(o.device) THEN o.device ELSE "all", "--file">>)
              \o Words(o.update.p) \o V)
    ELSE IF o.getversion # Empty /\ Truthy(o.getversion)
    THEN Exec(MICFW_FILE \o Words(o.getversion.p) \o V)
    ELSE IF ~Truthy(o.update) THEN Exec(UPDATE \o Words(<<"all">>) \o V)
    ELSE IF ~Truthy(o.getversion) THEN Exec(MICFW_GET_CMD \o V)
    ELSE Help

\* its own branch order, and the file path not quoted
verbose(o) ==
    IF ~Truthy(o.update) /\ Given(o.device) THEN Exec(UPDATE \o Words(<<o.device>>) \o V)
    ELSE IF ~Truthy(o.getversion) /\ Given(o.device)
    THEN Exec(MICFW_DEV_CMD \o Words(<<o.device>>) \o V)
    ELSE IF o.update # Empty /\ Truthy(o.update)
    THEN Exec(UPDATE \o Words(<<IF Given(o.device) THEN o.device ELSE "all", "--file">>)
              \o Words(o.update.p) \o V)
    ELSE IF o.getversion # Empty /\ Truthy(o.getversion)
    THEN Exec(MICFW_FILE \o Words(o.getversion.p) \o V)
    ELSE IF ~Truthy(o.update) THEN Exec(UPDATE \o Words(<<"all">>) \o V)
    ELSE IF ~Truthy(o.getversion) THEN Exec(MICFW_GET_CMD \o V)
    ELSE Help

\* raise SystemExit("micflash: Multiple commands ...") unless one is "empty"
validate_multiple_options(o, r) ==
    IF o.getversion = Empty \/ o.update = Empty THEN r
    ELSE [kind |-> "multiple", argv |-> <<>>]

\* main after parse_args; the deprecation notes only print
Choose(o) ==
    IF o.helpmsg THEN Help
    ELSE IF o.v THEN validate_multiple_options(o, verbose(o))
    ELSE IF o.getversion # Empty THEN validate_multiple_options(o, getversion(o))
    ELSE IF o.update # Empty THEN validate_multiple_options(o, update(o))
    ELSE [kind |-> "nocommand", argv |-> <<>>]     \* print_help, ArgumentTypeError

(***************************************************************************)
(* One micflash invocation: main chooses, execute runs micfw through the  *)
(* shell and prints the help if micfw returned 2; main then returns None.  *)
(***************************************************************************)
VARIABLES
    opts,       \* the parsed options
    pc,         \* "start", "exec" or "done"
    cmd,        \* the command line handed to the shell
    rc,         \* popen.returncode, -1 before micfw ran
    helped,     \* whether print_help ran
    exit        \* the process status, -1 while running

vars == <<opts, pc, cmd, rc, helped, exit>>

TypeOK ==
    /\ opts \in Options /\ pc \in {"start", "exec", "done"}
    /\ cmd \in Seq(Seq(STRING)) /\ rc \in -1 .. 2
    /\ helped \in BOOLEAN /\ exit \in {-1, 0, 1}

Init ==
    /\ opts \in Options /\ pc = "start" /\ cmd = <<>>
    /\ rc = -1 /\ helped = FALSE /\ exit = -1

\* main: what Choose gives; SystemExit and ArgumentTypeError end with 1
Dispatch ==
    LET r == Choose(opts) IN
    /\ pc = "start"
    /\ IF r.kind = "exec"
       THEN pc' = "exec" /\ cmd' = r.argv /\ UNCHANGED <<helped, exit>>
       ELSE /\ pc' = "done" /\ helped' = (r.kind \in {"help", "nocommand"})
            /\ exit' = IF r.kind = "help" THEN 0 ELSE 1
            /\ UNCHANGED cmd
    /\ UNCHANGED <<opts, rc>>

\* mutant: micflash exits with micfw's status
execute_RcAsExit ==
    /\ pc = "exec"
    /\ \E r \in 0 .. 2 : rc' = r /\ helped' = (r = 2) /\ exit' = r
    /\ pc' = "done" /\ UNCHANGED <<opts, cmd>>

\* execute: Popen(command, shell=True).communicate(); print_help on 2;
\* the status is not looked at otherwise, and main returns None
execute ==
    /\ pc = "exec"
    /\ \E r \in 0 .. 2 : rc' = r /\ helped' = (r = 2)
    /\ exit' = 0 /\ pc' = "done" /\ UNCHANGED <<opts, cmd>>

Next == Dispatch \/ execute

Spec == Init /\ [][Next]_vars

(***************************************************************************)
(* Properties                                                              *)
(***************************************************************************)
IsUpdate(argv) == Len(argv) >= 3 /\ SubSeq(argv, 1, 2) = UPDATE

\* micflash runs "micfw update" only when -update was given: a -getversion,
\* verbose or not, with or without -device, never flashes a card.
GetversionNeverUpdates == opts.update = Empty => ~IsUpdate(cmd)

\* An update flashes the card named with -device, and all cards only when
\* no -device was given, in every branch of update and verbose.
UpdateOnlyNamedDevice ==
    IsUpdate(cmd) =>
        cmd[3] = <<IF Given(opts.device) THEN opts.device ELSE "all">>

\* the command the same options give without -v (main's elif chain)
Plain(o) == IF o.getversion # Empty THEN getversion(o) ELSE update(o)

\* -v only adds "-v": verbose, with its own branch order, runs micfw
\* whenever getversion or update would, with the same arguments.
VerboseSameCommand ==
    LET o == [opts EXCEPT !.v = TRUE, !.helpmsg = FALSE]
        vb == Choose(o)
        pl == Choose([o EXCEPT !.v = FALSE])
    IN (pc # "start" /\ (vb.kind = "exec" \/ pl.kind = "exec")) =>
           /\ vb.kind = "exec" /\ pl.kind = "exec"
           /\ vb.argv = pl.argv \o V

\* spec.md 6: the process status is 0 only on success; a micfw that failed
\* makes micflash fail.
ExitReflectsMicfw == (pc = "done" /\ rc = 1) => exit # 0

=============================================================================
