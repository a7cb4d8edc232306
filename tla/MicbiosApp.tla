----------------------------- MODULE MicbiosApp -----------------------------
(***************************************************************************)
(* One invocation of micbios (micbios.py main) for a Set* action, set-pass *)
(* or getinfo: the device list of utils.expand_devices, the online check   *)
(* of SyscfgAction.__init__, then, device after device, one MicBiosReq     *)
(* over a fresh _ScifClient (scifmb.py): scif_open, the bind loop over     *)
(* ports, scif_connect, and the sends and receives of write_req, read_req  *)
(* or passwd_req. Any MicBiosError ends the invocation with status 1.      *)
(*                                                                         *)
(* The daemon (systoolsd) is not part of this repository; it is taken to   *)
(* act on a request when the record that completes it arrives: a write or *)
(* password check on the _MicBiosRequest, the password change on the new  *)
(* password. The data of a Set* action is abstracted to "the setting was  *)
(* changed"; MicbiosSettings models the word itself.                       *)
(***************************************************************************)
EXTENDS Naturals, Sequences, SequencesExt

CONSTANTS
    NumMics,        \* MicDevice.device_count()
    Platform,       \* "linux" or "windows": the impl devicemb.py picks
    MaxId,          \* largest number written in a device token
    MaxTokens,      \* longest comma-separated device list
    MaxPort,        \* last port the bind loop tries (1023 in the code)
    ScifMayFail,    \* whether a libscif call may return -1
    DaemonMayFail,  \* whether systoolsd may answer with a card_errno
    MaxRuns         \* invocations of the same command line, reruns included

Cards == 0 .. NumMics - 1
Actions == {"set", "setpass", "getinfo"}
Pass == "p0"        \* the password the command gives (--password, old_pass)
NewPass == "p1"     \* set-pass's new_pass

(***************************************************************************)
(* utils._expand_devices. A name "mic<n>" is [n, pad]: pad = 1 is the     *)
(* same number written with a leading zero, a different string.           *)
(***************************************************************************)
AllTok == [kind |-> "all"]
BadTok == [kind |-> "bad"]      \* fails ^mic\d{1,3}$ or the range regex
Ids == 0 .. MaxId
Tokens ==
    {AllTok, BadTok} \cup [kind : {"mic"}, n : Ids, pad : {0, 1}]
                     \cup [kind : {"range"}, a : Ids, b : Ids]
Inputs == UNION {[1 .. k -> Tokens] : k \in 1 .. MaxTokens}

Name(n, pad) == [n |-> n, pad |-> pad]

\* "all" outside devs_str == "all" fails the device regex
InvalidDevices(toks) ==
    toks # <<AllTok>> /\ (AllTok \in ToSet(toks) \/ BadTok \in ToSet(toks))

\* ranges give "mic{0}".format(d) with start and end swapped if reversed;
\* set(all_devs) removes equal strings only
ExpandedNames(toks) ==
    IF toks = <<AllTok>> THEN {Name(k, 0) : k \in Cards}
    ELSE UNION {IF t.kind = "mic" THEN {Name(t.n, t.pad)}
                ELSE {Name(k, 0) : k \in (IF t.a <= t.b THEN t.a .. t.b ELSE t.b .. t.a)}
                : t \in ToSet(toks)}

\* sorted(..., key=int(x.replace("mic", ""))): names of one number stay in
\* the order the set yields them, which the program does not fix
expand_devices(toks) ==
    {s \in SetToSeqs(ExpandedNames(toks)) :
        \A i, j \in DOMAIN s : i < j => s[i].n <= s[j].n}

\* is_card_online: Linux opens /sys/class/mic/<name>/state, Windows queries
\* WMI by num; a missing device raises, and the bare except turns it into
\* "Requested devices cannot be greater than available devices."
Queryable(nm) == nm.n \in Cards /\ (Platform = "windows" \/ nm.pad = 0)

(***************************************************************************)
(* The calls of one MicBiosReq, in order                                   *)
(***************************************************************************)
ClientOps == <<"open", "bind", "connect">>
InitOps == <<"send_hdr", "recv_hdr", "send_req">>                   \* _init
Ops(action) ==
    CASE action = "set" -> ClientOps \o InitOps \o <<"recv_resp">>           \* write_req
      [] action = "getinfo" -> ClientOps \o InitOps \o <<"recv_resp", "recv_value">>
      [] action = "setpass" -> ClientOps \o InitOps \o <<"recv_resp", "send_pwd", "recv_final">>

VARIABLES
    action, toks,   \* the subcommand and its device_list
    online,         \* the state of each card
    pwd,            \* the BIOS password of each card
    setting,        \* whether a Set* action changed the card's setting
    reqs,           \* the _MicBiosRequests each card's daemon received
    got,            \* the values getinfo has read (mb_settings)
    pc,             \* "parse", "check", "req" or "done"
    devs,           \* self.devices
    d, step,        \* the device of the loop and its current call
    port,           \* the port the bind loop tries
    retried,        \* the current recv has retried once
    verdict,        \* the card_errno the daemon will answer with
    exit,           \* what main returns: -1 while running, 0 or 1
    runs,           \* the invocations so far
    start           \* the cards' passwords when this invocation began

vars == <<action, toks, online, pwd, setting, reqs, got, pc, devs, d, step,
          port, retried, verdict, exit, runs, start>>

TypeOK ==
    /\ action \in Actions /\ toks \in Inputs
    /\ online \in [Cards -> BOOLEAN] /\ pwd \in [Cards -> {Pass, NewPass}]
    /\ setting \in [Cards -> BOOLEAN] /\ reqs \in [Cards -> Nat]
    /\ got \in Nat /\ pc \in {"parse", "check", "req", "done"}
    /\ devs \in Seq([n : Ids, pad : {0, 1}])
    /\ d \in 0 .. Len(devs) + 1 /\ step \in 1 .. Len(Ops(action))
    /\ port \in 1 .. MaxPort /\ retried \in BOOLEAN
    /\ verdict \in {"ok", "errno"} /\ exit \in {-1, 0, 1}
    /\ runs \in 1 .. MaxRuns /\ start \in [Cards -> {Pass, NewPass}]

Init ==
    /\ action \in Actions /\ toks \in Inputs
    /\ online \in [Cards -> BOOLEAN] /\ pwd \in [Cards -> {Pass, NewPass}]
    /\ setting = [c \in Cards |-> FALSE] /\ reqs = [c \in Cards |-> 0]
    /\ got = 0 /\ pc = "parse" /\ devs = <<>> /\ d = 0 /\ step = 1
    /\ port = 1 /\ retried = FALSE /\ verdict = "ok" /\ exit = -1
    /\ runs = 1 /\ start = pwd

Card == devs[d].n
Op == Ops(action)[step]

\* a MicBiosError (or any other exception) out of main: status 1
Abort ==
    /\ pc' = "done" /\ exit' = 1
    /\ UNCHANGED <<action, toks, online, pwd, setting, reqs, got, devs, d,
                   step, port, retried, verdict, runs, start>>

\* MicBiosCommands.__init__: self.device_list = utils.expand_devices(...)
Parse ==
    /\ pc = "parse"
    /\ IF InvalidDevices(toks) THEN Abort
       ELSE /\ devs' \in expand_devices(toks) /\ pc' = "check"
            /\ UNCHANGED <<action, toks, online, pwd, setting, reqs, got, d,
                           step, port, retried, verdict, exit, runs, start>>

\* mutant: only the first device's state is looked at
CheckOnline_FirstOnly ==
    /\ pc = "check"
    /\ IF \/ \E k \in DOMAIN devs : ~Queryable(devs[k])
          \/ ~online[devs[1].n]
       THEN Abort
       ELSE /\ pc' = "req" /\ d' = 1
            /\ UNCHANGED <<action, toks, online, pwd, setting, reqs, got, devs,
                           step, port, retried, verdict, exit, runs, start>>

\* SyscfgAction.__init__: every device is queried, then devs_offline is
\* raised if not empty; both before any request
CheckOnline ==
    /\ pc = "check"
    /\ IF \E k \in DOMAIN devs : ~Queryable(devs[k]) \/ ~online[devs[k].n]
       THEN Abort
       ELSE /\ pc' = "req" /\ d' = 1
            /\ UNCHANGED <<action, toks, online, pwd, setting, reqs, got, devs,
                           step, port, retried, verdict, exit, runs, start>>

InRequest == pc = "req" /\ d \in DOMAIN devs

\* the call returned: the next call of this MicBiosReq, or the next device
\* with a new MicBiosReq
NextCall ==
    /\ IF step = Len(Ops(action)) THEN d' = d + 1 /\ step' = 1
       ELSE d' = d /\ step' = step + 1
    /\ retried' = FALSE /\ port' = 1

CallOk ==
    /\ NextCall
    /\ UNCHANGED <<action, toks, online, pwd, setting, reqs, got, pc, devs,
                   verdict, exit, runs, start>>

\* _open, _connect, send of the header: -1 raises; a card that is not
\* online refuses the connection
ScifCall ==
    /\ InRequest /\ Op \in {"open", "connect", "send_hdr"}
    /\ \/ (Op = "connect" => online[Card]) /\ CallOk
       \/ (ScifMayFail \/ (Op = "connect" /\ ~online[Card])) /\ Abort

\* mutant: the port loop starts over after the last port
bind_WrapAround ==
    /\ InRequest /\ Op = "bind"
    /\ \/ CallOk
       \/ /\ ScifMayFail /\ port' = IF port < MaxPort THEN port + 1 ELSE 1
          /\ UNCHANGED <<action, toks, online, pwd, setting, reqs, got, pc,
                         devs, d, step, retried, verdict, exit, runs, start>>

\* mutant: the loop goes one port past range(1, 1024)
bind_PastLastPort ==
    /\ InRequest /\ Op = "bind"
    /\ \/ CallOk
       \/ /\ ScifMayFail /\ port <= MaxPort /\ port' = port + 1
          /\ UNCHANGED <<action, toks, online, pwd, setting, reqs, got, pc,
                         devs, d, step, retried, verdict, exit, runs, start>>
       \/ ScifMayFail /\ port > MaxPort /\ Abort

\* _ScifClient._bind: scif_bind on ports 1, 2, ... until one is free;
\* "failed to bind" once all have been tried
bind ==
    /\ InRequest /\ Op = "bind"
    /\ \/ CallOk
       \/ /\ ScifMayFail /\ port < MaxPort /\ port' = port + 1
          /\ UNCHANGED <<action, toks, online, pwd, setting, reqs, got, pc,
                         devs, d, step, retried, verdict, exit, runs, start>>
       \/ ScifMayFail /\ port = MaxPort /\ Abort

\* the daemon's answer to a _MicBiosRequest: a write or a password change
\* needs the card's password; any request may meet another card_errno
RequestVerdicts ==
    (IF action # "getinfo" /\ pwd[Card] # Pass THEN {} ELSE {"ok"})
    \cup (IF DaemonMayFail \/ (action # "getinfo" /\ pwd[Card] # Pass)
          THEN {"errno"} ELSE {})

\* the send of mb_req that ends _init; the daemon acts on it
send_req ==
    /\ InRequest /\ Op = "send_req"
    /\ \/ /\ reqs' = [reqs EXCEPT ![Card] = @ + 1]
          /\ \E v \in RequestVerdicts :
               /\ verdict' = v
               /\ setting' = IF action = "set" /\ v = "ok"
                             THEN [setting EXCEPT ![Card] = TRUE] ELSE setting
          /\ NextCall
          /\ UNCHANGED <<action, toks, online, pwd, got, pc, devs, exit, runs, start>>
       \/ ScifMayFail /\ Abort

\* passwd_req's send of the new password; the daemon changes it
send_pwd ==
    /\ InRequest /\ Op = "send_pwd"
    /\ \/ /\ \E v \in {"ok"} \cup (IF DaemonMayFail THEN {"errno"} ELSE {}) :
               /\ verdict' = v
               /\ pwd' = IF v = "ok" THEN [pwd EXCEPT ![Card] = NewPass] ELSE pwd
          /\ NextCall
          /\ UNCHANGED <<action, toks, online, setting, reqs, got, pc, devs, exit, runs, start>>
       \/ ScifMayFail /\ Abort

RecvOps == {"recv_hdr", "recv_resp", "recv_value", "recv_final"}

\* mutant: a -1 on the response sends the request again
recv_ResendOnRetry ==
    /\ InRequest /\ Op \in RecvOps /\ ScifMayFail
    /\ IF retried THEN Abort
       ELSE /\ retried' = TRUE
            /\ step' = IF Op = "recv_resp" THEN step - 1 ELSE step
            /\ UNCHANGED <<action, toks, online, pwd, setting, reqs, got, pc,
                           devs, d, port, verdict, exit, runs, start>>

\* _ScifClient.recv: scif_recv returned -1; it is called once more, and a
\* second -1 raises
recv ==
    /\ InRequest /\ Op \in RecvOps /\ ScifMayFail
    /\ IF retried THEN Abort
       ELSE /\ retried' = TRUE
            /\ UNCHANGED <<action, toks, online, pwd, setting, reqs, got, pc,
                           devs, d, step, port, verdict, exit, runs, start>>

\* mutant: the card_errno of the response is not looked at
Received_IgnoreErrno ==
    /\ InRequest /\ Op \in RecvOps
    /\ CASE Op = "recv_hdr" -> CallOk \/ (DaemonMayFail /\ Abort)
         [] Op = "recv_value" ->
              /\ got' = got + 1 /\ NextCall
              /\ UNCHANGED <<action, toks, online, pwd, setting, reqs, pc, devs,
                             verdict, exit, runs, start>>
         [] OTHER -> CallOk

\* mutant: passwd_req does not look at the card_errno of the password check
Received_SkipPasswordCheck ==
    /\ InRequest /\ Op \in RecvOps
    /\ CASE Op = "recv_hdr" -> CallOk \/ (DaemonMayFail /\ Abort)
         [] Op = "recv_value" ->
              /\ got' = got + 1 /\ NextCall
              /\ UNCHANGED <<action, toks, online, pwd, setting, reqs, pc, devs,
                             verdict, exit, runs, start>>
         [] OTHER -> IF verdict = "ok" \/ (action = "setpass" /\ Op = "recv_resp")
                     THEN CallOk ELSE Abort

\* scif_recv returned the record: the header's card_errno raises "Daemon
\* error", a response's card_errno raises its systoolsd_error, and
\* read_req's value is kept for the print
Received ==
    /\ InRequest /\ Op \in RecvOps
    /\ CASE Op = "recv_hdr" -> CallOk \/ (DaemonMayFail /\ Abort)
         [] Op = "recv_value" ->
              /\ got' = got + 1 /\ NextCall
              /\ UNCHANGED <<action, toks, online, pwd, setting, reqs, pc, devs,
                             verdict, exit, runs, start>>
         [] OTHER -> IF verdict = "ok" THEN CallOk ELSE Abort

\* the loop is over: SetAction.run or Getinfo.run prints, main returns None
Finish ==
    /\ pc = "req" /\ d = Len(devs) + 1
    /\ pc' = "done" /\ exit' = 0
    /\ UNCHANGED <<action, toks, online, pwd, setting, reqs, got, devs, d,
                   step, port, retried, verdict, runs, start>>

\* the same command line run again after a failure (status 1): a new
\* process, so every variable of main starts over, while the cards keep
\* their passwords and settings and stay online or not
Rerun ==
    /\ pc = "done" /\ exit = 1 /\ runs < MaxRuns
    /\ runs' = runs + 1 /\ start' = pwd
    /\ pc' = "parse" /\ exit' = -1 /\ devs' = <<>> /\ d' = 0 /\ step' = 1
    /\ port' = 1 /\ retried' = FALSE /\ verdict' = "ok"
    /\ reqs' = [c \in Cards |-> 0] /\ got' = 0
    /\ UNCHANGED <<action, toks, online, pwd, setting>>

\* the steps of one invocation
Step ==
    \/ Parse \/ CheckOnline \/ ScifCall \/ bind \/ send_req \/ send_pwd
    \/ recv \/ Received \/ Finish

Next == Step \/ Rerun

\* micbios is one thread and every libscif call returns (the daemon
\* answers); whether the user runs the command again is not the program's
\* to decide, so Rerun has no fairness
Spec == Init /\ [][Next]_vars /\ WF_vars(Step)

(***************************************************************************)
(* Properties                                                              *)
(***************************************************************************)
RequestedOffline == \E k \in DOMAIN devs : devs[k].n \in Cards /\ ~online[devs[k].n]

\* If any requested card is not online, no card receives a request: the
\* online check of SyscfgAction.__init__ covers the whole list before the
\* first MicBiosReq.
OfflineMeansUntouched == RequestedOffline => \A c \in Cards : reqs[c] = 0

\* what the request of the k-th device was to achieve
Served(k) ==
    CASE action = "set" -> setting[devs[k].n]
      [] action = "setpass" -> pwd[devs[k].n] = NewPass
      [] action = "getinfo" -> got >= k

\* The devices are handled strictly in list order and a failure stops the
\* loop: every device before the current one got what the action asked
\* (a response with a card_errno is never taken for success), none after it
\* received a request; so status 0 means every listed card was served.
PrefixApplied ==
    pc \in {"req", "done"} =>
        \A k \in DOMAIN devs : /\ k < d => Served(k)
                               /\ k > d => devs[k].n \notin Cards \/ reqs[devs[k].n] = 0

\* Each card receives at most one request per invocation (the device list
\* has no duplicates and a recv retry does not repeat the request).
EachDeviceRequestedOnce == \A c \in Cards : reqs[c] <= 1

\* set-pass succeeds only if every listed card still had the old password
\* when the invocation began: passwd_req checks the old password of each
\* card before it sends the new one. So after a set-pass that failed on a
\* later card (Setpass._run changes cards one by one), the same command
\* run again can never succeed: the cards already changed refuse it.
SetpassSuccessNeedsOldPass ==
    (pc = "done" /\ exit = 0 /\ action = "setpass") =>
        \A k \in DOMAIN devs : start[devs[k].n] = Pass

\* Every invocation ends: the bind loop and the recv retry are bounded.
Termination == <>(pc = "done")

=============================================================================
