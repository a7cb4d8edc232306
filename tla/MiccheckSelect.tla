---------------------------- MODULE MiccheckSelect ----------------------------
(***************************************************************************)
(* miccheck's --device expansion, select_devices (common/main.py).        *)
(*                                                                         *)
(* The expression is the list devices.split(","); each element is a token *)
(* record: "all", a single "micN", a range "micA-micB", or "bad" for one   *)
(* that does not match ^(mic\d+|mic\d+-mic\d+)$. The integers are already *)
(* the values int() gives.                                                 *)
(*                                                                         *)
(* The last step, [DeviceInfo(d) for d in set(expanded_list)], orders the *)
(* devices the way a CPython 2 set iterates: an open-addressing table of   *)
(* 8 slots at first, keys placed by hash(n) = n and the perturbed probe   *)
(* sequence of setobject.c, resized to the next power of two above 4*used *)
(* once two thirds full, and iterated slot by slot.                        *)
(*                                                                         *)
(* set_hostnames then applies --devicehost to the selected devices. A     *)
(* mapping is one element of hostnames.split(","): "bad" when it does not *)
(* match ^mic\d+:[A-Za-z0-9\-\._]{1,255}$, else [n, pad, host], where pad *)
(* = 1 writes n with a leading zero ("mic08"), a different string with   *)
(* the same int().                                                         *)
(***************************************************************************)
EXTENDS Naturals, FiniteSets, Sequences, SequencesExt

CONSTANTS
    TOTAL_MICS,     \* pltfm.TOTAL_MICS: devices detected over PCI
    MaxId,          \* largest number written in a token
    MaxTokens,      \* longest comma-separated list
    Mappings,       \* the --devicehost elements a user may write
    MaxMappings     \* longest --devicehost list

ASSUME TOTAL_MICS \in Nat /\ MaxId \in Nat /\ MaxTokens \in Nat \ {0}
ASSUME MaxMappings \in Nat

AllTok == [kind |-> "all"]
BadTok == [kind |-> "bad"]
Ids == 0 .. MaxId
Tokens ==
    {AllTok, BadTok} \cup [kind : {"mic"}, n : Ids]
                     \cup [kind : {"range"}, a : Ids, b : Ids]

Inputs == UNION {[1 .. k -> Tokens] : k \in 1 .. MaxTokens}

BadMap == [kind |-> "bad"]
\* "" is the empty list: `if not settings.hostnames: return`
HostInputs == UNION {[1 .. k -> Mappings] : k \in 0 .. MaxMappings}

(***************************************************************************)
(* CPython 2 set of non-negative ints (Objects/setobject.c)               *)
(***************************************************************************)
NULL == -1
PySet_MINSIZE == 8
PERTURB_SHIFT == 32      \* perturb >>= 5

EmptyTable == [slots |-> [s \in 0 .. PySet_MINSIZE - 1 |-> NULL], used |-> 0]

Size(t) == DOMAIN t.slots

\* set_lookkey / set_insert_clean: from slot h & mask, i = 5*i + perturb + 1
\* (taken & mask), perturb shifted after each probe, until the slot is
\* empty or holds the key.
RECURSIVE FindSlot(_, _, _, _)
FindSlot(slots, h, idx, perturb) ==
    IF slots[idx] = NULL \/ slots[idx] = h THEN idx
    ELSE FindSlot(slots, h, (5 * idx + perturb + 1) % Cardinality(DOMAIN slots),
                  perturb \div PERTURB_SHIFT)

SlotFor(slots, h) == FindSlot(slots, h, h % Cardinality(DOMAIN slots), h)

\* set_table_resize: newsize = 8, doubled while newsize <= minused
RECURSIVE NewSize(_, _)
NewSize(n, minused) == IF n <= minused THEN NewSize(2 * n, minused) ELSE n

PutClean(slots, h) == [slots EXCEPT ![SlotFor(slots, h)] = h]

\* old entries re-inserted in slot order
Resize(t, minused) ==
    LET n == NewSize(PySet_MINSIZE, minused)
        old == [k \in 1 .. Cardinality(Size(t)) |-> t.slots[k - 1]]
        keys == SelectSeq(old, LAMBDA h : h # NULL)
    IN [slots |-> FoldLeft(PutClean, [s \in 0 .. n - 1 |-> NULL], keys),
        used |-> t.used]

\* set_add_key: insert unless present; resize when fill*3 >= (mask+1)*2
SetAdd(t, h) ==
    LET s == SlotFor(t.slots, h)
        t2 == [slots |-> [t.slots EXCEPT ![s] = h], used |-> t.used + 1]
    IN IF t.slots[s] = h THEN t
       ELSE IF t2.used * 3 >= Cardinality(Size(t)) * 2
            THEN Resize(t2, t2.used * 4)
            ELSE t2

\* iter(set(lst)): the keys in slot order
SetIterOrder(lst) ==
    LET t == FoldLeft(SetAdd, EmptyTable, lst)
        slots == [k \in 1 .. Cardinality(Size(t)) |-> t.slots[k - 1]]
    IN SelectSeq(slots, LAMBDA h : h # NULL)

(***************************************************************************)
(* select_devices                                                          *)
(***************************************************************************)
Accept(devs) == [ok |-> TRUE, devs |-> devs, err |-> "none"]
Reject(why) == [ok |-> FALSE, devs |-> <<>>, err |-> why]

\* mutant: range(a, b), the end left out
Interval_EndExcluded(a, b) == [k \in 1 .. b - a |-> a + k - 1]

Interval(a, b) == [k \in 1 .. b - a + 1 |-> a + k - 1]    \* range(a, b+1)

\* mutant: a single device compared with >= num_devices-1
RECURSIVE Expand_SingleOffByOne(_, _)
Expand_SingleOffByOne(toks, acc) ==
    IF toks = <<>> THEN Accept(acc)
    ELSE LET t == Head(toks) IN
         CASE t.kind = "range" /\ (t.b > TOTAL_MICS - 1 \/ t.a > TOTAL_MICS - 1)
                -> Reject("out_of_range")
           [] t.kind = "range" /\ t.a > t.b -> Reject("invalid_range")
           [] t.kind = "range" -> Expand_SingleOffByOne(Tail(toks), acc \o Interval(t.a, t.b))
           [] t.n >= TOTAL_MICS - 1 -> Reject("out_of_range")
           [] OTHER -> Expand_SingleOffByOne(Tail(toks), Append(acc, t.n))

\* the expansion loop; found_out_of_range breaks it and is raised after it
RECURSIVE Expand(_, _)
Expand(toks, acc) ==
    IF toks = <<>> THEN Accept(acc)
    ELSE LET t == Head(toks) IN
         CASE t.kind = "range" /\ (t.b > TOTAL_MICS - 1 \/ t.a > TOTAL_MICS - 1)
                -> Reject("out_of_range")
           [] t.kind = "range" /\ t.a > t.b -> Reject("invalid_range")
           [] t.kind = "range" -> Expand(Tail(toks), acc \o Interval(t.a, t.b))
           [] t.n > TOTAL_MICS - 1 -> Reject("out_of_range")
           [] OTHER -> Expand(Tail(toks), Append(acc, t.n))

\* mutant: "all" expands to range(num_devices + 1)
SelectDevices_AllOffByOne(toks) ==
    IF toks = <<AllTok>> THEN Accept(Interval(0, TOTAL_MICS))
    ELSE IF \E k \in DOMAIN toks : toks[k] = AllTok THEN Reject("all_in_list")
    ELSE IF \E k \in DOMAIN toks : toks[k] = BadTok THEN Reject("invalid")
    ELSE LET r == Expand(toks, <<>>)
         IN IF r.ok THEN Accept(SetIterOrder(r.devs)) ELSE r

SelectDevices(toks) ==
    IF toks = <<AllTok>> THEN Accept(Interval(0, TOTAL_MICS - 1))
    ELSE IF \E k \in DOMAIN toks : toks[k] = AllTok THEN Reject("all_in_list")
    ELSE IF \E k \in DOMAIN toks : toks[k] = BadTok THEN Reject("invalid")
    ELSE LET r == Expand(toks, <<>>)
         IN IF r.ok THEN Accept(SetIterOrder(r.devs)) ELSE r

(***************************************************************************)
(* set_hostnames                                                           *)
(***************************************************************************)
OwnName == "own"        \* DeviceInfo.hostname defaults to device.name
MapName(m) == [n |-> m.n, pad |-> m.pad]

HostsOk(of) == [ok |-> TRUE, of |-> of, err |-> "none"]
HostsErr(why) == [ok |-> FALSE, of |-> <<>>, err |-> why]

\* mutant: the duplicate check left out, the last mapping wins
RECURSIVE Fill_NoDuplicate(_, _)
Fill_NoDuplicate(maps, dict) ==
    IF maps = <<>> THEN HostsOk(dict)
    ELSE LET m == Head(maps) IN
         IF m.n > TOTAL_MICS - 1 THEN HostsErr("inexistent")
         ELSE Fill_NoDuplicate(Tail(maps), (MapName(m) :> m.host) @@ dict)

\* the loop building the dict: `micname in hostnames` compares the strings,
\* the existence check their int()
RECURSIVE Fill(_, _)
Fill(maps, dict) ==
    IF maps = <<>> THEN HostsOk(dict)
    ELSE LET m == Head(maps) IN
         IF MapName(m) \in DOMAIN dict THEN HostsErr("duplicate")
         ELSE IF m.n > TOTAL_MICS - 1 THEN HostsErr("inexistent")
         ELSE Fill(Tail(maps), dict @@ (MapName(m) :> m.host))

\* device.hostname = hostnames.get(device.name, device.hostname)
set_hostnames(maps, devs) ==
    IF maps = <<>> THEN HostsOk([d \in Range(devs) |-> OwnName])
    ELSE IF BadMap \in Range(maps) THEN HostsErr("invalid_mapping")
    ELSE LET r == Fill(maps, <<>>)
             own(d) == [n |-> d, pad |-> 0]
         IN IF ~r.ok THEN r
            ELSE HostsOk([d \in Range(devs) |->
                          IF own(d) \in DOMAIN r.of THEN r.of[own(d)] ELSE OwnName])

(***************************************************************************)
(* main's setup: select_devices on one expression, then set_hostnames on  *)
(* one --devicehost list; main skips set_hostnames once select raised.    *)
(***************************************************************************)
VARIABLES expr, result, hostmap, hosts

vars == <<expr, result, hostmap, hosts>>

Pending == [ok |-> FALSE, devs |-> <<>>, err |-> "pending"]

Errors == {"pending", "none", "all_in_list", "invalid", "out_of_range",
           "invalid_range"}

HostsPending == HostsErr("pending")
Hosts == {m.host : m \in Mappings \ {BadMap}}

TypeOK ==
    /\ expr \in Inputs
    /\ result \in [ok : BOOLEAN, devs : Seq(0 .. TOTAL_MICS - 1), err : Errors]
    /\ hostmap \in HostInputs
    /\ hosts.ok \in BOOLEAN
    /\ hosts.err \in {"pending", "none", "invalid_mapping", "duplicate", "inexistent"}
    /\ hosts.of \in [ToSet(result.devs) -> Hosts \cup {OwnName}] \/ hosts.of = <<>>

Init ==
    /\ expr \in Inputs /\ result = Pending
    /\ hostmap \in HostInputs /\ hosts = HostsPending

Select ==
    /\ result = Pending /\ result' = SelectDevices(expr)
    /\ UNCHANGED <<expr, hostmap, hosts>>

SetHostnames ==
    /\ result.ok /\ hosts = HostsPending
    /\ hosts' = set_hostnames(hostmap, result.devs)
    /\ UNCHANGED <<expr, result, hostmap>>

Next == Select \/ SetHostnames

Spec == Init /\ [][Next]_vars

(***************************************************************************)
(* Properties, against the expansion spec.md 4.1 describes                *)
(***************************************************************************)

Lo(t) == IF t.a <= t.b THEN t.a ELSE t.b
Hi(t) == IF t.a <= t.b THEN t.b ELSE t.a

\* the ordinals an expression names, ranges taken in either direction
SpecDevs(toks) ==
    IF toks = <<AllTok>> THEN 0 .. TOTAL_MICS - 1
    ELSE UNION {IF t.kind = "mic" THEN {t.n} ELSE Lo(t) .. Hi(t) :
                t \in Range(toks) \ {AllTok, BadTok}}

\* spec.md 4.1: "all" mixed with tokens, a malformed token, or an
\* ordinal >= totalDevices is rejected; nothing else is
SpecRejects(toks) ==
    /\ toks # <<AllTok>>
    /\ \/ AllTok \in Range(toks) \/ BadTok \in Range(toks)
       \/ \E n \in SpecDevs(toks) : n >= TOTAL_MICS

ReversedRange(toks) == \E k \in DOMAIN toks : toks[k].kind = "range" /\ toks[k].a > toks[k].b

\* An accepted selection names exactly the devices of its tokens, each once,
\* all among the detected ones (the expansion loop, its out-of-range
\* checks and the de-duplication through set()).
SelectionSound ==
    result.ok =>
        /\ ToSet(result.devs) = SpecDevs(expr)
        /\ IsInjective(result.devs)
        /\ \A k \in DOMAIN result.devs : result.devs[k] < TOTAL_MICS

\* select_devices rejects an expression only when spec.md 4.1 rejects it,
\* or for the one rule it adds: a range written high to low.
RejectionJustified ==
    (result.err \notin {"pending", "none"}) =>
        \/ SpecRejects(expr)
        \/ result.err = "invalid_range" /\ ReversedRange(expr)

\* spec.md 4.1 and 8: the selection is sorted ascending by ordinal (the
\* device loop of TestRunner.run and its output follow this order).
SelectionAscending ==
    result.ok => \A k \in 1 .. Len(result.devs) - 1 : result.devs[k] < result.devs[k + 1]

\* the --devicehost lists the option's help describes: well-formed entries,
\* one per device name, each naming a detected device
HostsAcceptable(maps) ==
    /\ BadMap \notin Range(maps)
    /\ \A k \in DOMAIN maps : maps[k].n < TOTAL_MICS
    /\ \A j, k \in DOMAIN maps : j # k => MapName(maps[j]) # MapName(maps[k])

\* set_hostnames raises exactly for the lists that are not acceptable; when it
\* returns, each selected device is pinged and ssh'd under the host of the
\* one mapping written with its name, or under its own name if none is.
HostnamesSound ==
    hosts.err # "pending" =>
        /\ hosts.ok <=> HostsAcceptable(hostmap)
        /\ hosts.ok =>
              \A d \in DOMAIN hosts.of :
                  LET named == {k \in DOMAIN hostmap : MapName(hostmap[k]) = [n |-> d, pad |-> 0]}
                  IN IF named = {} THEN hosts.of[d] = OwnName
                     ELSE \E k \in named : named = {k} /\ hosts.of[d] = hostmap[k].host

=============================================================================
