-------------------------- MODULE MCMiccheckSelect --------------------------
(* select_devices on every list of at most two tokens whose numbers reach *)
(* one past the last device. Nine devices is the smallest count for which *)
(* two ordinals share a slot of the initial 8-slot set table.             *)
EXTENDS MiccheckSelect

MCTotalMics == 9
MCMaxId == 9
MCMaxTokens == 2

\* --devicehost elements: mic8 (the last device) with two hosts, mic08 (the
\* same device padded), mic9 (not detected), and a malformed one
MCMappings ==
    {[kind |-> "map", n |-> 8, pad |-> 0, host |-> "h1"],
     [kind |-> "map", n |-> 8, pad |-> 0, host |-> "h2"],
     [kind |-> "map", n |-> 8, pad |-> 1, host |-> "h2"],
     [kind |-> "map", n |-> 9, pad |-> 0, host |-> "h1"],
     BadMap}
MCMaxMappings == 2
MCNoMappings == 0

=============================================================================
