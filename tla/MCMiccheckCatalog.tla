------------------------- MODULE MCMiccheckCatalog -------------------------
(* get_all_tests for every set of optional-test flags, on a host with two  *)
(* KNL devices, both selected.                                             *)
EXTENDS MiccheckCatalog

MCTotalMics == 2
MCNDevices == 2

=============================================================================
