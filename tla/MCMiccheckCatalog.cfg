\* get_all_tests for every flag combination and every globals() order.
CONSTANTS
    TOTAL_MICS <- MCTotalMics
    NDevices <- MCNDevices

SPECIFICATION Spec

\* a single call: the state after it has no successor
CHECK_DEADLOCK FALSE

INVARIANT TypeOK
INVARIANT CatalogMatchesSpec
