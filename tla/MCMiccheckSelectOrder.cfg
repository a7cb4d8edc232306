\* spec.md 4.1: the selection is sorted ascending.
CONSTANTS
    TOTAL_MICS <- MCTotalMics
    MaxId <- MCMaxId
    MaxTokens <- MCMaxTokens
    Mappings <- MCMappings
    MaxMappings <- MCNoMappings

SPECIFICATION Spec

\* main's setup ends after set_hostnames, or after the step that raised
CHECK_DEADLOCK FALSE

INVARIANT SelectionAscending
