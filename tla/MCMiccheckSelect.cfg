\* select_devices against the spec's expansion rules.
CONSTANTS
    TOTAL_MICS <- MCTotalMics
    MaxId <- MCMaxId
    MaxTokens <- MCMaxTokens
    Mappings <- MCMappings
    MaxMappings <- MCMaxMappings

SPECIFICATION Spec

\* main's setup ends after set_hostnames, or after the step that raised
CHECK_DEADLOCK FALSE

INVARIANT TypeOK
INVARIANT SelectionSound
INVARIANT RejectionJustified
INVARIANT HostnamesSound
