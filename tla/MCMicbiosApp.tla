---------------------------- MODULE MCMicbiosApp ----------------------------
EXTENDS MicbiosApp

\* two cards; device numbers up to one past the last card
MCNumMics == 2
MCMaxId == 2
\* two tokens show duplicates, overlaps and "all" inside a list
MCMaxTokens == 2
\* two ports show the bind loop moving on and giving up
MCMaxPort == 2
\* one rerun after a failure shows the cards a first set-pass changed
MCMaxRuns == 2
=============================================================================
