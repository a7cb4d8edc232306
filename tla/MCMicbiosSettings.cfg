\* Set*/getinfo round trips through the settings word.
CONSTANT MaxWrites <- MCMaxWrites

SPECIFICATION Spec

\* micbios is run at most MaxWrites times for a write; getinfo can always run
INVARIANT TypeOK
INVARIANT WordRoundTrip
INVARIANT GetinfoShowsLastSet
INVARIANT GetinfoReadsWhatSetWrites
INVARIANT ParsedCommandsDispatch
