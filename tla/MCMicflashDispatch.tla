------------------------- MODULE MCMicflashDispatch -------------------------
EXTENDS MicflashDispatch

\* image paths of one word
MCPaths == {<<"fw.img">>}
\* image paths of one and of two words
MCPathsBlank == {<<"fw.img">>, <<"my", "fw.img">>}
MCDev == "mic0"
=============================================================================
