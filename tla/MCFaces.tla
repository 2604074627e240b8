------------------------------ MODULE MCFaces ------------------------------
EXTENDS Faces

CONSTANTS list, explain, mcprun, cli

TwoSelections == {"default", "tagged"}
TwoFiles     == 1 .. 2

\* Two calls over a moving tree, one tool's calls under changing selections;
\* a run of the server's and one of the command line's, each disturbed, then
\* beside each other and beside a call.
SevenCasts ==
    {{list, explain, "editor"}, {list, "editor", "tags"}, {mcprun, "world"}, {cli, "world"}, {mcprun, cli}, {mcprun, list}, {list, "world"}}
==============================================================================
