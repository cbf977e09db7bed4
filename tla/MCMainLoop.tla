----------------------------- MODULE MCMainLoop -----------------------------
\* Instance of MainLoop for TLC: the power button and two paging keys.
EXTENDS MainLoop

PagingKeys == {"Power", "Up", "Down"}
=============================================================================
