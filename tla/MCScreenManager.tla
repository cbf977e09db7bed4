--------------------------- MODULE MCScreenManager ---------------------------
\* Instance of ScreenManager for TLC: twelve addresses.  The deepest path has five
\* screens, so addresses never run out and a stack of eight could be built.
EXTENDS ScreenManager

MCIds == 1..12
=============================================================================
