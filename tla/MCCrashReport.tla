--------------------------- MODULE MCCrashReport ----------------------------
\* Instance of CrashReport for TLC: a ring of three lines that wraps, and three
\* crashes, so that one can be told, one owed and one on top of it.
EXTENDS CrashReport

MCLines == {"a", "b"}
=============================================================================
