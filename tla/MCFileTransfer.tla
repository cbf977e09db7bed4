--------------------------- MODULE MCFileTransfer ---------------------------
\* Instances of FileTransfer for TLC.
EXTENDS FileTransfer, TLC

\* Books and file names are interchangeable; folders are not, because of Root.
Alike == Permutations(Books) \union Permutations(Names)
=============================================================================
