--------------------------- MODULE MCFileTransfer ---------------------------
EXTENDS FileTransfer

\* Below, at and above one message, at a multiple, and up to three messages.
MCSizes == 1 .. 6
=============================================================================
