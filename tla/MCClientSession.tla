-------------------------- MODULE MCClientSession --------------------------
(***************************************************************************)
(* Instances of ClientSession for TLC.                                     *)
(***************************************************************************)
EXTENDS ClientSession, TLC

CONSTANTS p1, p2, k1

TwoCallers == {p1, p2}
OneCloser == {k1}
NoCloser == {}
OnlyCommands == {"cmd"}
CommandsAndReads == {"cmd", "read"}
AllShapes == AllKinds
NoErrors == {}
MappedErrors == {"ERR"}
AnyError == {"ERR", "UNKNOWN"}

Symmetry == Permutations(TwoCallers)
=============================================================================
