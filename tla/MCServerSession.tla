-------------------------- MODULE MCServerSession --------------------------
(***************************************************************************)
(* Instances of ServerSession for TLC.                                     *)
(***************************************************************************)
EXTENDS ServerSession, TLC

CONSTANTS i1, h1, h2, u1, u2

OneId == {i1}
TwoHandshakes == {h1, h2}
OneUser == {u1}
TwoUsers == {u1, u2}

OnlyPlain == {"plain"}
AllShapes == AllKinds
Lasting == {"plain", "lockwait", "stream"}

Symmetry == Permutations(Ids) \cup Permutations(Handshakes) \cup Permutations(Users)

=============================================================================
