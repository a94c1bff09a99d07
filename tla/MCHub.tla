------------------------------- MODULE MCHub -------------------------------
(***************************************************************************)
(* Instances of Hub for TLC.                                               *)
(***************************************************************************)
EXTENDS Hub, TLC

CONSTANTS h1, h2, h3, s1

TwoHups == {h1, h2}
ThreeHups == {h1, h2, h3}
NoStop == {}
OneStop == {s1}

At(net, addr, tls) == [net |-> net, addr |-> addr, tls |-> tls]
Config(l, w, d, v) == [listener |-> l, wsfs |-> w, decodes |-> d, valid |-> v]

FirstConfig == Config(At("tcp", "a", FALSE), TRUE, TRUE, TRUE)
OtherPort == Config(At("tcp", "b", FALSE), TRUE, TRUE, TRUE)
NoWsfs == Config(At("tcp", "a", FALSE), FALSE, TRUE, TRUE)
Socket == Config(At("unix", "s", FALSE), TRUE, TRUE, TRUE)
SocketTLS == Config(At("unix", "s", TRUE), TRUE, TRUE, TRUE)
SamePortTLS == Config(At("tcp", "a", TRUE), TRUE, TRUE, TRUE)
Unreadable == Config(At("tcp", "a", FALSE), TRUE, FALSE, TRUE)
Invalid == Config(At("tcp", "b", FALSE), TRUE, TRUE, FALSE)

AllConfigs == {FirstConfig, OtherPort, NoWsfs, Socket, SocketTLS, SamePortTLS, Unreadable, Invalid}
TwoConfigs == {FirstConfig, OtherPort}

Symmetry == Permutations(Hups)
=============================================================================
