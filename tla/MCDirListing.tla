---------------------------- MODULE MCDirListing ----------------------------
(***************************************************************************)
(* Instances of DirListing for TLC: every directory of up to three         *)
(* entries of the kinds in use.                                            *)
(***************************************************************************)
EXTENDS DirListing

File == [isDir |-> FALSE, sentDir |-> FALSE, size |-> 0, opens |-> "noopen"]
\* A link to a directory outside the storage.
LinkOut == [isDir |-> FALSE, sentDir |-> TRUE, size |-> 1, opens |-> "ok"]
\* A directory removed between ReadDir and stat.
Removed == [isDir |-> TRUE, sentDir |-> FALSE, size |-> 0, opens |-> "noopen"]
\* A directory that was away when stat looked and is back when it is opened.
Away == [isDir |-> TRUE, sentDir |-> FALSE, size |-> 1, opens |-> "ok"]
Dir(n, o) == [isDir |-> TRUE, sentDir |-> TRUE, size |-> n, opens |-> o]

Kinds == {File, LinkOut, Removed, Away, Dir(0, "ok"), Dir(1, "ok"), Dir(2, "ok"),
          Dir(1, "ioerr"), Dir(0, "noopen")}
Links == {File, LinkOut, Dir(1, "ok")}

\* Prefetch is disabled for the ones of four entries.
AllRoots == BoundedSeq(Kinds, 3) \cup [1 .. 4 -> {File, Dir(1, "ok")}]
SmallRoots == BoundedSeq(Links, 3)
=============================================================================
