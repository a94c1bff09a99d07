------------------------------ MODULE Transfer ------------------------------
(***************************************************************************)
(* What a read, write or copy of size bytes promises, as technical.md has  *)
(* it ("callers must rely on returned byte counts and errors"): bytes move *)
(* in order; a success reports exactly the bytes that moved and none moves *)
(* after it; after an error the bytes moved are a prefix no shorter than   *)
(* the count reported, and more may still move.                            *)
(***************************************************************************)
EXTENDS Naturals

VARIABLES
  size,    \* bytes asked for
  moved,   \* bytes moved
  code, count

vars == <<size, moved, code, count>>

Init == size \in Nat /\ moved = 0 /\ code = "none" /\ count = 0

Move ==
  /\ code # "OK"
  /\ moved' \in moved + 1 .. size
  /\ UNCHANGED <<size, code, count>>

Succeed ==
  /\ code = "none"
  /\ moved' \in moved .. size
  /\ code' = "OK" /\ count' = moved'
  /\ UNCHANGED size

Fail ==
  /\ code = "none"
  /\ code' = "ERR" /\ count' \in 0 .. moved
  /\ UNCHANGED <<size, moved>>

Spec == Init /\ [][Move \/ Succeed \/ Fail]_vars
=============================================================================
