---------------------------- MODULE MCNgSession ----------------------------
(* NgSession for TLC.  All sessions come from one address, so that the cap *)
(* on detached sessions binds; connections are interchangeable.            *)
EXTENDS NgSessionInv, TLC

CONSTANTS s1, s2, c1, c2, c3

AddrOne == [s \in Sessions |-> "a"]

ConnSymmetry == Permutations(Conns)
=============================================================================
