--------------------------- MODULE MCGroupService ---------------------------
(* Small instances of GroupService.                                        *)
EXTENDS GroupService

CONSTANTS u1, u2, u3

\* No uid's text occurs in another's.
Apart == [u \in Uid |-> {u}]

\* The text of u1 occurs in u3's.
Nested == [u \in Uid |-> IF u = u1 THEN {u1, u3} ELSE {u}]

Symmetry == Permutations(Thread) \union Permutations(Gid)
==============================================================================
