-------------------------- MODULE MCFriendService ---------------------------
(* Small instances of FriendService.                                       *)
EXTENDS FriendService

Symmetry == Permutations(Thread) \union Permutations(Uid) \union Permutations(Name)
==============================================================================
