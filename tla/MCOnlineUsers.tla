--------------------------- MODULE MCOnlineUsers ---------------------------
(* Small instances of OnlineUsers.                                         *)
EXTENDS OnlineUsers

CONSTANTS u1, u2

\* Two users who are friends of each other.
Mutual == [u \in Uid |-> IF u = u1 THEN <<u2>> ELSE <<u1>>]
==============================================================================
