-------------------------- MODULE MCPacketFraming ---------------------------
(* Small instances of PacketFraming.                                       *)
EXTENDS PacketFraming

\* What four bytes from the middle of a text read as: a number below zero, one
\* in range and one that no buffer will ever hold.
MCMisread == {-1, 1, 50}
==============================================================================
