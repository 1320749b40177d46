---------------------------- MODULE PacketQueue -----------------------------
(***************************************************************************)
(* What one direction of a connection between client and server promises:  *)
(* packets are handed over in the order they were sent, each at most once, *)
(* and none is passed over but those that cannot be parsed, unless one was *)
(* sent before it whose size the receiver does not accept.                 *)
(***************************************************************************)
EXTENDS Naturals, Sequences

CONSTANT MaxPackets   \* bound: packets sent

VARIABLES
    packets,   \* the kinds of the packets sent
    handed     \* the numbers of those that were handed over

Kinds == {"good", "unparsable", "oversized"}

Init == packets = <<>> /\ handed = <<>>

Send ==
    /\ Len(packets) < MaxPackets
    /\ \E k \in Kinds : packets' = Append(packets, k)
    /\ UNCHANGED handed

Last == IF handed = <<>> THEN 0 ELSE handed[Len(handed)]

PassedOver(j) ==
    packets[j] = "good" => \E k \in 1..j : packets[k] = "oversized"

HandOver(i) ==
    /\ i > Last
    /\ packets[i] = "good"
    /\ \A j \in (Last + 1)..(i - 1) : PassedOver(j)
    /\ handed' = Append(handed, i)
    /\ UNCHANGED packets

Next == Send \/ \E i \in 1..Len(packets) : HandOver(i)

QueueSpec == Init /\ [][Next]_<<packets, handed>>
==============================================================================
