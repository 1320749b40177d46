-------------------------- MODULE MCMediaTransfer ---------------------------
EXTENDS MediaTransfer, TLC

CONSTANTS a, b, c

Sent(n, u, group, to, picture, size) == [copy |-> n, from |-> u, to |-> to,
    group |-> group, picture |-> picture, size |-> size, sound |-> size > 0]

\* Two pictures for one friend at once, one of them followed by a file for a
\* group that the sender is in, and whose list names the friend twice.
MCUser == {a, b, c}
MCRequests ==
    (a :> <<Sent(1, a, FALSE, <<c>>, TRUE, 2)>>) @@
    (b :> <<Sent(2, b, FALSE, <<c>>, TRUE, 2), Sent(3, b, TRUE, <<b, c, c>>, FALSE, 1)>>) @@
    (c :> <<>>)
=============================================================================
