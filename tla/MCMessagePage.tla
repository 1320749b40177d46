--------------------------- MODULE MCMessagePage ---------------------------
EXTENDS MessagePage

CONSTANTS u1, g1

\* A message for the group and two for the user himself: the sender of the
\* first is looked up while the second arrives, and the table may have him
\* when the third does.
MCTraffic == <<[from |-> u1, to |-> g1], [from |-> u1, to |-> u1],
               [from |-> u1, to |-> u1]>>
=============================================================================
