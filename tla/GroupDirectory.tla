--------------------------- MODULE GroupDirectory ---------------------------
(***************************************************************************)
(* What a directory of groups promises its users: a group starts with its  *)
(* owner, members are added one at a time and none is lost, and whoever is *)
(* told he is in is in.  A Durable directory keeps this across a restart;  *)
(* the other starts over with whatever it is given.  The promise may be    *)
(* given up, and is then never made again.                                 *)
(***************************************************************************)
CONSTANTS Uid, Gid, Durable

VARIABLES
    members,   \* the set of members by gid; {}: there is no such group
    told,      \* <<gid, uid>> told "success" since the last restart
    kept       \* the promise is still made

dirVars == <<members, told, kept>>

Init == members = [g \in Gid |-> {}] /\ told = {} /\ kept = TRUE

\* A user joins a group or, if there is none, a group is created for him.
Enter == \E g \in Gid, u \in Uid :
    /\ members' = [members EXCEPT ![g] = @ \union {u}]
    /\ UNCHANGED told

\* Some members are told.
Tell == \E g \in Gid : \E us \in SUBSET members[g] :
    /\ told' = told \union ({g} \X us)
    /\ UNCHANGED members

\* The process ends, or starts again.
Reset ==
    /\ told' = {}
    /\ \/ Durable /\ UNCHANGED members
       \/ ~Durable /\ members' \in [Gid -> SUBSET Uid]

Next == \/ kept /\ kept' /\ (Enter \/ Tell \/ Reset)
        \/ ~kept'

Spec == Init /\ [][Next]_dirVars
==============================================================================
