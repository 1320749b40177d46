---------------------------- MODULE DatabaseCalls ----------------------------
(***************************************************************************)
(* What DataBase promises the threads that call it: every call takes       *)
(* effect at one moment.  The calls are the actions of DbSession; here     *)
(* they also say which connection a statement ran on, so that a statement  *)
(* whose connection is closed or replaced half way is no step of this      *)
(* specification.                                                          *)
(***************************************************************************)
EXTENDS DbSession

CONSTANTS
    Thread,    \* the callers
    Handle,    \* connections
    NoHandle   \* no connection

VARIABLES
    current,   \* the connection DataBase holds; mysql says whether it is one
    ranOn      \* the connection the last statement of each caller's session
               \* ran on

callVars == <<mysql, status, current, ranOn>>

NoStatement == [t \in Thread |-> NoHandle]

Init == DbInit /\ current = NoHandle /\ ranOn = NoStatement

Connected(t) == Connect /\ current' \in Handle \ {current} /\ UNCHANGED ranOn

\* The statement's connection is the one DataBase holds at that moment.
Statement(t) == UseHandle /\ ranOn' = [ranOn EXCEPT ![t] = current]
                /\ UNCHANGED current

Disconnected(t) == /\ Disconnect
                   /\ current' = NoHandle
                   /\ ranOn' = [ranOn EXCEPT ![t] = NoHandle]

Died == UseNull /\ current' = NoHandle /\ ranOn' = NoStatement

Rebooted == Reboot /\ UNCHANGED <<current, ranOn>>

Next == \/ Died \/ Rebooted
        \/ \E t \in Thread : Connected(t) \/ Statement(t) \/ Disconnected(t)

Spec == Init /\ [][Next]_callVars
==============================================================================
