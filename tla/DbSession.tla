------------------------------ MODULE DbSession ------------------------------
(***************************************************************************)
(* The one MySQL connection the whole server shares, seen from outside     *)
(* DataBase::mutex_: every locked section of DataBase is a single step.    *)
(* DataBase keeps a single unique_ptr<MYSQL>; each request handler opens   *)
(* it, runs its statements and closes it again, on whichever of the worker *)
(* threads the handler runs, so one handler can close the connection       *)
(* another one is about to use.  A statement on the empty pointer kills    *)
(* the process: mysql_query dereferences it.                               *)
(*                                                                         *)
(* The request-handling modules extend this module.  DatabaseCalls makes a *)
(* specification of it, which MysqlHandle, the same component at the grain *)
(* of the lock, implements.                                                *)
(***************************************************************************)

VARIABLES
    mysql,    \* TRUE iff the unique_ptr holds an open connection
    status    \* "up", or what the process died of

dbVars == <<mysql, status>>

\* What the server process can die of: a statement on the null handle, and
\* the exceptions no handler catches (map::at, stoull).
Deaths == {"null_handle", "no_such_group", "bad_number"}

DbTypeOK == /\ mysql \in BOOLEAN
            /\ status \in {"up"} \union Deaths

Up == status = "up"

DbInit == mysql = FALSE /\ Up

\* database_connect: a fresh connection replaces the one held, if any.
Connect == Up /\ mysql' = TRUE /\ UNCHANGED status

\* database_disconnect: the pointer is emptied, whoever opened it.
Disconnect == Up /\ mysql' = FALSE /\ UNCHANGED status

\* A statement that finds the connection open.
UseHandle == Up /\ mysql /\ UNCHANGED dbVars

\* The process dies; the connection goes with it.
Die(why) == Up /\ mysql' = FALSE /\ status' = why

\* A statement on the null pointer.
UseNull == ~mysql /\ Die("null_handle")

\* The server is started again: main, the constructor of ChatServer.
Reboot == ~Up /\ mysql' = FALSE /\ status' = "up"
==============================================================================
