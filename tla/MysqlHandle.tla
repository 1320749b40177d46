----------------------------- MODULE MysqlHandle -----------------------------
(***************************************************************************)
(* class DataBase at the grain of its lock: worker threads open, use and   *)
(* close the MYSQL object held by the shared unique_ptr, each under the    *)
(* std::shared_mutex mutex_ (exclusive for connect, disconnect and         *)
(* exec_update, shared for the queries).                                   *)
(*                                                                         *)
(* A request handler is a session: database_connect, statements,           *)
(* database_disconnect.  Some handlers check the result of connect and     *)
(* some do not; both go on here.                                           *)
(***************************************************************************)
EXTENDS Naturals, FiniteSets

CONSTANTS
    Thread,    \* the worker threads
    Handle,    \* addresses of MYSQL objects; a closed one may be reused
    NoHandle,  \* the null pointer
    NoThread   \* no owner of the exclusive lock

ASSUME HandleAssumption == NoHandle \notin Handle
ASSUME ThreadAssumption == NoThread \notin Thread

VARIABLES
    mysql,     \* the unique_ptr
    opened,    \* MYSQL objects created and not yet closed
    writer,    \* the thread holding mutex_ exclusively, or NoThread
    readers,   \* the threads holding mutex_ shared
    pc,        \* where each thread is; "session" is between two statements
    connected, \* the threads whose connect succeeded and that have not begun
               \* to disconnect
    mine,      \* the MYSQL object a thread is working with
    ranOn,     \* the object the last statement of each session ended on
    status     \* "up" or "null_handle"

vars == <<mysql, opened, writer, readers, pc, connected, mine, ranOn,
          status>>

TypeOK ==
    /\ mysql \in Handle \union {NoHandle}
    /\ opened \in SUBSET Handle
    /\ writer \in Thread \union {NoThread}
    /\ readers \in SUBSET Thread
    /\ pc \in [Thread -> {"idle", "opening", "session", "reading",
                          "updating", "closing", "leaving"}]
    /\ connected \in SUBSET Thread
    /\ mine \in [Thread -> Handle \union {NoHandle}]
    /\ ranOn \in [Thread -> Handle \union {NoHandle}]
    /\ status \in {"up", "null_handle"}

Init ==
    /\ mysql = NoHandle
    /\ opened = {}
    /\ writer = NoThread
    /\ readers = {}
    /\ pc = [t \in Thread |-> "idle"]
    /\ connected = {}
    /\ mine = [t \in Thread |-> NoHandle]
    /\ ranOn = [t \in Thread |-> NoHandle]
    /\ status = "up"

------------------------------------------------------------------------------
At(t, from) == status = "up" /\ pc[t] = from
Goto(t, to) == pc' = [pc EXCEPT ![t] = to]

\* std::unique_lock and std::shared_lock on mutex_, and their release.
LockAnyway(t) == writer' = t /\ UNCHANGED readers   \* Mutant: readers do not exclude.
LockExclusive(t) == /\ writer = NoThread /\ readers = {}
                    /\ writer' = t
                    /\ UNCHANGED readers

ReadAnyway(t) == readers' = readers \union {t} /\ UNCHANGED writer   \* Mutant: readers wait for nobody.
LockShared(t) == /\ writer = NoThread
                 /\ readers' = readers \union {t}
                 /\ UNCHANGED writer

UnlockExclusive == writer' = NoThread /\ UNCHANGED readers
UnlockShared(t) == readers' = readers \ {t} /\ UNCHANGED writer

\* database_connect: the lock is taken and mysql_init allocates an object ...
BeginConnect(t) ==
    /\ At(t, "idle")
    /\ LockExclusive(t)
    /\ \E h \in Handle \ opened :
          /\ opened' = opened \union {h}
          /\ mine' = [mine EXCEPT ![t] = h]
    /\ Goto(t, "opening")
    /\ UNCHANGED <<mysql, connected, ranOn, status>>

\* ... which, connected, is given to the unique_ptr: reset closes the object
\* the pointer held before, whichever handler opened that one.
EndConnectLeaking(t) ==   \* Mutant: the object held before is not closed.
    /\ At(t, "opening")
    /\ mysql' = mine[t]
    /\ mine' = [mine EXCEPT ![t] = NoHandle]
    /\ UnlockExclusive
    /\ Goto(t, "session")
    /\ connected' = connected \union {t}
    /\ UNCHANGED <<opened, ranOn, status>>

EndConnect(t) ==
    /\ At(t, "opening")
    /\ mysql' = mine[t]
    /\ opened' = opened \ {mysql}
    /\ mine' = [mine EXCEPT ![t] = NoHandle]
    /\ UnlockExclusive
    /\ Goto(t, "session")
    /\ connected' = connected \union {t}
    /\ UNCHANGED <<ranOn, status>>

\* mysql_real_connect or SET NAMES fails: the new object is closed and the
\* pointer keeps what it had.  The caller returns, or goes on unchecked.
ConnectFails(t) ==
    /\ At(t, "opening")
    /\ opened' = opened \ {mine[t]}
    /\ mine' = [mine EXCEPT ![t] = NoHandle]
    /\ UnlockExclusive
    /\ Goto(t, "idle") \/ Goto(t, "session")
    /\ UNCHANGED <<mysql, connected, ranOn, status>>

\* exec_query_and_fetch_row(s): under the shared lock, mysql_query and
\* mysql_store_result on the same pointer.
BeginQuery(t) ==
    /\ At(t, "session")
    /\ mysql # NoHandle
    /\ LockShared(t)
    /\ mine' = [mine EXCEPT ![t] = mysql]
    /\ Goto(t, "reading")
    /\ UNCHANGED <<mysql, opened, connected, ranOn, status>>

EndQuery(t) ==
    /\ At(t, "reading")
    /\ UnlockShared(t)
    /\ ranOn' = [ranOn EXCEPT ![t] = mine[t]]
    /\ mine' = [mine EXCEPT ![t] = NoHandle]
    /\ Goto(t, "session")
    /\ UNCHANGED <<mysql, opened, connected, status>>

\* exec_update: one statement under the exclusive lock.
BeginUpdate(t) ==
    /\ At(t, "session")
    /\ mysql # NoHandle
    /\ LockExclusive(t)
    /\ mine' = [mine EXCEPT ![t] = mysql]
    /\ Goto(t, "updating")
    /\ UNCHANGED <<mysql, opened, connected, ranOn, status>>

EndUpdate(t) ==
    /\ At(t, "updating")
    /\ UnlockExclusive
    /\ ranOn' = [ranOn EXCEPT ![t] = mine[t]]
    /\ mine' = [mine EXCEPT ![t] = NoHandle]
    /\ Goto(t, "session")
    /\ UNCHANGED <<mysql, opened, connected, status>>

\* database_disconnect: reset empties the pointer and closes the object.
BeginDisconnect(t) ==
    /\ At(t, "session") \/ At(t, "leaving")
    /\ LockExclusive(t)
    /\ mine' = [mine EXCEPT ![t] = mysql]
    /\ mysql' = NoHandle
    /\ connected' = connected \ {t}
    /\ ranOn' = [ranOn EXCEPT ![t] = NoHandle]
    /\ Goto(t, "closing")
    /\ UNCHANGED <<opened, status>>

\* The handler is done with the session, or (thread_login, for every friend
\* who is not online) runs no more statements and disconnects again.
EndDisconnect(t) ==
    /\ At(t, "closing")
    /\ opened' = opened \ {mine[t]}
    /\ mine' = [mine EXCEPT ![t] = NoHandle]
    /\ UnlockExclusive
    /\ Goto(t, "idle") \/ Goto(t, "leaving")
    /\ UNCHANGED <<mysql, connected, ranOn, status>>

\* A statement, read or update, that finds the pointer null: mysql_query
\* dereferences it and the process dies with every thread in it.
NullUse(t) ==
    /\ At(t, "session")
    /\ mysql = NoHandle
    /\ writer = NoThread
    /\ status' = "null_handle"
    /\ mysql' = NoHandle
    /\ opened' = {}
    /\ writer' = NoThread
    /\ readers' = {}
    /\ pc' = [u \in Thread |-> "idle"]
    /\ connected' = {}
    /\ mine' = [u \in Thread |-> NoHandle]
    /\ ranOn' = [u \in Thread |-> NoHandle]

\* The server is started again.
Restart ==
    /\ status # "up"
    /\ status' = "up"
    /\ UNCHANGED <<mysql, opened, writer, readers, pc, connected, mine, ranOn>>

Step(t) ==
    \/ BeginConnect(t) \/ EndConnect(t) \/ ConnectFails(t)
    \/ BeginQuery(t) \/ EndQuery(t)
    \/ BeginUpdate(t) \/ EndUpdate(t)
    \/ BeginDisconnect(t) \/ EndDisconnect(t)
    \/ NullUse(t)

Next == Restart \/ \E t \in Thread : Step(t)

Spec == Init /\ [][Next]_vars

------------------------------------------------------------------------------
\* Whatever the threads do, the object a thread runs a statement on is still
\* open and still the one in the pointer when the statement ends: no connect
\* or disconnect of another handler closes it or replaces it half way.
StatementHandleStable ==
    \A t \in Thread : pc[t] \in {"reading", "updating"} =>
        /\ mine[t] = mysql
        /\ mine[t] \in opened

\* No MYSQL object is lost: the open ones are the one in the pointer and those
\* a thread inside connect or disconnect still has in hand.
NoHandleLeaks ==
    opened \ {mysql} \subseteq {mine[t] : t \in {u \in Thread :
                                      pc[u] \in {"opening", "closing"}}}

\* When no handler is between its connect and its disconnect, the server
\* holds no database connection, however the sessions overlapped.
QuiescentClosed ==
    (\A t \in Thread : pc[t] = "idle") => mysql = NoHandle /\ opened = {}

\* The component seen from outside its lock.
Outside == INSTANCE DatabaseCalls WITH
    mysql <- mysql # NoHandle, current <- mysql

\* The locked sections are atomic: each connect, disconnect and statement takes
\* effect at one moment, a statement on the connection held at that moment,
\* and a process dies only of a statement that finds none.
LockedSectionsAtomic == Outside!Spec
=============================================================================
