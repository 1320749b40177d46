-------------------------- MODULE MysqlHandleProofs --------------------------
(***************************************************************************)
(* The safety of the shared database handle, for any set of threads and    *)
(* any set of MYSQL objects: an inductive invariant IInv that ties the     *)
(* lock to the program counters and the program counters to the pointer,   *)
(* the invariants it implies, and the refinement of DatabaseCalls.         *)
(***************************************************************************)
EXTENDS MysqlHandle, TLAPS

\* mutex_ as a reader-writer lock: who is inside a locked section holds it.
LockInv ==
    /\ \A t \in Thread :
          writer = t <=> pc[t] \in {"opening", "updating", "closing"}
    /\ \A t \in Thread : t \in readers <=> pc[t] = "reading"
    /\ writer # NoThread => readers = {}

\* What each place of the program knows of the pointer.
PointerInv ==
    /\ mysql # NoHandle => mysql \in opened
    /\ \A t \in Thread : pc[t] = "opening" =>
          mine[t] \in opened /\ mine[t] # mysql
    /\ \A t \in Thread : pc[t] \in {"reading", "updating"} =>
          mine[t] = mysql /\ mysql # NoHandle
    /\ \A t \in Thread : pc[t] = "closing" => mysql = NoHandle

\* The pointer is not empty only while some session is open: the last thread to
\* set it has not begun to disconnect.  A dead process has none.
OwnerInv ==
    /\ mysql # NoHandle => connected # {} /\ status = "up"
    /\ \A t \in connected : pc[t] \in {"session", "reading", "updating"}

IInv == TypeOK /\ LockInv /\ PointerInv /\ OwnerInv /\ NoHandleLeaks

LEMMA InitIInv == Init => IInv
BY HandleAssumption, ThreadAssumption
   DEF Init, IInv, TypeOK, LockInv, PointerInv, OwnerInv, NoHandleLeaks

LEMMA StepIInv == ASSUME IInv, NEW t \in Thread, Step(t) PROVE IInv'
<1> USE HandleAssumption, ThreadAssumption
    DEF IInv, TypeOK, LockInv, PointerInv, OwnerInv, NoHandleLeaks,
        At, Goto, LockExclusive, LockShared, UnlockExclusive, UnlockShared
<1>1. CASE BeginConnect(t)  BY <1>1 DEF BeginConnect
<1>2. CASE EndConnect(t)  BY <1>2 DEF EndConnect
<1>3. CASE ConnectFails(t)  BY <1>3 DEF ConnectFails
<1>4. CASE BeginQuery(t)  BY <1>4 DEF BeginQuery
<1>5. CASE EndQuery(t)  BY <1>5 DEF EndQuery
<1>6. CASE BeginUpdate(t)  BY <1>6 DEF BeginUpdate
<1>7. CASE EndUpdate(t)  BY <1>7 DEF EndUpdate
<1>8. CASE BeginDisconnect(t)  BY <1>8 DEF BeginDisconnect
<1>9. CASE EndDisconnect(t)  BY <1>9 DEF EndDisconnect
<1>10. CASE NullUse(t)  BY <1>10 DEF NullUse
<1> QED  BY <1>1, <1>2, <1>3, <1>4, <1>5, <1>6, <1>7, <1>8, <1>9, <1>10
         DEF Step

LEMMA NextIInv == IInv /\ [Next]_vars => IInv'
<1> SUFFICES ASSUME IInv, [Next]_vars PROVE IInv'  OBVIOUS
<1>1. CASE Restart
  BY <1>1 DEF Restart, IInv, TypeOK, LockInv, PointerInv, OwnerInv,
              NoHandleLeaks
<1>2. CASE \E t \in Thread : Step(t)  BY <1>2, StepIInv
<1>3. CASE UNCHANGED vars
  BY <1>3 DEF vars, IInv, TypeOK, LockInv, PointerInv, OwnerInv, NoHandleLeaks
<1> QED  BY <1>1, <1>2, <1>3 DEF Next

\* The strengthening holds in every reachable state.
THEOREM Strengthening == Spec => []IInv
<1> QED  BY InitIInv, NextIInv, PTL DEF Spec

\* The variables of DataBase keep their types: the lock is owned by a worker
\* thread or nobody, the pointer is null or a MYSQL object.
THEOREM TypeCorrect == Spec => []TypeOK
<1>1. IInv => TypeOK  BY DEF IInv
<1> QED  BY <1>1, Strengthening, PTL

\* A statement of exec_update or exec_query_and_fetch_row(s) ends on the MYSQL
\* object it began with, still open and still in the pointer.
THEOREM StatementsKeepTheirHandle == Spec => []StatementHandleStable
<1>1. IInv => StatementHandleStable
  BY DEF IInv, PointerInv, StatementHandleStable
<1> QED  BY <1>1, Strengthening, PTL

\* database_connect and database_disconnect never lose a MYSQL object.
THEOREM HandlesNeverLeak == Spec => []NoHandleLeaks
<1>1. IInv => NoHandleLeaks  BY DEF IInv
<1> QED  BY <1>1, Strengthening, PTL

\* However the sessions overlap, no connection survives the last of them.
THEOREM ClosedWhenQuiescent == Spec => []QuiescentClosed
<1>1. IInv => QuiescentClosed
  <2> SUFFICES ASSUME IInv, \A t \in Thread : pc[t] = "idle"
               PROVE  mysql = NoHandle /\ opened = {}
    BY DEF QuiescentClosed
  <2>1. connected = {}  BY DEF IInv, TypeOK, OwnerInv
  <2>2. mysql = NoHandle  BY <2>1 DEF IInv, OwnerInv
  <2>3. opened \subseteq {NoHandle}  BY <2>2 DEF IInv, NoHandleLeaks
  <2> QED  BY <2>2, <2>3, HandleAssumption DEF IInv, TypeOK
<1> QED  BY <1>1, Strengthening, PTL

\* The locked sections implement the atomic calls of DatabaseCalls: a statement
\* takes effect when it ends, on the connection the pointer holds then; a
\* connect when the pointer is set, a disconnect when it is emptied.
THEOREM ImplementsDatabaseCalls == Spec => LockedSectionsAtomic
<1> USE DEF Outside!callVars, Outside!Up
<1>1. Init => Outside!Init
  BY DEF Init, Outside!Init, Outside!DbInit, Outside!NoStatement
<1>2. ASSUME IInv, [Next]_vars PROVE [Outside!Next]_(Outside!callVars)
  <2>1. ASSUME NEW t \in Thread, EndConnect(t) PROVE Outside!Connected(t)
    BY <1>2, <2>1, HandleAssumption
       DEF EndConnect, At, IInv, TypeOK, PointerInv, LockInv, Outside!Connected,
           Outside!Connect
  <2>2. ASSUME NEW t \in Thread, BeginDisconnect(t) PROVE Outside!Disconnected(t)
    BY <2>2 DEF BeginDisconnect, At, Outside!Disconnected, Outside!Disconnect
  <2>3. ASSUME NEW t \in Thread, EndQuery(t) \/ EndUpdate(t)
        PROVE  Outside!Statement(t)
    <3>1. mine[t] = mysql /\ mysql # NoHandle /\ status = "up"
      BY <1>2, <2>3 DEF IInv, PointerInv, EndQuery, EndUpdate, At
    <3> QED
      BY <2>3, <3>1
         DEF EndQuery, EndUpdate, Outside!Statement, Outside!UseHandle, Outside!dbVars
  <2>4. ASSUME NEW t \in Thread, NullUse(t) PROVE Outside!Died
    BY <2>4 DEF NullUse, At, Outside!Died, Outside!UseNull, Outside!Die,
                Outside!NoStatement
  <2>5. ASSUME NEW t \in Thread,
               BeginConnect(t) \/ ConnectFails(t) \/ BeginQuery(t)
               \/ BeginUpdate(t) \/ EndDisconnect(t)
        PROVE  UNCHANGED Outside!callVars
    BY <2>5 DEF BeginConnect, ConnectFails, BeginQuery, BeginUpdate, EndDisconnect
  <2>6. CASE Restart
    BY <1>2, <2>6 DEF Restart, IInv, OwnerInv, Outside!Reboot, Outside!Rebooted,
                      Outside!Next
  <2>7. CASE UNCHANGED vars  BY <2>7 DEF vars
  <2> QED
    BY <1>2, <2>1, <2>2, <2>3, <2>4, <2>5, <2>6, <2>7
       DEF Next, Step, Outside!Next
<1> QED
  BY <1>1, <1>2, Strengthening, PTL DEF Spec, LockedSectionsAtomic, Outside!Spec
==============================================================================
