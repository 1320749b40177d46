--------------------------- MODULE FriendService ----------------------------
(***************************************************************************)
(* Registration and friends in the chat server, run by several worker      *)
(* threads at once.                                                        *)
(*                                                                         *)
(* A friendship is two entries, one in the friendlist column of each user; *)
(* no transaction spans them, and each is made by reading the column,      *)
(* appending and writing it back, the read and the write being separate    *)
(* locked sections.  Registration inserts a row under a generated uid and  *)
(* then asks the table for the uid of the name.                            *)
(*                                                                         *)
(* One action is one locked section of DataBase.                           *)
(***************************************************************************)
EXTENDS DbSession, Naturals, SequencesExt

CONSTANTS
    Thread,        \* the worker threads
    Uid,           \* user ids, those the generator may produce
    NoUid,         \* the uid 0
    Name,          \* user names
    NoName,        \* for a uid without a row
    MaxRequests,   \* bound: requests received
    MaxFaults      \* bound: failed connects and statements

ASSUME UidAssumption == NoUid \notin Uid
ASSUME NameAssumption == NoName \notin Name
ASSUME BoundAssumption == MaxRequests \in Nat /\ MaxFaults \in Nat

VARIABLES
    userName,      \* chat_user.username by uid; NoName: there is no such row
    friendList,    \* chat_user.friendlist by uid
    pc,            \* where each thread is in its handler
    job,           \* the request and the local variables of the handler
    befriended,    \* <<uid, friend>> answered "success"
    enrolled,      \* <<name, uid answered>> of each registration
    apart,         \* no two requests that share a user have overlapped, no
                   \* statement has failed and the process has not died
    requests,      \* requests received so far
    faults         \* faults so far

tables == <<userName, friendList>>
vars == <<mysql, status, userName, friendList, pc, job, befriended, enrolled,
          apart, requests, faults>>

\* A registration: name, and in uid the id it is given.  A request for a
\* friend: uid and friend; owner is the one whose column is being updated.
NewJob(op, u, f, n) == [op |-> op, uid |-> u, friend |-> f, name |-> n,
                        owner |-> u, list |-> <<>>]

\* Between requests a thread has no job.
NoJob == NewJob("none", NoUid, NoUid, NoName)

Jobs == [op : {"none", "register", "befriend"}, uid : Uid \union {NoUid},
         friend : Uid \union {NoUid}, name : Name \union {NoName},
         owner : Uid \union {NoUid}, list : Seq(Uid)]

Places == {"idle", "connect", "insert", "named", "exist", "check", "read",
           "write", "reply", "refuse"}

TypeOK ==
    /\ DbTypeOK
    /\ userName \in [Uid -> Name \union {NoName}]
    /\ friendList \in [Uid -> Seq(Uid)]
    /\ pc \in [Thread -> Places]
    /\ job \in [Thread -> Jobs]
    /\ befriended \in SUBSET (Uid \X Uid)
    /\ enrolled \in SUBSET (Name \X (Uid \union {NoUid}))
    /\ apart \in BOOLEAN
    /\ requests \in 0..MaxRequests
    /\ faults \in 0..MaxFaults

HasRow(u) == userName[u] # NoName
AnyRow(n) == {u \in Uid : HasRow(u)}   \* Mutant: the name is not asked for.
Named(n) == {u \in Uid : userName[u] = n}

\* The server comes up with the users of earlier runs, here without friends.
\* Several may have one name.
Init ==
    /\ DbInit
    /\ userName \in [Uid -> Name \union {NoName}]
    /\ friendList = [u \in Uid |-> IF HasRow(u) THEN <<u>> ELSE <<>>]
    /\ pc = [t \in Thread |-> "idle"]
    /\ job = [t \in Thread |-> NoJob]
    /\ befriended = {}
    /\ enrolled = {}
    /\ apart = TRUE
    /\ requests = 0
    /\ faults = 0

------------------------------------------------------------------------------
At(t, place) == Up /\ pc[t] = place
Goto(t, place) == pc' = [pc EXCEPT ![t] = place]

\* The handler returns.
Return(t) == Goto(t, "idle") /\ job' = [job EXCEPT ![t] = NoJob]

\* One connect or statement fails.
Fault == faults < MaxFaults /\ faults' = faults + 1 /\ apart' = FALSE
Works == UNCHANGED <<faults, apart>>

\* thread_read_cb hands a complete packet to the handler its cmd names.
Receive(t, j) ==
    /\ At(t, "idle")
    /\ requests < MaxRequests
    /\ requests' = requests + 1
    /\ job' = [job EXCEPT ![t] = j]
    /\ Goto(t, "connect")
    /\ UNCHANGED <<dbVars, tables, befriended, enrolled, faults>>

\* thread_register: the page checks only that there is a name, and the server's
\* check that nobody has it is commented out.
ReceiveRegister(t) ==
    \E n \in Name :
        /\ Receive(t, NewJob("register", NoUid, NoUid, n))
        /\ UNCHANGED apart

\* thread_add_friend: a user asks for a friend a search has found.
Party(j) == {j.uid, j.friend}

ReceiveBefriend(t) ==
    \E u, f \in Uid :
        /\ HasRow(u) /\ HasRow(f)
        /\ Receive(t, NewJob("befriend", u, f, NoName))
        /\ apart' = (apart /\ \A x \in Thread \ {t} :
                        job[x].op = "befriend" => Party(job[x]) \intersect {u, f} = {})

------------------------------------------------------------------------------
OpenDb(t) ==
    /\ At(t, "connect")
    /\ Connect
    /\ Goto(t, IF job[t].op = "register" THEN "insert" ELSE "exist")
    /\ UNCHANGED <<tables, job, befriended, enrolled, apart, requests, faults>>

\* database_connect fails: the handler returns without an answer.
OpenDbFails(t) ==
    /\ At(t, "connect")
    /\ Fault
    /\ Return(t)
    /\ UNCHANGED <<dbVars, tables, befriended, enrolled, requests>>

\* database_insert_user_info: a row under a generated uid, its friendlist the
\* uid itself.  The result of the statement, which fails if the table has the
\* uid already, is not looked at.
EmptyList(u) == <<>>       \* Mutant: the friendlist starts empty.
FirstList(u) == <<u>>

InsertUser(t) ==
    /\ At(t, "insert")
    /\ UseHandle
    /\ \E u \in Uid :
          /\ job' = [job EXCEPT ![t].uid = u]
          /\ \/ /\ Works /\ ~HasRow(u)
                /\ userName' = [userName EXCEPT ![u] = job[t].name]
                /\ friendList' = [friendList EXCEPT ![u] = FirstList(u)]
             \/ (Fault \/ (Works /\ HasRow(u))) /\ UNCHANGED tables
    /\ Goto(t, "named")
    /\ UNCHANGED <<befriended, enrolled, requests>>

\* thread_register asks for the uid of the name: the first row that has it, or
\* 0 if there is none or the query fails.
FindUser(t) ==
    /\ At(t, "named")
    /\ UseHandle
    /\ LET rows == Named(job[t].name) IN
       \/ Works /\ rows # {} /\ \E u \in rows : job' = [job EXCEPT ![t].friend = u]
       \/ (Fault \/ (Works /\ rows = {})) /\ UNCHANGED job
    /\ Goto(t, "reply")
    /\ UNCHANGED <<tables, befriended, enrolled, requests>>

\* thread_add_friend looks the friend up, and his name: this stands for both
\* queries, the second of which changes nothing when it fails.
FindFriend(t) ==
    /\ At(t, "exist")
    /\ UseHandle
    /\ \/ Works /\ HasRow(job[t].friend) /\ Goto(t, "check")
       \/ (Fault \/ (Works /\ ~HasRow(job[t].friend))) /\ Goto(t, "refuse")
    /\ UNCHANGED <<tables, job, befriended, enrolled, requests>>

\* It reads the user's friendlist: a friend who is in it is not added again.  If
\* the query fails the check is skipped.
IsFriend(j) == j.friend \in ToSet(friendList[j.uid])

CheckFriend(t) ==
    /\ At(t, "check")
    /\ UseHandle
    /\ \/ Works /\ IsFriend(job[t]) /\ Goto(t, "refuse")
       \/ (Fault \/ (Works /\ ~IsFriend(job[t]))) /\ Goto(t, "read")
    /\ UNCHANGED <<tables, job, befriended, enrolled, requests>>

------------------------------------------------------------------------------
\* database_add_friend calls database_update_friendlist for the user and then
\* for the friend, whatever becomes of the first call.
Other(j) == IF j.owner = j.uid THEN j.friend ELSE j.uid
Once(t) == Goto(t, "reply") /\ UNCHANGED job   \* Mutant: only for the user.
Updated(t) ==
    \/ job[t].owner = job[t].friend /\ Goto(t, "reply") /\ UNCHANGED job
    \/ /\ job[t].owner # job[t].friend
       /\ Goto(t, "read")
       /\ job' = [job EXCEPT ![t].owner = job[t].friend]

\* Its read: nothing is written if there is no row or the query fails.
ReadList(t) ==
    /\ At(t, "read")
    /\ UseHandle
    /\ \/ /\ Works /\ HasRow(job[t].owner)
          /\ job' = [job EXCEPT ![t].list = friendList[job[t].owner]]
          /\ Goto(t, "write")
       \/ (Fault \/ (Works /\ ~HasRow(job[t].owner))) /\ Updated(t)
    /\ UNCHANGED <<tables, befriended, enrolled, requests>>

\* ... and its write, of the list it read with the other one appended.
Replaced(j) == <<Other(j)>>   \* Mutant: the list read is forgotten.
Extended(j) == Append(j.list, Other(j))

WriteList(t) ==
    /\ At(t, "write")
    /\ UseHandle
    /\ \/ Works /\ friendList' = [friendList EXCEPT ![job[t].owner] = Extended(job[t])]
       \/ Fault /\ UNCHANGED friendList
    /\ Updated(t)
    /\ UNCHANGED <<userName, befriended, enrolled, requests>>

\* The answer "success", and database_disconnect.  be_addfriend to the friend,
\* if he is online, is a message like those of OnlineUsers.
Reply(t) ==
    /\ At(t, "reply")
    /\ Disconnect
    /\ LET j == job[t] IN
       \/ /\ j.op = "register"
          /\ enrolled' = enrolled \union {<<j.name, j.friend>>}
          /\ UNCHANGED befriended
       \/ /\ j.op = "befriend"
          /\ befriended' = befriended \union {<<j.uid, j.friend>>}
          /\ UNCHANGED enrolled
    /\ Return(t)
    /\ UNCHANGED <<tables, apart, requests, faults>>

\* The answers not_exist and already_friend.
Refuse(t) ==
    /\ At(t, "refuse")
    /\ Disconnect
    /\ Return(t)
    /\ UNCHANGED <<tables, befriended, enrolled, apart, requests, faults>>

\* A statement of this handler on the connection another one has closed.
NullHandle(t) ==
    /\ pc[t] \in {"insert", "named", "exist", "check", "read", "write"}
    /\ UseNull
    /\ pc' = [x \in Thread |-> "idle"]
    /\ job' = [x \in Thread |-> NoJob]
    /\ apart' = FALSE
    /\ UNCHANGED <<tables, befriended, enrolled, requests, faults>>

Restart ==
    /\ Reboot
    /\ UNCHANGED <<tables, pc, job, befriended, enrolled, apart, requests, faults>>

\* All requests of the bound have been served.
Served == /\ Up /\ requests = MaxRequests /\ \A t \in Thread : pc[t] = "idle"
          /\ UNCHANGED vars

Work(t) ==
    \/ ReceiveRegister(t) \/ ReceiveBefriend(t)
    \/ OpenDb(t) \/ OpenDbFails(t)
    \/ InsertUser(t) \/ FindUser(t)
    \/ FindFriend(t) \/ CheckFriend(t) \/ ReadList(t) \/ WriteList(t)
    \/ Reply(t) \/ Refuse(t) \/ NullHandle(t)

FriendNext == Restart \/ Served \/ \E t \in Thread : Work(t)

FriendSpec == Init /\ [][FriendNext]_vars

------------------------------------------------------------------------------
\* Whatever interleaves, fails or dies, every entry of a friendlist is a user
\* who has a row, and a user stays at the head of his own list, which is
\* therefore never empty: thread_add_friend's stoull (chat_thread.cpp:541)
\* never meets an empty element.
ListsNameUsers ==
    \A u \in Uid :
        /\ HasRow(u) => friendList[u] # <<>> /\ Head(friendList[u]) = u
        /\ \A v \in ToSet(friendList[u]) : HasRow(v)

Working(u) == \E t \in Thread : job[t].op = "befriend" /\ u \in Party(job[t])

\* While requests that share a user keep apart and nothing fails, friendship is
\* mutual as soon as neither of the two has a request running, whoever was
\* answered "success" is in the other's list, and nobody is in a list twice.
Mutual == apart =>
    /\ \A u, v \in Uid : ~Working(u) /\ ~Working(v) =>
          (v \in ToSet(friendList[u]) <=> u \in ToSet(friendList[v]))
    /\ \A p \in befriended : /\ p[2] \in ToSet(friendList[p[1]])
                              /\ p[1] \in ToSet(friendList[p[2]])
    /\ \A u \in Uid : IsInjective(friendList[u])

\* ... and no step takes anyone out of a list: the one that is written back is
\* the one in the table, with a friend appended.
FriendsKept ==
    [][apart' => \A u \in Uid : IsPrefix(friendList[u], friendList'[u])]_vars

\* A registration is answered with 0 or with the uid of a user of the name it
\* registered, whoever else registers meanwhile: so with its own uid, unless
\* another user has the name.
ToldNamesake == \A p \in enrolled : p[2] # NoUid => userName[p[2]] = p[1]
==============================================================================
