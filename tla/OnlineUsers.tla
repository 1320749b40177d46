---------------------------- MODULE OnlineUsers ----------------------------
(***************************************************************************)
(* Connections, logins and the list of online users, and how a message     *)
(* finds the connection of the user it is for.                             *)
(*                                                                         *)
(* Each accepted connection is a bufferevent owned by one worker thread,   *)
(* which runs its callbacks one at a time.  online_user is the one list    *)
(* all threads share: <uid, bufferevent*> entries under list_mutex.  The   *)
(* pointer a look-up returns is used after the lock is released, on a      *)
(* thread that need not own the connection, and an address that was freed  *)
(* may serve the next connection.                                          *)
(***************************************************************************)
EXTENDS DbSession, Naturals, SequencesExt

CONSTANTS
    ThreadNum,     \* the number of worker threads
    Bev,           \* addresses of bufferevents
    NoBev,         \* the null pointer
    Uid,           \* the users
    NoUid,         \* nobody is logged in over a connection
    Friends,       \* Friends[u]: the friendlist of u's row
    MaxConns,      \* bound: connections accepted
    MaxRequests    \* bound: requests received

ASSUME ThreadAssumption == ThreadNum \in Nat \ {0}
ASSUME BevAssumption == NoBev \notin Bev
ASSUME UserAssumption == NoUid \notin Uid /\ Friends \in [Uid -> Seq(Uid)]
ASSUME BoundAssumption == MaxConns \in Nat /\ MaxRequests \in Nat

Thread == 0..ThreadNum - 1

VARIABLES
    open,       \* the bufferevents that exist
    hungUp,     \* those whose peer has closed the connection
    owner,      \* the thread a bufferevent's callbacks run on
    user,       \* the uid "login success" was sent to over it
    online,     \* ChatInfo::online_user
    turn,       \* ChatServer::cur_thread
    pc,         \* where each thread is; "idle" is in its event loop
    job,        \* the callback's argument and locals
    conns,      \* connections accepted so far
    requests,   \* requests received so far
    apart,      \* ghost: no connection was freed between a look-up and its write
    single      \* ghost: no second login came over a connection, and nobody
                \* went offline while two entries of the list were his

connVars == <<open, hungUp, owner, user, turn, conns>>
ghosts == <<apart, single>>
vars == <<mysql, status, connVars, online, pc, job, requests, ghosts>>

NoJob == [op |-> "none", bev |-> NoBev, uid |-> NoUid, todo |-> <<>>,
          target |-> NoBev]

Places == {"idle", "connect", "check", "welcome", "enlist", "seek", "missed",
           "send", "close", "unlist", "free"}

TypeOK ==
    /\ DbTypeOK
    /\ open \in SUBSET Bev
    /\ hungUp \in SUBSET open
    /\ owner \in [Bev -> Thread]
    /\ user \in [Bev -> Uid \union {NoUid}]
    /\ online \in Seq([uid : Uid, bev : Bev])
    /\ turn \in Thread
    /\ pc \in [Thread -> Places]
    /\ job \in [Thread -> [op : {"none", "login", "chat", "offline", "event"},
                           bev : Bev \union {NoBev}, uid : Uid \union {NoUid},
                           todo : Seq(Uid), target : Bev \union {NoBev}]]
    /\ conns \in 0..MaxConns
    /\ requests \in 0..MaxRequests
    /\ apart \in BOOLEAN
    /\ single \in BOOLEAN

Init ==
    /\ DbInit
    /\ open = {} /\ hungUp = {}
    /\ owner = [b \in Bev |-> 0]
    /\ user = [b \in Bev |-> NoUid]
    /\ online = <<>>
    /\ turn = 0
    /\ pc = [t \in Thread |-> "idle"]
    /\ job = [t \in Thread |-> NoJob]
    /\ conns = 0 /\ requests = 0
    /\ apart = TRUE /\ single = TRUE

------------------------------------------------------------------------------
At(t, place) == Up /\ pc[t] = place
Goto(t, place) == pc' = [pc EXCEPT ![t] = place]
Return(t) == Goto(t, "idle") /\ job' = [job EXCEPT ![t] = NoJob]

IsOf(e, u) == e.uid = u
IsOn(e, b) == e.bev = b

\* list_friend_online: the connection of the first entry of the user, or NULL.
EntryOf(u) == SelectInSeq(online, LAMBDA e : IsOf(e, u))
FriendOnline(u) == IF EntryOf(u) = 0 THEN NoBev ELSE online[EntryOf(u)].bev

\* list_delete_user and list_delete_user_by_bev: the first entry that matches.
KeepUser(u) == online   \* Mutant: no entry is deleted.
WithoutUser(u) == RemoveFirstMatch(online, LAMBDA e : IsOf(e, u))
WithoutBev(b) == RemoveFirstMatch(online, LAMBDA e : IsOn(e, b))

SoleEntry(u) ==
    \A j, k \in DOMAIN online : IsOf(online[j], u) /\ IsOf(online[k], u) => j = k

Begin(t, op, b, u, todo, place) ==
    /\ At(t, "idle")
    /\ job' = [job EXCEPT ![t] = [NoJob EXCEPT !.op = op, !.bev = b, !.uid = u,
                                               !.todo = todo]]
    /\ Goto(t, place)

\* listener_cb and server_alloc_event: the threads take turns.
NextTurn(n) == (n + 1) % ThreadNum

Accept ==
    /\ Up /\ conns < MaxConns
    /\ \E b \in Bev \ open :
          /\ open' = open \union {b}
          /\ owner' = [owner EXCEPT ![b] = turn]
          /\ user' = [user EXCEPT ![b] = NoUid]
    /\ turn' = NextTurn(turn)
    /\ conns' = conns + 1
    /\ UNCHANGED <<dbVars, hungUp, online, pc, job, requests, ghosts>>

\* The client at the other end goes away.
HangUp(b) ==
    /\ Up /\ b \in open \ hungUp
    /\ hungUp' = hungUp \union {b}
    /\ UNCHANGED <<dbVars, open, owner, user, turn, conns, online, pc, job, requests, ghosts>>

\* thread_read_cb runs the handler the request's cmd names, on the connection's
\* thread.
Receive(t, op, b, u, todo, place) ==
    /\ b \in open /\ owner[b] = t
    /\ requests < MaxRequests /\ requests' = requests + 1
    /\ Begin(t, op, b, u, todo, place)
    /\ single' = (single /\ (op = "login" => user[b] = NoUid))
    /\ UNCHANGED <<dbVars, connVars, online, apart>>

\* thread_login.  Nothing keeps a user who is logged in from logging in again,
\* over the same connection or another.
ReceiveLogin(t) == \E b \in open, u \in Uid :
    Receive(t, "login", b, u, <<>>, "connect")

\* thread_private_chat: a message to one user.  A group message goes to each
\* member in the same way.
ReceiveChat(t) == \E b \in open, f \in Uid :
    user[b] # NoUid /\ Receive(t, "chat", b, user[b], <<f>>, "seek")

\* thread_client_offline.
ReceiveOffline(t) == \E b \in open :
    user[b] # NoUid /\ Receive(t, "offline", b, user[b], <<>>, "unlist")

\* thread_event_cb, for EOF and errors alike.
ConnectionEnds(t, b) ==
    /\ b \in hungUp /\ owner[b] = t
    /\ Begin(t, "event", b, NoUid, <<>>, "unlist")
    /\ UNCHANGED <<dbVars, connVars, online, requests, ghosts>>

------------------------------------------------------------------------------
\* Taking the user off the list: by uid when he says so, by connection when it
\* ends.
Unlist(t) ==
    /\ At(t, "unlist")
    /\ online' = IF job[t].op = "offline" THEN WithoutUser(job[t].uid)
                 ELSE WithoutBev(job[t].bev)
    /\ Goto(t, "free")
    /\ single' = (single /\ (job[t].op = "offline" => SoleEntry(job[t].uid)))
    /\ UNCHANGED <<dbVars, connVars, job, requests, apart>>

\* bufferevent_free; after an offline request the friends are looked up.
FreedIfOffline(j) == {j.bev} \ IF j.op = "event" THEN {j.bev} ELSE {}   \* Mutants: one
FreedIfEvent(j) == {j.bev} \ IF j.op = "offline" THEN {j.bev} ELSE {}   \* of two frees.
Freed(j) == {j.bev}

Free(t) ==
    /\ At(t, "free")
    /\ open' = open \ Freed(job[t])
    /\ hungUp' = hungUp \ Freed(job[t])
    /\ user' = [b \in Bev |-> IF b \in Freed(job[t]) THEN NoUid ELSE user[b]]
    /\ apart' = (apart /\ \A s \in Thread : job[s].target \notin Freed(job[t]))
    /\ UNCHANGED single
    /\ IF job[t].op = "offline" THEN Goto(t, "connect") /\ UNCHANGED job ELSE Return(t)
    /\ UNCHANGED <<dbVars, owner, turn, conns, online, requests>>

\* database_connect; thread_client_offline does not look at its result.
OpenDb(t) ==
    /\ At(t, "connect")
    /\ Connect
    /\ Goto(t, "check")
    /\ UNCHANGED <<connVars, online, job, requests, ghosts>>

OpenDbFails(t) ==
    /\ At(t, "connect")
    /\ \/ job[t].op = "login" /\ Return(t)
       \/ job[t].op = "offline" /\ Goto(t, "check") /\ UNCHANGED job
    /\ UNCHANGED <<dbVars, connVars, online, requests, ghosts>>

\* The queries: does the user exist, is the password right, his friends.  A
\* login that is refused is answered or dropped, and the handler closes up.
Check(t) ==
    /\ At(t, "check")
    /\ UseHandle
    /\ \/ Goto(t, "close") /\ UNCHANGED job
       \/ /\ Goto(t, IF job[t].op = "login" THEN "welcome" ELSE "close")
          /\ job' = [job EXCEPT ![t].todo = Friends[job[t].uid]]
    /\ UNCHANGED <<connVars, online, requests, ghosts>>

\* login_reply "success" is sent ...
Welcome(t) ==
    /\ At(t, "welcome")
    /\ user' = [user EXCEPT ![job[t].bev] = job[t].uid]
    /\ Goto(t, "enlist")
    /\ UNCHANGED <<dbVars, open, hungUp, owner, turn, conns, online, job, requests, ghosts>>

\* ... and then list_update_list appends the entry.
Enlist(t) ==
    /\ At(t, "enlist")
    /\ online' = Append(online, [uid |-> job[t].uid, bev |-> job[t].bev])
    /\ Goto(t, IF job[t].todo = <<>> THEN "close" ELSE "seek")
    /\ UNCHANGED <<dbVars, connVars, job, requests, ghosts>>

\* The next user a message is for; the lock is held for the look-up only.
Seek(t) ==
    /\ At(t, "seek")
    /\ LET b == FriendOnline(Head(job[t].todo)) IN
       /\ job' = [job EXCEPT ![t].target = b]
       /\ Goto(t, IF b = NoBev THEN "missed" ELSE "send")
    /\ UNCHANGED <<dbVars, connVars, online, requests, ghosts>>

\* On to the next user, or out of the loop.
Proceed(t) ==
    /\ job' = [job EXCEPT ![t].todo = Tail(@), ![t].target = NoBev]
    /\ Goto(t, IF Len(job[t].todo) > 1 THEN "seek"
               ELSE IF job[t].op = "login" THEN "close" ELSE "idle")

\* The user is not online: thread_login disconnects for each of these friends,
\* thread_private_chat answers "offline".
Missed(t) ==
    /\ At(t, "missed")
    /\ IF job[t].op = "login" THEN Disconnect ELSE UNCHANGED dbVars
    /\ Proceed(t)
    /\ UNCHANGED <<connVars, online, requests, ghosts>>

\* thread_write_data on the pointer the look-up returned.
Send(t) ==
    /\ At(t, "send")
    /\ Proceed(t)
    /\ UNCHANGED <<dbVars, connVars, online, requests, ghosts>>

\* database_disconnect, which ends a login; thread_client_offline then tells
\* the friends.
CloseDb(t) ==
    /\ At(t, "close")
    /\ Disconnect
    /\ IF job[t].op = "offline" /\ job[t].todo # <<>>
       THEN Goto(t, "seek") /\ UNCHANGED job
       ELSE Return(t)
    /\ UNCHANGED <<connVars, online, requests, ghosts>>

\* The process dies on the connection another handler closed, and is started
\* again: sockets and list are gone.
LoseMemory ==
    /\ open' = {} /\ hungUp' = {}
    /\ owner' = [b \in Bev |-> 0]
    /\ user' = [b \in Bev |-> NoUid]
    /\ online' = <<>>
    /\ turn' = 0
    /\ pc' = [t \in Thread |-> "idle"]
    /\ job' = [t \in Thread |-> NoJob]
    /\ UNCHANGED <<conns, requests, ghosts>>

NullHandle(t) == pc[t] = "check" /\ UseNull /\ LoseMemory

Restart == Reboot /\ UNCHANGED <<connVars, online, pc, job, requests, ghosts>>

Work(t) ==
    \/ Unlist(t) \/ Free(t)
    \/ OpenDb(t) \/ OpenDbFails(t) \/ Check(t)
    \/ Welcome(t) \/ Enlist(t)
    \/ Seek(t) \/ Missed(t) \/ Send(t)
    \/ CloseDb(t) \/ NullHandle(t)

Request(t) == ReceiveLogin(t) \/ ReceiveChat(t) \/ ReceiveOffline(t)

\* Nothing is left to do within the bounds.
Rest == /\ Up /\ open = {} /\ conns = MaxConns
        /\ \A t \in Thread : pc[t] = "idle"
        /\ UNCHANGED vars

OnlineNext ==
    \/ Accept \/ Restart \/ Rest
    \/ \E b \in Bev : HangUp(b)
    \/ \E t \in Thread :
          Request(t) \/ Work(t) \/ \E b \in Bev : ConnectionEnds(t, b)

OnlineSpec == Init /\ [][OnlineNext]_vars

\* A thread finishes the callback it is in, and its event loop gets round to a
\* connection that has ended whatever else arrives.
FairSpec ==
    /\ OnlineSpec
    /\ \A t \in Thread : WF_vars(Work(t))
    /\ \A t \in Thread, b \in Bev : SF_vars(ConnectionEnds(t, b))

------------------------------------------------------------------------------
Entries == ToSet(online)

\* When its thread is in the event loop, a connection that was told "success"
\* is in the list under that user, and no other is: messages for the user are
\* neither dropped nor misdirected.  Users may log in over several connections
\* at once, and break off; it ends when one of them says he goes offline
\* (list_delete_user takes his first entry for that of the connection), or a
\* connection is logged in over again.
ListMatchesLogins ==
    single /\ Up => \A b \in open : pc[owner[b]] = "idle" =>
        \A u \in Uid : user[b] = u <=> [uid |-> u, bev |-> b] \in Entries

\* Until then, and until a connection is freed between the look-up of it and
\* the write, every handler writes to an open connection, and to one of the
\* user its message is for.
TargetIsAddressee ==
    single /\ apart => \A t \in Thread : pc[t] = "send" =>
        job[t].target \in open /\ user[job[t].target] = Head(job[t].todo)

\* Whoever goes away is taken off the list, and his connection is freed.
GoneIsForgotten == \A b \in Bev : b \in hungUp ~> b \notin hungUp
==============================================================================
