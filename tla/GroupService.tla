---------------------------- MODULE GroupService ----------------------------
(***************************************************************************)
(* Groups in the chat server: the handlers that create, join, query and    *)
(* broadcast to a group, run by several worker threads at once.            *)
(*                                                                         *)
(* A group lives in three places that no lock or transaction spans: the    *)
(* groupmember column of its row in chat_group, the grouplist column of    *)
(* each member in chat_user, and group_info, the in-memory map that group  *)
(* messages are sent from and that a restart reloads from chat_group.      *)
(* Each list column is updated by reading it, appending and writing it     *)
(* back, the read and the write being separate locked sections.            *)
(*                                                                         *)
(* One action is one locked section of DataBase or ChatInfo.               *)
(***************************************************************************)
EXTENDS DbSession, Naturals, SequencesExt

CONSTANTS
    Thread,        \* the worker threads
    Uid,           \* user ids
    Registered,    \* the ids that have a row in chat_user
    Gid,           \* the ids the generator may produce for a group
    NoGid,         \* the gid 0 of a failed insert
    NoUid,         \* the empty string in place of a uid
    Within,        \* Within[u]: the uids whose decimal text contains u's
    MaxRequests,   \* bound: requests received
    MaxFaults      \* bound: failed connects and statements

ASSUME UidAssumption == Registered \subseteq Uid /\ NoUid \notin Uid
ASSUME GidAssumption == NoGid \notin Gid
ASSUME WithinAssumption == /\ Within \in [Uid -> SUBSET Uid]
                           /\ \A u \in Uid : u \in Within[u]
ASSUME BoundAssumption == MaxRequests \in Nat /\ MaxFaults \in Nat

VARIABLES
    groupMember,   \* chat_group.groupmember by gid; <<>>: there is no such row
    groupList,     \* chat_user.grouplist by uid
    groupInfo,     \* ChatInfo::group_info by gid; <<>>: not in the map
    loaded,        \* group_info was loaded when this process started
    pc,            \* where each thread is in its handler
    job,           \* the request and the local variables of the handler
    told,          \* <<gid, uid>> this process answered "success" to
    requests,      \* requests received so far
    faults,        \* faults so far
    early,         \* ghost: <<gid, uid>> this process has pushed to a list the
                   \* map did not have yet
    apart          \* ghost: the handlers that write have kept apart (Overlaps),
                   \* none was cut off by a death, and no uid was taken for
                   \* another

ghosts == <<early, apart>>

vars == <<mysql, status, groupMember, groupList, groupInfo, loaded, pc, job,
          told, requests, faults, early, apart>>

Ops == {"none", "create", "join", "cast", "query"}

\* The request u made, with the locals of the handler as it starts.
NewJob(op, u, g, named, todo) ==
    [op |-> op, uid |-> u, gid |-> g, who |-> u, named |-> named, todo |-> todo,
     row |-> <<>>, list |-> <<>>, look |-> 1, found |-> FALSE]

\* Between requests a thread has no job.
NoJob == NewJob("none", NoUid, NoGid, <<>>, <<>>)

Jobs == [op : Ops, uid : Uid \union {NoUid}, gid : Gid \union {NoGid},
         who : Uid \union {NoUid}, named : Seq(Uid),
         todo : Seq(Uid \union {NoUid}), row : Seq(Uid), list : Seq(Gid),
         look : 1..3, found : BOOLEAN]

Places == {"idle", "connect", "lookup", "close", "check", "reopen", "insert",
           "cache", "row_read", "row_write", "push", "list_read",
           "list_write", "next", "reply", "forward"}

TypeOK ==
    /\ DbTypeOK
    /\ groupMember \in [Gid -> Seq(Uid)]
    /\ groupList \in [Uid -> Seq(Gid)]
    /\ groupInfo \in [Gid -> Seq(Uid)]
    /\ loaded \in BOOLEAN
    /\ pc \in [Thread -> Places]
    /\ job \in [Thread -> Jobs]
    /\ told \in SUBSET (Gid \X Uid)
    /\ requests \in 0..MaxRequests
    /\ faults \in 0..MaxFaults
    /\ early \in SUBSET (Gid \X Uid)
    /\ apart \in BOOLEAN

Init ==
    /\ DbInit
    /\ groupMember = [g \in Gid |-> <<>>]
    /\ groupList = [u \in Uid |-> <<>>]
    /\ groupInfo = [g \in Gid |-> <<>>]
    /\ loaded = TRUE
    /\ pc = [t \in Thread |-> "idle"]
    /\ job = [t \in Thread |-> NoJob]
    /\ told = {}
    /\ requests = 0
    /\ faults = 0
    /\ early = {}
    /\ apart = TRUE

------------------------------------------------------------------------------
At(t, place) == Up /\ pc[t] = place
Goto(t, place) == pc' = [pc EXCEPT ![t] = place]

\* The handler returns.
Return(t) == Goto(t, "idle") /\ job' = [job EXCEPT ![t] = NoJob]

\* One connect or statement fails.
Fault == faults < MaxFaults /\ faults' = faults + 1
Works == UNCHANGED faults

InTable(g) == groupMember[g] # <<>>
InMap(g) == groupInfo[g] # <<>>

\* The process is dead: what is left is the tables.
LoseMemory ==
    /\ groupInfo' = [g \in Gid |-> <<>>]
    /\ pc' = [t \in Thread |-> "idle"]
    /\ job' = [t \in Thread |-> NoJob]
    /\ told' = {}
    /\ early' = {}
    /\ UNCHANGED <<groupMember, groupList, loaded, requests, faults>>

\* The requests that write to the tables, and the users they write of.
Writes(j) == j.op \in {"create", "join"}
Users(j) == {j.uid} \union ToSet(j.named)

\* Two of them are about one group or one user.
Overlaps(j, k) ==
    /\ Writes(j) /\ Writes(k)
    /\ (j.gid = k.gid /\ j.gid # NoGid) \/ Users(j) \intersect Users(k) # {}

OthersWrite(t) == \E s \in Thread \ {t} : Writes(job[s])

\* thread_read_cb hands a complete packet to the handler its cmd names.
Receive(t, op, u, g, named, todo) ==
    LET new == NewJob(op, u, g, named, todo) IN
    /\ At(t, "idle")
    /\ requests < MaxRequests
    /\ requests' = requests + 1
    /\ job' = [job EXCEPT ![t] = new]
    /\ apart' = (apart /\ \A s \in Thread : ~Overlaps(new, job[s]))
    /\ Goto(t, "connect")
    /\ UNCHANGED <<dbVars, groupMember, groupList, groupInfo, loaded, told, faults,
                   early>>

\* thread_create_group: an owner and the friends selected; an empty selection
\* is sent as the empty string, which parses to one empty member.
ReceiveCreate(t) ==
    \E o \in Registered, named \in SeqOf(Registered, 2) :
        /\ IsInjective(named)
        /\ Receive(t, "create", o, NoGid, named,
                   IF named = <<>> THEN <<NoUid>> ELSE named)

\* thread_join_group.  The client offers the groups a search has found: any
\* there is a row for, also one whose creation is not over.
ReceiveJoin(t) ==
    \E u \in Uid, g \in Gid : InTable(g) /\ Receive(t, "join", u, g, <<>>, <<>>)

\* thread_group_chat, thread_image_group_chat and thread_transer_file to a
\* group.  A member was told of it by an answer, by the group list login gives
\* him, or is not told yet; the handler does not ask whether he is one.
ReceiveCast(t) ==
    \E u \in Uid, g \in Gid : InTable(g) /\ Receive(t, "cast", u, g, <<>>, <<>>)

\* thread_query_group_by_gid.
ReceiveQuery(t) ==
    \E u \in Registered, g \in Gid : Receive(t, "query", u, g, <<>>, <<>>)

------------------------------------------------------------------------------
\* database_connect in the handlers.  Only thread_create_group connects once;
\* the others connect for each look-up, and thread_join_group again to write.
OpenDb(t) ==
    /\ Connect
    /\ \/ At(t, "connect") /\ job[t].op = "create" /\ Goto(t, "insert")
       \/ At(t, "connect") /\ job[t].op # "create" /\ Goto(t, "lookup")
       \/ At(t, "reopen") /\ Goto(t, "row_read")
    /\ UNCHANGED <<ghosts, groupMember, groupList, groupInfo, loaded, job, told,
                   requests, faults>>

\* database_connect fails: the handler answers db_error or nothing, except
\* where its result is not looked at.
OpenDbFails(t) ==
    /\ Up
    /\ Fault
    /\ \/ At(t, "connect") /\ job[t].op # "query" /\ Return(t)
       \/ At(t, "connect") /\ job[t].op = "query" /\ Goto(t, "lookup")
          /\ UNCHANGED job
       \/ At(t, "reopen") /\ Goto(t, "row_read") /\ UNCHANGED job
    /\ UNCHANGED <<dbVars, ghosts, groupMember, groupList, groupInfo, loaded, told,
                   requests>>

\* The look-ups: the group's name and the user's name, in the order the handler
\* asks for them.  A query that fails looks like a name that is not there.
Exists(j) ==
    LET ofUser == <<j.op, j.look>> \in {<<"join", 2>>, <<"cast", 1>>} IN
    /\ ofUser => j.uid \in Registered
    /\ ~ofUser => InTable(j.gid)

LookUp(t) ==
    /\ At(t, "lookup")
    /\ UseHandle
    /\ \/ Works /\ job' = [job EXCEPT ![t].found = Exists(job[t])]
       \/ Fault /\ job' = [job EXCEPT ![t].found = FALSE]
    /\ Goto(t, "close")
    /\ UNCHANGED <<ghosts, groupMember, groupList, groupInfo, loaded, told, requests>>

\* database_disconnect, and where each handler goes on from there.  A name that
\* is missing ends the request, but the name of the group of a broadcast is
\* used unchecked.
GivesUp(j) ==
    \/ j.op = "query"
    \/ j.op = "create" /\ j.gid = NoGid
    \/ j.op = "join" /\ j.look < 3 /\ ~j.found
    \/ j.op = "cast" /\ j.look = 1 /\ ~j.found

CloseDb(t) ==
    /\ At(t, "close")
    /\ Disconnect
    /\ LET j == job[t] IN
       \/ GivesUp(j) /\ Return(t)
       \/ /\ ~GivesUp(j) /\ j.op # "create" /\ j.look = 1
          /\ job' = [job EXCEPT ![t].look = 2]
          /\ Goto(t, "connect")
       \/ /\ ~GivesUp(j)
          /\ j.op = "create" \/ j.look > 1
          /\ Goto(t, CASE j.op = "create" -> "reply"
                       [] j.op = "cast" -> "forward"
                       [] j.op = "join" /\ j.look = 2 -> "check"
                       [] OTHER -> "push")
          /\ UNCHANGED job
    /\ UNCHANGED <<ghosts, groupMember, groupList, groupInfo, loaded, told, requests,
                   faults>>

\* list_member_is_group_by_gid: members are answered already_member.
CheckMember(t) ==
    /\ At(t, "check")
    /\ \/ job[t].uid \in ToSet(groupInfo[job[t].gid]) /\ Return(t)
       \/ /\ job[t].uid \notin ToSet(groupInfo[job[t].gid])
          /\ Goto(t, "reopen")
          /\ job' = [job EXCEPT ![t].look = 3]
    /\ UNCHANGED <<dbVars, ghosts, groupMember, groupList, groupInfo, loaded, told,
                   requests, faults>>

------------------------------------------------------------------------------
\* database_add_new_group: a row under a generated gid whose only member is the
\* owner.  A gid the table has already, or a failing statement, gives gid 0.
InsertUnchecked(t) ==   \* Mutant: the result of exec_update is not looked at.
    /\ At(t, "insert")
    /\ UseHandle
    /\ \E g \in Gid :
          /\ job' = [job EXCEPT ![t].gid = g]
          /\ groupMember' \in {groupMember, [groupMember EXCEPT ![g] = <<job[t].uid>>]}
    /\ Goto(t, "cache")
    /\ UNCHANGED <<ghosts, groupList, groupInfo, loaded, told, requests, faults>>

InsertGroup(t) ==
    /\ At(t, "insert")
    /\ UseHandle
    /\ \/ /\ Works
          /\ \E g \in Gid :
                /\ ~InTable(g)
                /\ groupMember' = [groupMember EXCEPT ![g] = <<job[t].uid>>]
                /\ job' = [job EXCEPT ![t].gid = g]
          /\ Goto(t, "cache")
       \/ /\ Fault \/ (Works /\ \E g \in Gid : InTable(g))
          /\ Goto(t, "close")
          /\ UNCHANGED <<groupMember, job>>
    /\ UNCHANGED <<ghosts, groupList, groupInfo, loaded, told, requests>>

\* list_add_new_group: map::insert leaves an entry that is there alone.
CacheGroup(t) ==
    /\ At(t, "cache")
    /\ LET g == job[t].gid IN
       groupInfo' = IF InMap(g) THEN groupInfo
                    ELSE [groupInfo EXCEPT ![g] = <<job[t].uid>>]
    /\ Goto(t, "list_read")
    /\ UNCHANGED <<dbVars, ghosts, groupMember, groupList, loaded, job, told, requests,
                   faults>>

\* The loop of thread_create_group over the members named, the owner left out.
\* An empty member is found in any list, is pushed, and stoull throws on it.
NextMember(t) ==
    /\ At(t, "next")
    /\ LET todo == job[t].todo IN
       \/ todo = <<>> /\ Goto(t, "close") /\ UNCHANGED job
       \/ /\ todo # <<>> /\ Head(todo) # NoUid
          /\ job' = [job EXCEPT ![t] = [@ EXCEPT !.who = Head(todo),
                                                !.todo = Tail(todo)]]
          /\ Goto(t, IF Head(todo) = job[t].uid THEN "next" ELSE "row_read")
    /\ UNCHANGED <<dbVars, ghosts, groupMember, groupList, groupInfo, loaded, told,
                   requests, faults>>

EmptyMember(t) ==
    /\ At(t, "next")
    /\ job[t].todo # <<>> /\ Head(job[t].todo) = NoUid
    /\ Die("bad_number")
    /\ LoseMemory
    /\ apart' = (apart /\ ~OthersWrite(t))

\* database_update_group_member_by_gid, its read: nothing more is done if there
\* is no row, the query fails, or the uid's text occurs in the member list.
AfterRowNoPush(t) == Goto(t, "list_read")   \* Mutant: the map is not updated.
AfterRowNoList(t) ==                        \* Mutant: nor is a joiner's list.
    Goto(t, IF job[t].op = "create" THEN "push" ELSE "close")
AfterRow(t) == Goto(t, IF job[t].op = "create" THEN "push" ELSE "list_read")

OccursNever(u, row) == FALSE                \* Mutant: the search is left out,
OccursNot(u, row) == \A m \in ToSet(row) : m \notin Within[u]   \* or inverted.
Occurs(u, row) == \E m \in ToSet(row) : m \in Within[u]

\* The text of u is part of another member's.
TakenFor(u, row) == \E m \in ToSet(row) \ {u} : m \in Within[u]

ReadRow(t) ==
    /\ At(t, "row_read")
    /\ UseHandle
    /\ LET row == groupMember[job[t].gid] IN
       /\ \/ /\ Works
             /\ row # <<>> /\ ~Occurs(job[t].who, row)
             /\ job' = [job EXCEPT ![t].row = row]
             /\ Goto(t, "row_write")
          \/ /\ Fault \/ (Works /\ (row = <<>> \/ Occurs(job[t].who, row)))
             /\ AfterRow(t)
             /\ UNCHANGED job
       /\ apart' = (apart /\ ~TakenFor(job[t].who, row))
    /\ UNCHANGED <<groupMember, groupList, groupInfo, loaded, told, requests, early>>

\* ... and its write, of the list it read with the uid appended.
WriteRow(t) ==
    /\ At(t, "row_write")
    /\ UseHandle
    /\ \/ /\ Works
          /\ groupMember' = [groupMember EXCEPT ![job[t].gid] =
                                Append(job[t].row, job[t].who)]
       \/ Fault /\ UNCHANGED groupMember
    /\ AfterRow(t)
    /\ UNCHANGED <<ghosts, groupList, groupInfo, loaded, job, told, requests>>

\* list_update_group_member_by_gid: nothing is done for a gid not in the map,
\* and the uid is appended whether or not it is in the list.
PushedAlone(list, u) == <<u>>   \* Mutant: the list is replaced.
Pushed(list, u) == Append(list, u)

PushMember(t) ==
    /\ At(t, "push")
    /\ LET g == job[t].gid IN
       \/ /\ InMap(g)
          /\ groupInfo' = [groupInfo EXCEPT ![g] = Pushed(@, job[t].who)]
          /\ UNCHANGED early
       \/ /\ ~InMap(g)
          /\ early' = early \union {<<g, job[t].who>>}
          /\ UNCHANGED groupInfo
    /\ Goto(t, IF job[t].op = "create" THEN "list_read" ELSE "forward")
    /\ UNCHANGED <<dbVars, apart, groupMember, groupList, loaded, job, told, requests,
                   faults>>

\* database_update_grouplist_by_uid: the member's own list, read and written
\* back with the gid appended.
AfterList(t) == Goto(t, IF job[t].op = "create" THEN "next" ELSE "close")

ReadList(t) ==
    /\ At(t, "list_read")
    /\ UseHandle
    /\ \/ /\ Works
          /\ job[t].who \in Registered
          /\ job' = [job EXCEPT ![t].list = groupList[job[t].who]]
          /\ Goto(t, "list_write")
       \/ /\ Fault \/ (Works /\ job[t].who \notin Registered)
          /\ AfterList(t)
          /\ UNCHANGED job
    /\ UNCHANGED <<ghosts, groupMember, groupList, groupInfo, loaded, told, requests>>

WriteList(t) ==
    /\ At(t, "list_write")
    /\ UseHandle
    /\ \/ /\ Works
          /\ groupList' = [groupList EXCEPT ![job[t].who] =
                              Append(job[t].list, job[t].gid)]
       \/ Fault /\ UNCHANGED groupList
    /\ AfterList(t)
    /\ UNCHANGED <<ghosts, groupMember, groupInfo, loaded, job, told, requests>>

\* creategroup_reply goes to the members named in the request who are online.
ReplyCreate(t) ==
    /\ At(t, "reply")
    /\ \E online \in SUBSET ToSet(job[t].named) :
          told' = told \union ({job[t].gid} \X online)
    /\ Return(t)
    /\ UNCHANGED <<dbVars, ghosts, groupMember, groupList, groupInfo, loaded, requests,
                   faults>>

\* list_get_list_by_gid, the forwarding to the members in it, and the answer to
\* the sender.
Forward(t) ==
    /\ At(t, "forward")
    /\ InMap(job[t].gid)
    /\ told' = IF job[t].op = "join" THEN told \union {<<job[t].gid, job[t].uid>>}
               ELSE told
    /\ Return(t)
    /\ UNCHANGED <<dbVars, ghosts, groupMember, groupList, groupInfo, loaded, requests,
                   faults>>

\* map::at throws for a gid that is not in the map; nothing catches it.
NoSuchGroup(t) ==
    /\ At(t, "forward")
    /\ ~InMap(job[t].gid)
    /\ Die("no_such_group")
    /\ LoseMemory
    /\ apart' = FALSE

\* A statement of this handler on the connection another one has closed.
NullHandle(t) ==
    /\ pc[t] \in {"lookup", "insert", "row_read", "row_write", "list_read",
                  "list_write"}
    /\ UseNull
    /\ LoseMemory
    /\ apart' = FALSE

\* The server is started again.  server_update_group_info loads every group
\* there is a row for; if its query fails the server starts without any.
NoGroups == [g \in Gid |-> <<>>]   \* Mutant: the groups are not loaded.
AllGroups == groupMember

Restart ==
    /\ Reboot
    /\ \/ Works /\ groupInfo' = AllGroups /\ loaded' = TRUE
       \/ Fault /\ UNCHANGED groupInfo /\ loaded' = FALSE
    /\ UNCHANGED <<ghosts, groupMember, groupList, pc, job, told, requests>>

Work(t) ==
    \/ OpenDb(t) \/ OpenDbFails(t) \/ LookUp(t) \/ CloseDb(t)
    \/ CheckMember(t)
    \/ InsertGroup(t) \/ CacheGroup(t) \/ NextMember(t) \/ EmptyMember(t)
    \/ ReadRow(t) \/ WriteRow(t) \/ PushMember(t)
    \/ ReadList(t) \/ WriteList(t)
    \/ ReplyCreate(t) \/ Forward(t)
    \/ NoSuchGroup(t) \/ NullHandle(t)

Request(t) ==
    ReceiveCreate(t) \/ ReceiveJoin(t) \/ ReceiveCast(t) \/ ReceiveQuery(t)

\* All requests of the bound have been served.
Served == /\ Up /\ requests = MaxRequests /\ \A t \in Thread : pc[t] = "idle"
          /\ UNCHANGED vars

GroupNext == Restart \/ Served \/ \E t \in Thread : Request(t) \/ Work(t)

GroupSpec == Init /\ [][GroupNext]_vars

------------------------------------------------------------------------------
\* However joins and creations interleave, and whatever fails, no row of
\* chat_group lists a member twice: what a handler writes back is the list it
\* read, which did not hold the uid.
DbMembersDistinct == \A g \in Gid : IsInjective(groupMember[g])

\* A grouplist never names a group that has no row: login can hand every gid
\* of it to the client.  It holds across deaths and restarts.
ListsNameGroups ==
    \A u \in Uid : \A g \in ToSet(groupList[u]) : InTable(g)

\* The handler of t is about to put u in group_info for g.
Bringing(t, g, u) ==
    /\ job[t].gid = g /\ job[t].who = u
    /\ \/ pc[t] \in {"cache", "push"}
       \/ job[t].op = "join" /\ pc[t] \in {"list_read", "list_write", "close"}

\* A message sent to a group reaches everyone who was answered "success", and
\* while group_info is loaded all members chat_group has, except those whose
\* handler is still to put them in and those pushed before the map had the
\* group (MapMissedOnlyEarly says when that is).
MembersCached ==
    /\ \A p \in told \ early : p[2] \in ToSet(groupInfo[p[1]])
    /\ Up /\ loaded => \A g \in Gid : \A u \in ToSet(groupMember[g]) :
           \/ u \in ToSet(groupInfo[g])
           \/ <<g, u>> \in early
           \/ \E t \in Thread : Bringing(t, g, u)

\* Who was answered "success" is in the row a restart reloads.
ToldIsDurable == \A p \in told : p[2] \in ToSet(groupMember[p[1]])

\* The creator of g stands between the row database_add_new_group has inserted
\* and the entry list_add_new_group is to make.
Creating(g) == \E t \in Thread : pc[t] = "cache" /\ job[t].gid = g

\* A member's push is lost, or map::at throws, for a group that clients can
\* find only while its creation is in that window, or if the server came up
\* without its groups.
MapMissedOnlyEarly ==
    [][\A t \in Thread :
          (PushMember(t) \/ NoSuchGroup(t)) /\ ~InMap(job[t].gid)
          => ~loaded \/ Creating(job[t].gid)]_vars

\* Nothing has failed and nobody got into anybody's way.
Undisturbed == apart /\ faults = 0

\* Then, when no handler runs, the three places agree on who is in which group,
\* and the map lists nobody twice.
Quiescent == Undisturbed /\ Up /\ \A t \in Thread : pc[t] = "idle"

PlacesAgree ==
    Quiescent => \A g \in Gid :
        /\ IsInjective(groupInfo[g])
        /\ ToSet(groupInfo[g]) = ToSet(groupMember[g])
        /\ \A u \in Registered :
              g \in ToSet(groupList[u]) <=> u \in ToSet(groupMember[g])

\* The promise of GroupDirectory, kept by the map for as long as the process
\* lives to all but those who came before the map had their group ...
InMemory == INSTANCE GroupDirectory WITH
    members <- [g \in Gid |-> ToSet(groupInfo[g])], told <- told \ early,
    kept <- TRUE, Durable <- FALSE
MapIsDirectory == InMemory!Spec

\* ... and by the table across restarts, until something fails or overlaps.
InDatabase == INSTANCE GroupDirectory WITH
    members <- [g \in Gid |-> ToSet(groupMember[g])], kept <- Undisturbed,
    Durable <- TRUE
TableIsDirectory == InDatabase!Spec
==============================================================================
