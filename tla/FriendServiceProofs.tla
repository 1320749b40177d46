------------------------- MODULE FriendServiceProofs ------------------------
(***************************************************************************)
(* What registration and the friend requests keep true of chat_user, for   *)
(* any number of threads and users, under any interleaving, failure, death *)
(* and restart.  The inductive invariant adds to ListsNameUsers what each  *)
(* handler knows: that the two of a request have rows, and that the list   *)
(* it read and is about to write back is one ListsNameUsers allows.        *)
(*                                                                         *)
(* A second invariant, on top of the first, follows a pair of users whose  *)
(* requests nothing of another request overlaps: which of their two lists  *)
(* names the other is known at every place of the handler that writes them.*)
(* A third follows the uid a registration is told to the name of its row.    *)
(***************************************************************************)
EXTENDS FriendService, SequenceTheorems, TLAPS

Row(names, u) == u \in Uid /\ names[u] # NoName

\* A friendlist that u may have while the rows are those of names.
ListOf(names, u, l) ==
    l # <<>> /\ Head(l) = u /\ \A v \in ToSet(l) : Row(names, v)

\* What a handler at place p with the locals j knows of its request.
KnowsAt(names, p, j) ==
    /\ p # "idle" => j.op # "none"
    /\ p \in {"insert", "named"} => j.op = "register"
    /\ p \in {"exist", "check", "read", "write"} => j.op = "befriend"
    /\ j.op = "register" => j.name \in Name
    /\ j.op = "befriend" => /\ Row(names, j.uid) /\ Row(names, j.friend)
                            /\ j.owner \in {j.uid, j.friend}
    /\ p = "write" => ListOf(names, j.owner, j.list)

Knows(t) == KnowsAt(userName, pc[t], job[t])

IInv == TypeOK /\ ListsNameUsers /\ \A t \in Thread : Knows(t)

------------------------------------------------------------------------------
LEMMA AppendList ==
  ASSUME NEW names \in [Uid -> Name \union {NoName}], NEW u \in Uid, NEW v,
         NEW l \in Seq(Uid), ListOf(names, u, l), Row(names, v)
  PROVE  Append(l, v) \in Seq(Uid) /\ ListOf(names, u, Append(l, v))
<1>1. v \in Uid  BY DEF Row
<1>2. ToSet(Append(l, v)) = ToSet(l) \union {v}  BY <1>1, AppendProperties DEF ToSet
<1>3. Append(l, v) # <<>> /\ Head(Append(l, v)) = Head(l)
  BY <1>1, AppendProperties DEF ListOf
<1> QED  BY <1>1, <1>2, <1>3, AppendProperties DEF ListOf

\* Rows that are there stay, so what was known is still known.
LEMMA KnownStays ==
  ASSUME NEW n \in [Uid -> Name \union {NoName}], NEW m \in [Uid -> Name \union {NoName}],
         \A u \in Uid : n[u] # NoName => m[u] # NoName,
         NEW p, NEW j, KnowsAt(n, p, j)
  PROVE  KnowsAt(m, p, j)
BY DEF KnowsAt, ListOf, Row

LEMMA SingletonList == ASSUME NEW u \in Uid
                       PROVE  <<u>> \in Seq(Uid) /\ ToSet(<<u>>) = {u} /\ Head(<<u>>) = u
BY DEF ToSet

LEMMA NoJobType == NoJob \in Jobs /\ NoJob.op = "none"
<1>1. <<>> \in Seq(Uid)  OBVIOUS
<1> QED  BY <1>1 DEF NoJob, NewJob, Jobs

LEMMA NoJobKnows == ASSUME NEW n PROVE KnowsAt(n, "idle", NoJob)
BY NoJobType DEF KnowsAt

LEMMA InitIInv == Init => IInv
<1> SUFFICES ASSUME Init PROVE IInv  OBVIOUS
<1>1. friendList \in [Uid -> Seq(Uid)]
  <2>1. \A u \in Uid : (IF HasRow(u) THEN <<u>> ELSE <<>>) \in Seq(Uid)
    BY SingletonList
  <2> QED  BY <2>1 DEF Init
<1>2. TypeOK
  <2>1. 0 \in 0..MaxRequests /\ 0 \in 0..MaxFaults  BY BoundAssumption
  <2> QED  BY <1>1, <2>1, NoJobType DEF Init, DbInit, Up, DbTypeOK, TypeOK, Places
<1>3. ListsNameUsers
  <2> SUFFICES ASSUME NEW u \in Uid
               PROVE  /\ HasRow(u) => friendList[u] # <<>> /\ Head(friendList[u]) = u
                      /\ \A v \in ToSet(friendList[u]) : HasRow(v)
    BY DEF ListsNameUsers
  <2>1. CASE HasRow(u)
    <3>1. friendList[u] = <<u>>  BY <2>1 DEF Init
    <3> QED  BY <2>1, <3>1, SingletonList
  <2>2. CASE ~HasRow(u)
    <3>1. friendList[u] = <<>>  BY <2>2 DEF Init
    <3>2. ToSet(<<>>) = {}  BY DEF ToSet
    <3> QED  BY <2>2, <3>1, <3>2
  <2> QED  BY <2>1, <2>2
<1>4. \A t \in Thread : Knows(t)  BY NoJobKnows DEF Init, Knows
<1> QED  BY <1>2, <1>3, <1>4 DEF IInv

------------------------------------------------------------------------------
\* The part of TypeOK that is not about the threads.
TablesOK ==
    /\ DbTypeOK
    /\ userName \in [Uid -> Name \union {NoName}]
    /\ friendList \in [Uid -> Seq(Uid)]
    /\ befriended \in SUBSET (Uid \X Uid)
    /\ enrolled \in SUBSET (Name \X (Uid \union {NoUid}))
    /\ apart \in BOOLEAN
    /\ requests \in 0..MaxRequests
    /\ faults \in 0..MaxFaults

LEMMA CountType ==
  ASSUME TypeOK, Fault \/ Works
  PROVE  faults' \in 0..MaxFaults /\ apart' \in BOOLEAN
<1>1. CASE Fault
  <2>1. faults \in 0..MaxFaults /\ MaxFaults \in Nat  BY BoundAssumption DEF TypeOK
  <2>2. faults < MaxFaults /\ faults' = faults + 1  BY <1>1 DEF Fault
  <2>3. faults' \in 0..MaxFaults  BY <2>1, <2>2
  <2> QED  BY <1>1, <2>3 DEF Fault
<1>2. CASE Works  BY <1>2 DEF Works, TypeOK
<1> QED  BY <1>1, <1>2

LEMMA QueryType ==
  ASSUME TypeOK, Fault \/ Works, UNCHANGED <<dbVars, tables, befriended, enrolled, requests>>
  PROVE  TablesOK'
<1>1. faults' \in 0..MaxFaults /\ apart' \in BOOLEAN  BY CountType
<1> QED  BY <1>1 DEF TypeOK, TablesOK, DbTypeOK, dbVars, tables

LEMMA RequestType ==
  ASSUME TypeOK, apart' \in BOOLEAN, requests < MaxRequests, requests' = requests + 1,
         UNCHANGED <<dbVars, tables, befriended, enrolled, faults>>
  PROVE  TablesOK'
<1>1. requests \in 0..MaxRequests /\ MaxRequests \in Nat  BY BoundAssumption DEF TypeOK
<1>2. requests' \in 0..MaxRequests  BY <1>1
<1> QED  BY <1>2 DEF TypeOK, TablesOK, DbTypeOK, dbVars, tables

\* A step of t, to p with the locals j, that removes no row.
LEMMA Advances ==
  ASSUME IInv, NEW t \in Thread, NEW p \in Places, NEW j \in Jobs,
         KnowsAt(userName', p, j), TablesOK', ListsNameUsers',
         \A u \in Uid : HasRow(u) => HasRow(u)',
         pc' = [pc EXCEPT ![t] = p], job' = [job EXCEPT ![t] = j]
  PROVE  IInv'
<1>1. TypeOK'  BY DEF IInv, TypeOK, TablesOK
<1>2. ASSUME NEW x \in Thread PROVE Knows(x)'
  <2>1. CASE x = t
    <3>1. pc'[x] = p /\ job'[x] = j  BY <2>1 DEF IInv, TypeOK
    <3> QED  BY <3>1 DEF Knows
  <2>2. CASE x # t
    <3>1. pc'[x] = pc[x] /\ job'[x] = job[x]  BY <2>2 DEF IInv, TypeOK
    <3>2. KnowsAt(userName, pc[x], job[x])  BY DEF IInv, Knows
    <3>3. /\ userName \in [Uid -> Name \union {NoName}]
          /\ userName' \in [Uid -> Name \union {NoName}]
      BY DEF IInv, TypeOK, TablesOK
    <3>4. \A u \in Uid : userName[u] # NoName => userName'[u] # NoName  BY DEF HasRow
    <3>5. KnowsAt(userName', pc[x], job[x])  BY <3>2, <3>3, <3>4, KnownStays
    <3> QED  BY <3>1, <3>5 DEF Knows
  <2> QED  BY <2>1, <2>2
<1> QED  BY <1>1, <1>2 DEF IInv

LEMMA Moves ==
  ASSUME IInv, NEW t \in Thread, NEW p \in Places, NEW j \in Jobs,
         KnowsAt(userName, p, j), TablesOK', UNCHANGED tables,
         pc' = [pc EXCEPT ![t] = p], job' = [job EXCEPT ![t] = j]
  PROVE  IInv'
<1>1. ListsNameUsers' /\ \A u \in Uid : HasRow(u) => HasRow(u)'
  BY DEF IInv, ListsNameUsers, HasRow, tables
<1>2. KnowsAt(userName', p, j)  BY DEF tables
<1> QED  BY <1>1, <1>2, Advances

LEMMA Returns ==
  ASSUME IInv, NEW t \in Thread, TablesOK', UNCHANGED tables, Return(t)
  PROVE  IInv'
<1>1. KnowsAt(userName, "idle", NoJob)  BY NoJobKnows
<1>2. "idle" \in Places  BY DEF Places
<1> QED  BY <1>1, <1>2, Moves, NoJobType DEF Return, Goto

\* The handler goes on to p with its locals as they are.
LEMMA Goes ==
  ASSUME IInv, NEW t \in Thread, NEW p \in Places, KnowsAt(userName, p, job[t]),
         TablesOK', UNCHANGED tables, Goto(t, p), UNCHANGED job
  PROVE  IInv'
<1>1. job[t] \in Jobs /\ job' = [job EXCEPT ![t] = job[t]]  BY DEF IInv, TypeOK
<1> QED  BY <1>1, Moves DEF Goto

------------------------------------------------------------------------------
LEMMA ReceiveInv ==
  ASSUME IInv, NEW t \in Thread, ReceiveRegister(t) \/ ReceiveBefriend(t)
  PROVE  IInv'
<1>1. <<>> \in Seq(Uid) /\ "connect" \in Places  BY DEF Places
<1>2. ASSUME NEW j \in Jobs, Receive(t, j), apart' \in BOOLEAN,
             KnowsAt(userName, "connect", j)
      PROVE  IInv'
  <2>1. TablesOK'
    BY <1>2, RequestType DEF Receive, IInv
  <2>2. /\ UNCHANGED tables /\ pc' = [pc EXCEPT ![t] = "connect"]
        /\ job' = [job EXCEPT ![t] = j]
    BY <1>2 DEF Receive, Goto, tables
  <2> QED  BY <1>1, <1>2, <2>1, <2>2, Moves
<1>3. CASE ReceiveRegister(t)
  <2>1. PICK n \in Name : Receive(t, NewJob("register", NoUid, NoUid, n))
    BY <1>3 DEF ReceiveRegister
  <2> DEFINE j == NewJob("register", NoUid, NoUid, n)
  <2>2. j \in Jobs /\ KnowsAt(userName, "connect", j)
    BY <1>1 DEF NewJob, Jobs, KnowsAt
  <2>3. apart' \in BOOLEAN  BY <1>3 DEF ReceiveRegister, IInv, TypeOK
  <2> HIDE DEF j
  <2> QED  BY <1>2, <2>1, <2>2, <2>3 DEF j
<1>4. CASE ReceiveBefriend(t)
  <2>1. PICK u \in Uid, f \in Uid :
           /\ HasRow(u) /\ HasRow(f)
           /\ Receive(t, NewJob("befriend", u, f, NoName))
           /\ apart' = (apart /\ \A x \in Thread \ {t} :
                        job[x].op = "befriend" => Party(job[x]) \intersect {u, f} = {})
    BY <1>4 DEF ReceiveBefriend
  <2> DEFINE j == NewJob("befriend", u, f, NoName)
  <2>2. j \in Jobs /\ KnowsAt(userName, "connect", j)
    BY <1>1, <2>1 DEF NewJob, Jobs, KnowsAt, HasRow, Row
  <2>3. apart' \in BOOLEAN  BY <2>1 DEF IInv, TypeOK
  <2> HIDE DEF j
  <2> QED  BY <1>2, <2>1, <2>2, <2>3 DEF j
<1> QED  BY <1>3, <1>4

\* The steps that change neither the rows nor, except by returning, the locals.
LEMMA PlainInv ==
  ASSUME IInv, NEW t \in Thread,
         \/ OpenDb(t) \/ OpenDbFails(t) \/ FindFriend(t) \/ CheckFriend(t)
         \/ Reply(t) \/ Refuse(t)
  PROVE  IInv'
<1>0. pc[t] \in Places /\ job[t] \in Jobs /\ KnowsAt(userName, pc[t], job[t])
  BY DEF IInv, TypeOK, Knows
<1>1. CASE OpenDb(t)
  <2> DEFINE p == IF job[t].op = "register" THEN "insert" ELSE "exist"
  <2>1. TablesOK'
    BY <1>1 DEF OpenDb, Connect, tables, TablesOK, IInv, TypeOK, DbTypeOK
  <2>2. KnowsAt(userName, p, job[t])
    BY <1>0, <1>1 DEF OpenDb, At, KnowsAt, Jobs
  <2>3. p \in Places  BY DEF Places
  <2> QED  BY <1>1, <2>1, <2>2, <2>3, Goes DEF OpenDb
<1>2. CASE OpenDbFails(t)
  <2>1. TablesOK'
    BY <1>2, QueryType DEF OpenDbFails, IInv
  <2> QED  BY <1>2, <2>1, Returns DEF OpenDbFails
<1>3. CASE FindFriend(t)
  <2>1. TablesOK'
    BY <1>3, QueryType DEF FindFriend, UseHandle, IInv
  <2>2. /\ KnowsAt(userName, "check", job[t]) /\ KnowsAt(userName, "refuse", job[t])
        /\ "check" \in Places /\ "refuse" \in Places
    BY <1>0, <1>3 DEF FindFriend, At, KnowsAt, Places
  <2>3. Goto(t, "check") \/ Goto(t, "refuse")  BY <1>3 DEF FindFriend
  <2> QED  BY <1>3, <2>1, <2>2, <2>3, Goes DEF FindFriend
<1>4. CASE CheckFriend(t)
  <2>1. TablesOK'
    BY <1>4, QueryType DEF CheckFriend, UseHandle, IInv
  <2>2. /\ KnowsAt(userName, "read", job[t]) /\ KnowsAt(userName, "refuse", job[t])
        /\ "read" \in Places /\ "refuse" \in Places
    BY <1>0, <1>4 DEF CheckFriend, At, KnowsAt, Places
  <2>3. Goto(t, "read") \/ Goto(t, "refuse")  BY <1>4 DEF CheckFriend
  <2> QED  BY <1>4, <2>1, <2>2, <2>3, Goes DEF CheckFriend
<1>5. CASE Reply(t)
  <2>1. job[t].op = "befriend" => job[t].uid \in Uid /\ job[t].friend \in Uid
    BY <1>0 DEF KnowsAt, Row
  <2>2. /\ job[t].op = "register" => job[t].name \in Name
        /\ job[t].friend \in Uid \union {NoUid}
    BY <1>0 DEF KnowsAt, Jobs
  <2>3. befriended' \in SUBSET (Uid \X Uid)
    BY <1>5, <2>1 DEF Reply, IInv, TypeOK
  <2>4. enrolled' \in SUBSET (Name \X (Uid \union {NoUid}))
    BY <1>5, <2>2 DEF Reply, IInv, TypeOK
  <2>5. TablesOK'
    BY <1>5, <2>3, <2>4 DEF Reply, Disconnect, tables, TablesOK, IInv, TypeOK, DbTypeOK
  <2> QED  BY <1>5, <2>5, Returns DEF Reply
<1>6. CASE Refuse(t)
  <2>1. TablesOK'
    BY <1>6 DEF Refuse, Disconnect, tables, TablesOK, IInv, TypeOK, DbTypeOK
  <2> QED  BY <1>6, <2>1, Returns DEF Refuse
<1> QED  BY <1>1, <1>2, <1>3, <1>4, <1>5, <1>6

LEMMA SetUid ==
  ASSUME NEW j \in Jobs, NEW v \in Uid
  PROVE  LET k == [j EXCEPT !.uid = v] IN
         /\ k \in Jobs /\ k.op = j.op /\ k.uid = v /\ k.name = j.name
         /\ k.friend = j.friend /\ k.owner = j.owner
BY DEF Jobs

LEMMA SetFriend ==
  ASSUME NEW j \in Jobs, NEW v \in Uid
  PROVE  LET k == [j EXCEPT !.friend = v] IN
         /\ k \in Jobs /\ k.op = j.op /\ k.friend = v /\ k.name = j.name
         /\ k.uid = j.uid /\ k.owner = j.owner
BY DEF Jobs

LEMMA SetOwner ==
  ASSUME NEW j \in Jobs, NEW v \in Uid
  PROVE  LET k == [j EXCEPT !.owner = v] IN
         /\ k \in Jobs /\ k.op = j.op /\ k.owner = v /\ k.name = j.name
         /\ k.uid = j.uid /\ k.friend = j.friend
BY DEF Jobs

LEMMA SetList ==
  ASSUME NEW j \in Jobs, NEW v \in Seq(Uid)
  PROVE  LET k == [j EXCEPT !.list = v] IN
         /\ k \in Jobs /\ k.op = j.op /\ k.list = v /\ k.owner = j.owner
         /\ k.uid = j.uid /\ k.friend = j.friend /\ k.name = j.name
BY DEF Jobs

\* Registration: the row inserted starts with a list of its own.
LEMMA InsertInv ==
  ASSUME IInv, NEW t \in Thread, InsertUser(t) PROVE IInv'
<1>0. job[t] \in Jobs /\ job[t].op = "register" /\ job[t].name \in Name
  BY DEF IInv, TypeOK, Knows, KnowsAt, InsertUser, At
<1>1. PICK u \in Uid :
        /\ job' = [job EXCEPT ![t] = [job[t] EXCEPT !.uid = u]]
        /\ \/ /\ Works /\ ~HasRow(u)
              /\ userName' = [userName EXCEPT ![u] = job[t].name]
              /\ friendList' = [friendList EXCEPT ![u] = FirstList(u)]
           \/ (Fault \/ (Works /\ HasRow(u))) /\ UNCHANGED tables
  BY DEF InsertUser
<1> DEFINE j == [job[t] EXCEPT !.uid = u]
<1>2. j \in Jobs /\ j.op = "register" /\ j.name \in Name  BY <1>0, SetUid
<1> HIDE DEF j
<1>3. \A n : KnowsAt(n, "named", j)  BY <1>2 DEF KnowsAt
<1>4. "named" \in Places /\ job' = [job EXCEPT ![t] = j]
      /\ pc' = [pc EXCEPT ![t] = "named"]
  BY <1>1 DEF Places, InsertUser, Goto, j
<1>5. CASE (Fault \/ (Works /\ HasRow(u))) /\ UNCHANGED tables
  <2>1. TablesOK'  BY <1>5, QueryType DEF InsertUser, UseHandle, IInv
  <2> QED  BY <1>2, <1>3, <1>4, <1>5, <2>1, Moves
<1>6. CASE /\ Works /\ ~HasRow(u)
           /\ userName' = [userName EXCEPT ![u] = job[t].name]
           /\ friendList' = [friendList EXCEPT ![u] = FirstList(u)]
  <2>1. /\ userName' \in [Uid -> Name \union {NoName}]
        /\ \A v \in Uid : HasRow(v)' <=> HasRow(v) \/ v = u
    BY <1>0, <1>6, NameAssumption DEF HasRow, IInv, TypeOK
  <2>2. friendList' \in [Uid -> Seq(Uid)] /\ friendList'[u] = <<u>>
        /\ \A v \in Uid : v # u => friendList'[v] = friendList[v]
    BY <1>6, SingletonList DEF FirstList, IInv, TypeOK
  <2>3. TablesOK'
    BY <1>6, <2>1, <2>2 DEF Works, InsertUser, UseHandle, dbVars, IInv, TypeOK, TablesOK, DbTypeOK
  <2>4. ASSUME NEW v \in Uid
        PROVE  /\ HasRow(v)' => friendList'[v] # <<>> /\ Head(friendList'[v]) = v
               /\ \A w \in ToSet(friendList'[v]) : HasRow(w)'
    <3>1. CASE v = u
      <4>1. friendList'[v] = <<u>> /\ <<u>> # <<>>  BY <2>2, <3>1
      <4>2. Head(<<u>>) = u /\ ToSet(<<u>>) = {u}  BY SingletonList
      <4>3. friendList'[v] # <<>> /\ Head(friendList'[v]) = v  BY <3>1, <4>1, <4>2
      <4>4. ASSUME NEW w \in ToSet(friendList'[v]) PROVE HasRow(w)'
        BY <2>1, <4>1, <4>2, <4>4
      <4> QED  BY <4>3, <4>4
    <3>2. CASE v # u
      <4>1. friendList[v] \in Seq(Uid)  BY DEF IInv, TypeOK
      <4>2. \A w \in ToSet(friendList[v]) : w \in Uid /\ HasRow(w)
        BY <4>1 DEF ToSet, IInv, ListsNameUsers
      <4>3. HasRow(v) => friendList[v] # <<>> /\ Head(friendList[v]) = v
        BY DEF IInv, ListsNameUsers
      <4>4. friendList'[v] = friendList[v] /\ (HasRow(v)' <=> HasRow(v))
        BY <2>1, <2>2, <3>2
      <4>5. \A w \in ToSet(friendList[v]) : HasRow(w)'  BY <2>1, <4>2
      <4> QED  BY <4>3, <4>4, <4>5
    <3> QED  BY <3>1, <3>2
  <2>5. ListsNameUsers'  BY <2>4 DEF ListsNameUsers
  <2>6. KnowsAt(userName', "named", j)  BY <1>3
  <2> QED  BY <1>2, <1>4, <2>1, <2>3, <2>5, <2>6, Advances
<1> QED  BY <1>1, <1>5, <1>6

LEMMA FindUserInv ==
  ASSUME IInv, NEW t \in Thread, FindUser(t) PROVE IInv'
<1>0. job[t] \in Jobs /\ job[t].op = "register" /\ job[t].name \in Name
  BY DEF IInv, TypeOK, Knows, KnowsAt, FindUser, At
<1>1. TablesOK'  BY QueryType DEF FindUser, UseHandle, IInv
<1>2. "reply" \in Places /\ pc' = [pc EXCEPT ![t] = "reply"] /\ UNCHANGED tables
  BY DEF Places, FindUser, Goto
<1>3. CASE UNCHANGED job
  <2>1. KnowsAt(userName, "reply", job[t])  BY <1>0 DEF KnowsAt
  <2> QED  BY <1>1, <1>2, <1>3, <2>1, Goes DEF Goto
<1>4. ASSUME NEW u \in Named(job[t].name),
             job' = [job EXCEPT ![t] = [job[t] EXCEPT !.friend = u]]
      PROVE  IInv'
  <2> DEFINE j == [job[t] EXCEPT !.friend = u]
  <2>1. u \in Uid  BY DEF Named
  <2>2. j \in Jobs /\ j.op = "register" /\ j.name \in Name  BY <1>0, <2>1, SetFriend
  <2>3. job' = [job EXCEPT ![t] = j]  BY <1>4
  <2> HIDE DEF j
  <2>4. KnowsAt(userName, "reply", j)  BY <2>2 DEF KnowsAt
  <2> QED  BY <1>1, <1>2, <2>2, <2>3, <2>4, Moves
<1> QED  BY <1>3, <1>4 DEF FindUser

------------------------------------------------------------------------------
\* Where database_add_friend goes on to, once the update of one column is over.
LEMMA UpdatedMoves ==
  ASSUME IInv, NEW t \in Thread, pc[t] \in {"read", "write"}, Updated(t)
  PROVE  \E p \in Places, j \in Jobs :
            /\ pc' = [pc EXCEPT ![t] = p] /\ job' = [job EXCEPT ![t] = j]
            /\ KnowsAt(userName, p, j)
<1>0. /\ job[t] \in Jobs /\ job[t].op = "befriend"
      /\ KnowsAt(userName, pc[t], job[t])
  BY DEF IInv, TypeOK, Knows, KnowsAt
<1>1. CASE Goto(t, "reply") /\ UNCHANGED job
  <2>1. "reply" \in Places /\ job' = [job EXCEPT ![t] = job[t]]
    BY <1>1 DEF Places, IInv, TypeOK
  <2>2. KnowsAt(userName, "reply", job[t])  BY <1>0 DEF KnowsAt
  <2> QED  BY <1>0, <1>1, <2>1, <2>2 DEF Goto
<1>2. CASE /\ Goto(t, "read")
           /\ job' = [job EXCEPT ![t].owner = job[t].friend]
  <2> DEFINE j == [job[t] EXCEPT !.owner = job[t].friend]
  <2>1. Row(userName, job[t].uid) /\ Row(userName, job[t].friend)
    BY <1>0 DEF KnowsAt
  <2>2. /\ j \in Jobs /\ j.op = "befriend" /\ j.owner = job[t].friend
        /\ j.uid = job[t].uid /\ j.friend = job[t].friend
    BY <1>0, <2>1, SetOwner DEF Row
  <2>3. job' = [job EXCEPT ![t] = j] /\ "read" \in Places  BY <1>2 DEF Places
  <2> HIDE DEF j
  <2>4. KnowsAt(userName, "read", j)  BY <2>1, <2>2 DEF KnowsAt
  <2> QED  BY <1>2, <2>2, <2>3, <2>4 DEF Goto
<1> QED  BY <1>1, <1>2 DEF Updated

\* The list a handler reads is one its owner may have.
LEMMA ReadInv ==
  ASSUME IInv, NEW t \in Thread, ReadList(t) PROVE IInv'
<1>0. /\ job[t] \in Jobs /\ job[t].op = "befriend" /\ pc[t] = "read"
      /\ KnowsAt(userName, "read", job[t])
  BY DEF IInv, TypeOK, Knows, KnowsAt, ReadList, At
<1>1. TablesOK' /\ UNCHANGED tables  BY QueryType DEF ReadList, UseHandle, IInv
<1>2. CASE Updated(t)  BY <1>0, <1>1, <1>2, UpdatedMoves, Moves
<1>3. CASE /\ HasRow(job[t].owner) /\ Goto(t, "write")
           /\ job' = [job EXCEPT ![t].list = friendList[job[t].owner]]
  <2> DEFINE l == friendList[job[t].owner]
             j == [job[t] EXCEPT !.list = l]
  <2>1. /\ job[t].owner \in Uid /\ Row(userName, job[t].uid)
        /\ Row(userName, job[t].friend) /\ job[t].owner \in {job[t].uid, job[t].friend}
    BY <1>0 DEF KnowsAt, Row
  <2>2. l \in Seq(Uid)  BY <2>1 DEF IInv, TypeOK
  <2>3. ListOf(userName, job[t].owner, l)
    <3>1. \A v \in ToSet(l) : v \in Uid /\ HasRow(v)
      BY <2>1, <2>2 DEF ToSet, IInv, ListsNameUsers
    <3>2. l # <<>> /\ Head(l) = job[t].owner
      BY <1>3, <2>1 DEF IInv, ListsNameUsers
    <3> QED  BY <3>1, <3>2 DEF ListOf, Row, HasRow
  <2>4. job' = [job EXCEPT ![t] = j] /\ "write" \in Places  BY <1>3 DEF Places
  <2> HIDE DEF l
  <2>5. /\ j \in Jobs /\ j.op = "befriend" /\ j.list = l /\ j.owner = job[t].owner
        /\ j.uid = job[t].uid /\ j.friend = job[t].friend
    BY <1>0, <2>2, SetList
  <2> HIDE DEF j
  <2>6. KnowsAt(userName, "write", j)  BY <2>1, <2>3, <2>5 DEF KnowsAt
  <2> QED  BY <1>1, <1>3, <2>4, <2>5, <2>6, Moves DEF Goto
<1> QED  BY <1>2, <1>3 DEF ReadList

\* ... and so is what it writes back, whatever was written in between.
LEMMA WriteInv ==
  ASSUME IInv, NEW t \in Thread, WriteList(t) PROVE IInv'
<1>0. /\ job[t] \in Jobs /\ job[t].op = "befriend" /\ pc[t] = "write"
      /\ KnowsAt(userName, "write", job[t])
  BY DEF IInv, TypeOK, Knows, KnowsAt, WriteList, At
<1>1. PICK p \in Places, j \in Jobs :
            /\ pc' = [pc EXCEPT ![t] = p] /\ job' = [job EXCEPT ![t] = j]
            /\ KnowsAt(userName, p, j)
  BY <1>0, UpdatedMoves DEF WriteList
<1>2. CASE Fault /\ UNCHANGED friendList
  <2>1. UNCHANGED tables  BY <1>2 DEF WriteList, tables
  <2>2. TablesOK'  BY <1>2, <2>1, QueryType DEF WriteList, UseHandle, IInv
  <2> QED  BY <1>1, <2>1, <2>2, Moves
<1>3. CASE /\ Works
           /\ friendList' = [friendList EXCEPT ![job[t].owner] = Extended(job[t])]
  <2> DEFINE u == job[t].owner
             v == Other(job[t])
             l == Append(job[t].list, v)
  <2>1. u \in Uid /\ Row(userName, v) /\ ListOf(userName, u, job[t].list)
    BY <1>0 DEF KnowsAt, Row, Other
  <2>2. l \in Seq(Uid) /\ ListOf(userName, u, l)
    <3>1. job[t].list \in Seq(Uid) /\ userName \in [Uid -> Name \union {NoName}]
      BY <1>0 DEF Jobs, IInv, TypeOK
    <3> HIDE DEF u, v
    <3> QED  BY <2>1, <3>1, AppendList
  <2>3. friendList' = [friendList EXCEPT ![u] = l] /\ UNCHANGED userName
    BY <1>3 DEF Extended, WriteList
  <2> HIDE DEF u, v, l
  <2>4. /\ friendList' \in [Uid -> Seq(Uid)] /\ friendList'[u] = l
        /\ \A w \in Uid : w # u => friendList'[w] = friendList[w]
    BY <2>1, <2>2, <2>3 DEF IInv, TypeOK
  <2>5. TablesOK'
    BY <1>3, <2>3, <2>4 DEF Works, WriteList, UseHandle, dbVars, IInv, TypeOK, TablesOK, DbTypeOK
  <2>6. ListsNameUsers'
    BY <2>2, <2>3, <2>4 DEF ListOf, Row, HasRow, IInv, ListsNameUsers
  <2>7. \A w \in Uid : HasRow(w) => HasRow(w)'  BY <2>3 DEF HasRow
  <2>8. KnowsAt(userName', p, j)  BY <1>1, <2>3
  <2> QED  BY <1>1, <2>5, <2>6, <2>7, <2>8, Advances
<1> QED  BY <1>2, <1>3 DEF WriteList

\* The process dies, or comes up again: the tables are what is left.
LEMMA EndInv ==
  ASSUME IInv, Restart \/ \E t \in Thread : NullHandle(t) PROVE IInv'
<1>1. ListsNameUsers'
  BY DEF IInv, ListsNameUsers, HasRow, tables, Restart, NullHandle
<1>2. CASE Restart
  <2>1. TypeOK'
    BY <1>2 DEF Restart, Reboot, tables, IInv, TypeOK, DbTypeOK
  <2>2. \A x \in Thread : Knows(x)'  BY <1>2 DEF Restart, tables, Knows, IInv
  <2> QED  BY <1>1, <2>1, <2>2 DEF IInv
<1>3. ASSUME NEW t \in Thread, NullHandle(t) PROVE IInv'
  <2>1. DbTypeOK'  BY <1>3 DEF NullHandle, UseNull, Die, DbTypeOK, Deaths
  <2>2. pc' \in [Thread -> Places] /\ job' \in [Thread -> Jobs]
    BY <1>3, NoJobType DEF NullHandle, Places
  <2>3. TypeOK'
    BY <1>3, <2>1, <2>2 DEF NullHandle, tables, IInv, TypeOK
  <2>4. \A x \in Thread : pc'[x] = "idle" /\ job'[x] = NoJob  BY <1>3 DEF NullHandle
  <2>5. \A x \in Thread : Knows(x)'  BY <2>4, NoJobKnows DEF Knows
  <2> QED  BY <1>1, <2>3, <2>5 DEF IInv
<1> QED  BY <1>2, <1>3

LEMMA NextIInv == IInv /\ [FriendNext]_vars => IInv'
<1> SUFFICES ASSUME IInv, [FriendNext]_vars PROVE IInv'  OBVIOUS
<1>1. CASE UNCHANGED vars
  BY <1>1 DEF vars, IInv, TypeOK, DbTypeOK, ListsNameUsers, HasRow, Knows
<1>2. CASE Served  BY <1>1, <1>2 DEF Served
<1>3. CASE Restart  BY <1>3, EndInv
<1>4. ASSUME NEW t \in Thread, Work(t) PROVE IInv'
  BY <1>4, ReceiveInv, PlainInv, InsertInv, FindUserInv, ReadInv, WriteInv, EndInv
  DEF Work
<1> QED  BY <1>1, <1>2, <1>3, <1>4 DEF FriendNext

\* Registration and friend requests keep their types.
THEOREM TypeCorrect == FriendSpec => []TypeOK
<1>1. IInv => TypeOK  BY DEF IInv
<1> QED  BY <1>1, InitIInv, NextIInv, PTL DEF FriendSpec

\* No interleaving, failing statement, death or restart puts anyone in a
\* friendlist who has no row, or takes a user from the head of his own list.
THEOREM ListsNameOnlyUsers == FriendSpec => []ListsNameUsers
<1>1. IInv => ListsNameUsers  BY DEF IInv
<1> QED  BY <1>1, InitIInv, NextIInv, PTL DEF FriendSpec
------------------------------------------------------------------------------
\* The users in a user's friendlist, himself included.
Friends(u) == ToSet(friendList[u])

\* The handler has written the list of one of the two and not of the other.
Half(p, j, u, v) ==
    /\ j.op = "befriend" /\ p \in {"read", "write"} /\ j.owner = j.friend
    /\ {u, v} = Party(j)

Balanced(u, v) ==
    \/ v \in Friends(u) <=> u \in Friends(v)
    \/ \E t \in Thread : Half(pc[t], job[t], u, v)

\* What a handler that has its two users to itself knows of their lists.
KnowsPair(p, j) == j.op = "befriend" =>
    /\ p \in {"connect", "exist", "check"} => j.owner = j.uid
    /\ p \in {"read", "write"} => /\ j.uid # j.friend
                                  /\ j.uid \notin Friends(j.friend)
                                  /\ j.owner = j.uid <=> j.friend \notin Friends(j.uid)
    /\ p = "write" => j.list = friendList[j.owner]
    /\ p = "reply" => j.friend \in Friends(j.uid) /\ j.uid \in Friends(j.friend)

Separate(j, k) ==
    j.op = "befriend" /\ k.op = "befriend" => Party(j) \intersect Party(k) = {}

MutualPair(q) == q[2] \in Friends(q[1]) /\ q[1] \in Friends(q[2])

ApartInv ==
    /\ \A t, x \in Thread : t # x => Separate(job[t], job[x])
    /\ \A t \in Thread : KnowsPair(pc[t], job[t])
    /\ \A u, v \in Uid : Balanced(u, v)
    /\ \A q \in befriended : MutualPair(q)
    /\ \A u \in Uid : IsInjective(friendList[u])

\* Who has no row has no list.
EmptyInv == \A u \in Uid : ~HasRow(u) => friendList[u] = <<>>

PairInv == EmptyInv /\ (apart => ApartInv)

LEMMA InitPairInv == Init => PairInv
<1> SUFFICES ASSUME Init PROVE PairInv  OBVIOUS
<1>1. EmptyInv  BY DEF Init, EmptyInv
<1>2. \A u \in Uid : Friends(u) = IF HasRow(u) THEN {u} ELSE {}
  BY SingletonList DEF Init, Friends, ToSet
<1>3. \A u, v \in Uid : Balanced(u, v)  BY <1>2 DEF Balanced
<1>4. \A t \in Thread : job[t].op = "none"  BY NoJobType DEF Init
<1>5. \A u \in Uid : IsInjective(friendList[u])  BY DEF Init, IsInjective
<1>6. ApartInv
  BY <1>3, <1>4, <1>5 DEF Init, ApartInv, Separate, KnowsPair
<1> QED  BY <1>1, <1>6 DEF PairInv

\* A handler moves on and the tables stay.
LEMMA StillApart ==
  ASSUME IInv, ApartInv, NEW t \in Thread, NEW p, NEW j,
         pc' = [pc EXCEPT ![t] = p], job' = [job EXCEPT ![t] = j], UNCHANGED tables,
         KnowsPair(p, j),
         \A u, v \in Uid : Half(pc[t], job[t], u, v) => Half(p, j, u, v),
         \A x \in Thread \ {t} : Separate(j, job[x]),
         \A q \in befriended' : q \in befriended \/ MutualPair(q)
  PROVE  ApartInv'
<1>1. /\ pc'[t] = p /\ job'[t] = j
      /\ \A x \in Thread : x # t => pc'[x] = pc[x] /\ job'[x] = job[x]
  BY DEF IInv, TypeOK
<1>2. \A u : Friends(u)' = Friends(u)  BY DEF Friends, tables
<1>3. ASSUME NEW x \in Thread, NEW y \in Thread, x # y
      PROVE  Separate(job[x], job[y])'
  <2>1. CASE x = t  BY <1>1, <1>3, <2>1 DEF Separate, Party
  <2>2. CASE y = t  BY <1>1, <1>3, <2>2 DEF Separate, Party
  <2>3. CASE x # t /\ y # t  BY <1>1, <1>3, <2>3 DEF ApartInv, Separate, Party
  <2> QED  BY <2>1, <2>2, <2>3
<1>4. ASSUME NEW x \in Thread PROVE KnowsPair(pc[x], job[x])'
  <2>1. KnowsPair(pc'[x], job'[x])  BY <1>1 DEF ApartInv
  <2> QED  BY <2>1 DEF KnowsPair, Friends, tables
<1>5. ASSUME NEW u \in Uid, NEW v \in Uid PROVE Balanced(u, v)'
  <2>1. CASE v \in Friends(u) <=> u \in Friends(v)
    BY <2>1 DEF Balanced, Friends, tables
  <2>2. ASSUME NEW x \in Thread, Half(pc[x], job[x], u, v) PROVE Balanced(u, v)'
    <3>1. Half(pc'[x], job'[x], u, v)  BY <1>1, <2>2
    <3> QED  BY <3>1 DEF Balanced, Half, Party
  <2> QED  BY <2>1, <2>2 DEF ApartInv, Balanced
<1>6. \A q \in befriended' : MutualPair(q)'
  BY DEF ApartInv, MutualPair, Friends, tables
<1>7. \A u \in Uid : IsInjective(friendList[u])'
  BY DEF ApartInv, tables
<1> QED  BY <1>3, <1>4, <1>5, <1>6, <1>7 DEF ApartInv

LEMMA NoJobPair ==
  /\ \A x \in Thread : Separate(NoJob, job[x])
  /\ KnowsPair("idle", NoJob)
BY NoJobType DEF Separate, KnowsPair

\* The row of a new user: nobody has him in his list yet.
LEMMA InsertApart ==
  ASSUME IInv, PairInv, NEW t \in Thread, InsertUser(t), apart' PROVE ApartInv'
<1>1. PICK u \in Uid :
        /\ job' = [job EXCEPT ![t] = [job[t] EXCEPT !.uid = u]]
        /\ \/ /\ Works /\ ~HasRow(u)
              /\ friendList' = [friendList EXCEPT ![u] = FirstList(u)]
           \/ (Fault \/ (Works /\ HasRow(u))) /\ UNCHANGED tables
  BY DEF InsertUser
<1> DEFINE j == [job[t] EXCEPT !.uid = u]
<1>2. job[t] \in Jobs /\ job[t].op = "register"
  BY DEF IInv, TypeOK, Knows, KnowsAt, InsertUser, At
<1>3. j.op = "register"  BY <1>2, SetUid
<1>4. job' = [job EXCEPT ![t] = j] /\ pc' = [pc EXCEPT ![t] = "named"]
      /\ befriended' = befriended
  BY <1>1 DEF InsertUser, Goto
<1> HIDE DEF j
<1>5. ~Fault /\ ApartInv  BY DEF Fault, InsertUser, Works, PairInv
<1>6. /\ \A x \in Thread : Separate(j, job[x]) /\ KnowsPair("named", j)
      /\ \A a, b \in Uid : ~Half(pc[t], job[t], a, b)
  BY <1>2, <1>3 DEF Separate, KnowsPair, Half
<1>7. CASE UNCHANGED tables
  BY <1>4, <1>5, <1>6, <1>7, StillApart
<1>8. CASE ~HasRow(u) /\ friendList' = [friendList EXCEPT ![u] = FirstList(u)]
  <2>1. /\ friendList'[u] = <<u>> /\ friendList[u] = <<>>
        /\ \A v \in Uid : v # u => friendList'[v] = friendList[v]
    BY <1>8 DEF FirstList, PairInv, EmptyInv, IInv, TypeOK
  <2>2. /\ job'[t] = j /\ pc'[t] = "named"
        /\ \A x \in Thread : x # t => job'[x] = job[x] /\ pc'[x] = pc[x]
    BY <1>4 DEF IInv, TypeOK
  <2>3. Friends(u)' = {u} /\ Friends(u) = {}
        /\ \A v \in Uid : v # u => Friends(v)' = Friends(v) /\ u \notin Friends(v)
    BY <1>8, <2>1, SingletonList DEF Friends, ToSet, IInv, ListsNameUsers
  <2>4. ASSUME NEW x \in Thread, NEW y \in Thread, x # y
        PROVE  Separate(job[x], job[y])'
    BY <1>3, <1>5, <2>2, <2>4 DEF ApartInv, Separate, Party
  <2>5. ASSUME NEW x \in Thread PROVE KnowsPair(pc[x], job[x])'
    <3>1. CASE x = t  BY <1>3, <2>2, <3>1 DEF KnowsPair
    <3>2. CASE x # t
      <4>1. KnowsPair(pc[x], job[x]) /\ KnowsAt(userName, pc[x], job[x])
        BY <1>5 DEF ApartInv, IInv, Knows
      <4>2. job[x].op = "befriend" =>
               /\ job[x].owner \in Party(job[x])
               /\ \A v \in Party(job[x]) : v \in Uid /\ v # u
        BY <1>8, <4>1 DEF KnowsAt, Row, Party, HasRow
      <4>3. KnowsPair(pc[x], job[x])' <=> KnowsPair(pc[x], job[x])
        BY <2>1, <2>2, <3>2, <4>2 DEF KnowsPair, Friends, Party
      <4> QED  BY <4>1, <4>3
    <3> QED  BY <3>1, <3>2
  <2>6. ASSUME NEW a \in Uid, NEW b \in Uid PROVE Balanced(a, b)'
    <3>1. CASE a = u \/ b = u  BY <2>3, <3>1 DEF Balanced
    <3>2. CASE a # u /\ b # u /\ (b \in Friends(a) <=> a \in Friends(b))
      BY <2>3, <3>2 DEF Balanced
    <3>3. ASSUME NEW x \in Thread, Half(pc[x], job[x], a, b) PROVE Balanced(a, b)'
      <4>1. x # t  BY <1>6, <3>3
      <4> QED  BY <2>2, <3>3, <4>1 DEF Balanced, Half, Party
    <3> QED  BY <1>5, <3>1, <3>2, <3>3 DEF ApartInv, Balanced
  <2>7. ASSUME NEW q \in befriended' PROVE MutualPair(q)'
    <3>1. q \in befriended /\ q[1] \in Uid /\ q[2] \in Uid
      BY <1>4, <2>7 DEF IInv, TypeOK
    <3>2. q[2] \in Friends(q[1]) /\ q[1] \in Friends(q[2])
      BY <1>5, <3>1 DEF ApartInv, MutualPair
    <3>3. q[1] # u /\ q[2] # u  BY <2>3, <3>2
    <3> QED  BY <2>1, <3>1, <3>2, <3>3 DEF MutualPair, Friends
  <2>8. \A v \in Uid : IsInjective(friendList[v])'
    <3>1. IsInjective(<<u>>)  BY DEF IsInjective
    <3> QED  BY <1>5, <2>1, <3>1 DEF ApartInv
  <2> QED  BY <2>4, <2>5, <2>6, <2>7, <2>8 DEF ApartInv
<1> QED  BY <1>1, <1>5, <1>7, <1>8

LEMMA AppendOne ==
  ASSUME NEW s \in Seq(Uid), NEW e \in Uid
  PROVE  /\ ToSet(Append(s, e)) = ToSet(s) \union {e}
         /\ IsInjective(s) /\ e \notin ToSet(s) => IsInjective(Append(s, e))
         /\ IsPrefix(s, Append(s, e))
<1>1. ToSet(Append(s, e)) = ToSet(s) \union {e}  BY AppendProperties DEF ToSet
<1>2. IsInjective(s) /\ e \notin ToSet(s) => IsInjective(Append(s, e))
  BY AppendProperties DEF IsInjective, ToSet
<1>3. IsPrefix(s, Append(s, e))
  BY AppendProperties DEF IsPrefix
<1> QED  BY <1>1, <1>2, <1>3

\* The list written back is the one in the table with the other one appended.
LEMMA WriteAppends ==
  ASSUME IInv, PairInv, NEW t \in Thread, WriteList(t), apart'
  PROVE  LET o == job[t].owner  v == Other(job[t]) IN
         /\ ApartInv /\ job[t] \in Jobs /\ job[t].op = "befriend" /\ pc[t] = "write"
         /\ o \in Uid /\ v \in Uid /\ Party(job[t]) = {o, v} /\ o # v
         /\ v \notin Friends(o) /\ KnowsPair(pc[t], job[t])
         /\ job[t].uid # job[t].friend
         /\ friendList'[o] = Append(friendList[o], v)
         /\ \A u \in Uid : u # o => friendList'[u] = friendList[u]
         /\ ToSet(friendList'[o]) = Friends(o) \union {v}
<1> DEFINE o == job[t].owner
           v == Other(job[t])
<1>1. /\ job[t] \in Jobs /\ job[t].op = "befriend" /\ pc[t] = "write"
      /\ KnowsAt(userName, "write", job[t])
  BY DEF IInv, TypeOK, Knows, KnowsAt, WriteList, At
<1>2. ~Fault /\ ApartInv  BY DEF Fault, WriteList, Works, PairInv
<1>3. KnowsPair("write", job[t])  BY <1>1, <1>2 DEF ApartInv
<1>4. /\ job[t].uid # job[t].friend /\ job[t].owner \in {job[t].uid, job[t].friend}
      /\ job[t].list = friendList[o] /\ job[t].uid \in Uid /\ job[t].friend \in Uid
  BY <1>1, <1>3 DEF KnowsPair, KnowsAt, Row
<1>5. o \in Uid /\ v \in Uid /\ Party(job[t]) = {o, v} /\ o # v
  BY <1>4 DEF Other, Party
<1>6. v \notin Friends(o)
  BY <1>1, <1>3, <1>4 DEF KnowsPair, Other
<1>7. friendList' = [friendList EXCEPT ![o] = Append(friendList[o], v)]
  BY <1>2, <1>4 DEF WriteList, Extended
<1> HIDE DEF o, v
<1>8. /\ friendList'[o] = Append(friendList[o], v)
      /\ \A u \in Uid : u # o => friendList'[u] = friendList[u]
      /\ friendList[o] \in Seq(Uid)
  BY <1>5, <1>7 DEF IInv, TypeOK
<1>9. ToSet(friendList'[o]) = Friends(o) \union {v}
  BY <1>5, <1>8, AppendOne DEF Friends
<1> QED  BY <1>1, <1>2, <1>3, <1>4, <1>5, <1>6, <1>8, <1>9 DEF o, v

\* An update of one of the two lists.
LEMMA WriteApart ==
  ASSUME IInv, PairInv, NEW t \in Thread, WriteList(t), apart' PROVE ApartInv'
<1> DEFINE o == job[t].owner
           v == Other(job[t])
           k == job[t]
<1>1. /\ ApartInv /\ k \in Jobs /\ k.op = "befriend" /\ pc[t] = "write"
      /\ o \in Uid /\ v \in Uid /\ Party(k) = {o, v} /\ o # v
      /\ v \notin Friends(o) /\ KnowsPair("write", k) /\ k.uid # k.friend
      /\ friendList'[o] = Append(friendList[o], v)
      /\ \A u \in Uid : u # o => friendList'[u] = friendList[u]
      /\ ToSet(friendList'[o]) = Friends(o) \union {v}
  BY WriteAppends
<1>2. PICK p, j : /\ pc' = [pc EXCEPT ![t] = p] /\ job' = [job EXCEPT ![t] = j]
                  /\ j.op = "befriend" /\ j.uid = k.uid /\ j.friend = k.friend
                  /\ \/ p = "reply" /\ o = k.friend
                     \/ p = "read" /\ o = k.uid /\ j.owner = k.friend
  <2>1. k.uid \in Uid /\ k.friend \in Uid /\ k.owner \in {k.uid, k.friend}
    BY <1>1 DEF IInv, Knows, KnowsAt, Row
  <2>2. CASE o = k.friend
    <3>1. Goto(t, "reply") /\ job' = [job EXCEPT ![t] = k]
      BY <2>2 DEF WriteList, Updated, IInv, TypeOK
    <3> QED  BY <1>1, <2>2, <3>1 DEF Goto
  <2>3. CASE o # k.friend
    <3> DEFINE j == [k EXCEPT !.owner = k.friend]
    <3>1. Goto(t, "read") /\ job' = [job EXCEPT ![t] = j]
      BY <2>3 DEF WriteList, Updated
    <3>2. j.op = k.op /\ j.owner = k.friend /\ j.uid = k.uid /\ j.friend = k.friend
      BY <1>1, <2>1, SetOwner
    <3> HIDE DEF j
    <3> QED  BY <1>1, <2>1, <2>3, <3>1, <3>2 DEF Goto
  <2> QED  BY <2>2, <2>3
<1> DEFINE F(u) == ToSet(friendList'[u])
<1>3. /\ F(o) = Friends(o) \union {v}
      /\ \A u \in Uid : u # o => F(u) = Friends(u)
  BY <1>1 DEF Friends
<1>4. /\ pc'[t] = p /\ job'[t] = j
      /\ \A x \in Thread : x # t => pc'[x] = pc[x] /\ job'[x] = job[x]
  BY <1>2 DEF IInv, TypeOK
<1>5. Party(j) = Party(k)  BY <1>2 DEF Party
<1> HIDE DEF o, v, k
<1>6. ASSUME NEW x \in Thread, NEW y \in Thread, x # y
      PROVE  Separate(job[x], job[y])'
  <2>1. Separate(job[x], job[y])  BY <1>1, <1>6 DEF ApartInv
  <2>2. CASE x = t
    <3>1. job'[x] = j /\ job'[y] = job[y]  BY <1>4, <1>6, <2>2
    <3> QED  BY <1>1, <1>2, <1>5, <2>1, <2>2, <3>1 DEF Separate, Party, k
  <2>3. CASE y = t
    <3>1. job'[y] = j /\ job'[x] = job[x]  BY <1>4, <1>6, <2>3
    <3> QED  BY <1>1, <1>2, <1>5, <2>1, <2>3, <3>1 DEF Separate, Party, k
  <2>4. CASE x # t /\ y # t  BY <1>4, <2>1, <2>4 DEF Separate, Party
  <2> QED  BY <2>2, <2>3, <2>4
<1>7. KnowsPair(pc[t], job[t])'
  <2>1. k.uid \in Uid /\ k.friend \in Uid /\ k.uid # k.friend
    BY <1>1 DEF IInv, Knows, KnowsAt, Row, k
  <2>2. CASE p = "reply" /\ o = k.friend
    <3>1. v = k.uid  BY <1>1, <2>1, <2>2 DEF Party
    <3>2. k.friend \in Friends(k.uid)
      BY <1>1, <2>1, <2>2 DEF KnowsPair, o, k
    <3>3. k.friend \in F(k.uid) /\ k.uid \in F(k.friend)
      BY <1>3, <2>1, <2>2, <3>1, <3>2
    <3> QED  BY <1>2, <1>4, <2>2, <3>3 DEF KnowsPair, Friends
  <2>3. CASE p = "read" /\ o = k.uid /\ j.owner = k.friend
    <3>1. v = k.friend  BY <1>1, <2>1, <2>3 DEF Party
    <3>2. k.uid \notin Friends(k.friend)
      BY <1>1 DEF KnowsPair
    <3>3. k.friend \in F(k.uid) /\ k.uid \notin F(k.friend)
      BY <1>3, <2>1, <2>3, <3>1, <3>2
    <3> QED  BY <1>2, <1>4, <2>1, <2>3, <3>3 DEF KnowsPair, Friends
  <2> QED  BY <1>2, <2>2, <2>3
<1>8. ASSUME NEW x \in Thread, x # t PROVE KnowsPair(pc[x], job[x])'
  <2>1. KnowsPair(pc[x], job[x]) /\ KnowsAt(userName, pc[x], job[x])
    BY <1>1 DEF ApartInv, IInv, Knows
  <2>2. Separate(job[x], k)  BY <1>1, <1>8 DEF ApartInv, k
  <2>3. job[x].op = "befriend" =>
           /\ job[x].owner \in Party(job[x])
           /\ \A u \in Party(job[x]) : u \in Uid /\ u # o
    BY <1>1, <2>1, <2>2 DEF KnowsAt, Row, Party, Separate
  <2>4. KnowsPair(pc[x], job[x])' <=> KnowsPair(pc[x], job[x])
    BY <1>1, <1>4, <1>8, <2>3 DEF KnowsPair, Friends, Party
  <2> QED  BY <2>1, <2>4
<1>9. ASSUME NEW a \in Uid, NEW b \in Uid PROVE Balanced(a, b)'
  <2>1. CASE {a, b} = {o, v}
    <3>1. CASE p = "reply" /\ o = k.friend
      <4>1. KnowsPair(pc[t], job[t])' => k.friend \in F(k.uid) /\ k.uid \in F(k.friend)
        BY <1>2, <1>4, <3>1 DEF KnowsPair, Friends
      <4>2. {a, b} = {k.uid, k.friend}  BY <1>1, <2>1 DEF Party
      <4>3. b \in F(a) /\ a \in F(b)
        BY <1>1, <1>7, <4>1, <4>2
      <4> QED  BY <4>3 DEF Balanced, Friends
    <3>2. CASE p = "read" /\ o = k.uid /\ j.owner = k.friend
      <4>1. Half(pc'[t], job'[t], a, b)
        BY <1>1, <1>2, <1>4, <1>5, <2>1, <3>2 DEF Half
      <4> QED  BY <4>1 DEF Balanced, Half, Party
    <3> QED  BY <1>2, <3>1, <3>2
  <2>2. CASE {a, b} # {o, v} /\ (b \in Friends(a) <=> a \in Friends(b))
    <3>1. b \in F(a) <=> a \in F(b)  BY <1>3, <2>2
    <3> QED  BY <3>1 DEF Balanced, Friends
  <2>3. ASSUME {a, b} # {o, v}, NEW x \in Thread, Half(pc[x], job[x], a, b)
        PROVE  Balanced(a, b)'
    <3>1. x # t  BY <1>1, <2>3 DEF Half, k
    <3> QED  BY <1>4, <2>3, <3>1 DEF Balanced, Half, Party
  <2> QED  BY <1>1, <2>1, <2>2, <2>3 DEF ApartInv, Balanced
<1>10. ASSUME NEW q \in befriended' PROVE MutualPair(q)'
  <2>1. q \in befriended /\ q[1] \in Uid /\ q[2] \in Uid
    BY <1>10 DEF IInv, TypeOK, WriteList
  <2>2. q[2] \in Friends(q[1]) /\ q[1] \in Friends(q[2])
    BY <1>1, <2>1 DEF ApartInv, MutualPair
  <2>3. q[2] \in F(q[1]) /\ q[1] \in F(q[2])  BY <1>3, <2>1, <2>2
  <2> QED  BY <2>3 DEF MutualPair, Friends
<1>11. ASSUME NEW u \in Uid PROVE IsInjective(friendList'[u])
  <2>1. friendList[u] \in Seq(Uid) /\ IsInjective(friendList[u])
    BY <1>1 DEF ApartInv, IInv, TypeOK
  <2>2. CASE u = o
    <3>1. v \notin ToSet(friendList[o])  BY <1>1 DEF Friends
    <3> QED  BY <1>1, <2>1, <2>2, <3>1, AppendOne
  <2>3. CASE u # o  BY <1>1, <2>1, <2>3
  <2> QED  BY <2>2, <2>3
<1> QED  BY <1>6, <1>7, <1>8, <1>9, <1>10, <1>11 DEF ApartInv

LEMMA WorkApart ==
  ASSUME IInv, PairInv, NEW t \in Thread, Work(t), apart' PROVE ApartInv'
<1>0. /\ job[t] \in Jobs /\ KnowsAt(userName, pc[t], job[t])
      /\ job[t] = job[t]
  BY DEF IInv, TypeOK, Knows
<1>1. apart
  BY DEF Work, ReceiveRegister, ReceiveBefriend, OpenDb, OpenDbFails, InsertUser,
     FindUser, FindFriend, CheckFriend, ReadList, WriteList, Reply, Refuse, NullHandle,
     Works, Fault, IInv, TypeOK
<1>2. ApartInv /\ KnowsPair(pc[t], job[t])  BY <1>1 DEF PairInv, ApartInv
<1>3. ~Fault /\ ~NullHandle(t)  BY DEF Fault, NullHandle
<1>4. \A x \in Thread \ {t} : Separate(job[t], job[x])  BY <1>2 DEF ApartInv
\* The handler goes on to p with the locals it has.
<1>5. ASSUME NEW p, Goto(t, p), UNCHANGED job, UNCHANGED tables,
             UNCHANGED befriended, KnowsPair(p, job[t]),
             pc[t] \notin {"read", "write"}
      PROVE  ApartInv'
  <2>1. pc' = [pc EXCEPT ![t] = p] /\ job' = [job EXCEPT ![t] = job[t]]
    BY <1>5 DEF Goto, IInv, TypeOK
  <2>2. \A u, v \in Uid : ~Half(pc[t], job[t], u, v)  BY <1>5 DEF Half
  <2> QED  BY <1>2, <1>4, <1>5, <2>1, <2>2, StillApart
<1>6. ASSUME Return(t), UNCHANGED tables, pc[t] \notin {"read", "write"},
             \A q \in befriended' : q \in befriended \/ MutualPair(q)
      PROVE  ApartInv'
  <2>1. \A u, v \in Uid : ~Half(pc[t], job[t], u, v)  BY <1>6 DEF Half
  <2> QED  BY <1>2, <1>6, <2>1, NoJobPair, StillApart DEF Return, Goto
<1>7. CASE ReceiveRegister(t)
  <2>1. PICK n \in Name : Receive(t, NewJob("register", NoUid, NoUid, n))
    BY <1>7 DEF ReceiveRegister
  <2> DEFINE j == NewJob("register", NoUid, NoUid, n)
  <2>2. j.op = "register"  BY DEF NewJob
  <2>3. /\ pc' = [pc EXCEPT ![t] = "connect"] /\ job' = [job EXCEPT ![t] = j]
        /\ UNCHANGED tables /\ befriended' = befriended /\ pc[t] = "idle"
    BY <2>1 DEF Receive, Goto, At, tables
  <2> HIDE DEF j
  <2>4. /\ KnowsPair("connect", j) /\ \A x \in Thread : Separate(j, job[x])
        /\ \A u, v \in Uid : ~Half(pc[t], job[t], u, v)
    BY <2>2, <2>3 DEF KnowsPair, Separate, Half
  <2> QED  BY <1>2, <2>3, <2>4, StillApart
<1>8. CASE ReceiveBefriend(t)
  <2>1. PICK u \in Uid, f \in Uid :
           /\ Receive(t, NewJob("befriend", u, f, NoName))
           /\ \A x \in Thread \ {t} :
                 job[x].op = "befriend" => Party(job[x]) \intersect {u, f} = {}
    BY <1>8 DEF ReceiveBefriend
  <2> DEFINE j == NewJob("befriend", u, f, NoName)
  <2>2. j.op = "befriend" /\ j.uid = u /\ j.friend = f /\ j.owner = u
    BY DEF NewJob
  <2>3. /\ pc' = [pc EXCEPT ![t] = "connect"] /\ job' = [job EXCEPT ![t] = j]
        /\ UNCHANGED tables /\ befriended' = befriended /\ pc[t] = "idle"
    BY <2>1 DEF Receive, Goto, At, tables
  <2> HIDE DEF j
  <2>4. KnowsPair("connect", j) /\ \A a, b \in Uid : ~Half(pc[t], job[t], a, b)
    BY <2>2, <2>3 DEF KnowsPair, Half
  <2>5. \A x \in Thread \ {t} : Separate(j, job[x])
    BY <2>1, <2>2 DEF Separate, Party
  <2> QED  BY <1>2, <2>3, <2>4, <2>5, StillApart
<1>9. CASE OpenDb(t)
  <2>1. KnowsPair(IF job[t].op = "register" THEN "insert" ELSE "exist", job[t])
    BY <1>2, <1>9 DEF OpenDb, At, KnowsPair
  <2> QED  BY <1>5, <1>9, <2>1 DEF OpenDb, At
<1>10. CASE InsertUser(t)  BY <1>10, InsertApart
<1>11. CASE FindUser(t)
  <2>1. job[t].op = "register" /\ pc[t] = "named"
    BY <1>0, <1>11 DEF FindUser, At, KnowsAt
  <2>2. UNCHANGED job => ApartInv'
    BY <1>5, <1>11, <2>1 DEF FindUser, KnowsPair
  <2>3. ASSUME NEW u \in Named(job[t].name),
               job' = [job EXCEPT ![t] = [job[t] EXCEPT !.friend = u]]
        PROVE  ApartInv'
    <3> DEFINE j == [job[t] EXCEPT !.friend = u]
    <3>1. j.op = "register"  BY <1>0, <2>1, SetFriend DEF Named
    <3>2. job' = [job EXCEPT ![t] = j]  BY <2>3
    <3> HIDE DEF j
    <3>3. /\ KnowsPair("reply", j) /\ \A x \in Thread : Separate(j, job[x])
          /\ \A a, b \in Uid : ~Half(pc[t], job[t], a, b)
      BY <2>1, <3>1 DEF KnowsPair, Separate, Half
    <3> QED  BY <1>2, <1>11, <3>2, <3>3, StillApart DEF FindUser, Goto
  <2> QED  BY <1>11, <2>2, <2>3 DEF FindUser
<1>12. CASE FindFriend(t)
  <2>1. Goto(t, "check") \/ Goto(t, "refuse")  BY <1>12 DEF FindFriend
  <2>2. pc[t] = "exist" /\ job[t].op = "befriend"
    BY <1>0, <1>12 DEF FindFriend, At, KnowsAt
  <2>3. KnowsPair("check", job[t]) /\ KnowsPair("refuse", job[t])
    BY <1>2, <2>2 DEF KnowsPair
  <2> QED  BY <1>5, <1>12, <2>1, <2>2, <2>3 DEF FindFriend
<1>13. CASE CheckFriend(t)
  <2>1. pc[t] = "check" /\ job[t].op = "befriend"
    BY <1>0, <1>13 DEF CheckFriend, At, KnowsAt
  <2>2. CASE Goto(t, "refuse")
    <3>1. KnowsPair("refuse", job[t])  BY DEF KnowsPair
    <3> QED  BY <1>5, <1>13, <2>1, <2>2, <3>1 DEF CheckFriend
  <2>3. CASE ~IsFriend(job[t]) /\ Goto(t, "read")
    <3> DEFINE u == job[t].uid
               f == job[t].friend
    <3>1. u \in Uid /\ f \in Uid /\ HasRow(u) /\ job[t].owner = u
      BY <1>0, <1>2, <2>1 DEF KnowsAt, Row, HasRow, KnowsPair
    <3>2. f \notin Friends(u)  BY <2>3 DEF IsFriend, Friends
    <3>3. u \in Friends(u)
      <4>1. friendList[u] \in Seq(Uid) /\ friendList[u] # <<>> /\ Head(friendList[u]) = u
        BY <3>1 DEF IInv, TypeOK, ListsNameUsers
      <4>2. friendList[u][1] = u /\ 1 \in DOMAIN friendList[u]
        BY <4>1
      <4> HIDE DEF u
      <4> QED  BY <4>2 DEF Friends, ToSet
    <3>4. u \notin Friends(f)
      <4>1. \A x \in Thread : ~Half(pc[x], job[x], u, f)
        <5> SUFFICES ASSUME NEW x \in Thread, Half(pc[x], job[x], u, f) PROVE FALSE
          OBVIOUS
        <5>1. x # t  BY <2>1 DEF Half
        <5>2. Party(job[x]) = Party(job[t]) /\ job[x].op = "befriend"
          BY DEF Half, Party
        <5>3. Separate(job[t], job[x])  BY <1>4, <5>1
        <5> QED  BY <2>1, <5>2, <5>3 DEF Separate, Party
      <4>2. Balanced(u, f)  BY <1>2, <3>1 DEF ApartInv
      <4> QED  BY <3>2, <4>1, <4>2 DEF Balanced
    <3>5. KnowsPair("read", job[t])
      BY <3>1, <3>2, <3>3, <3>4 DEF KnowsPair
    <3> QED  BY <1>5, <1>13, <2>1, <2>3, <3>5 DEF CheckFriend
  <2> QED  BY <1>3, <1>13, <2>2, <2>3 DEF CheckFriend
<1>14. CASE ReadList(t)
  <2>1. /\ pc[t] = "read" /\ job[t].op = "befriend" /\ job[t].owner \in Uid
        /\ job[t].owner \in Party(job[t]) /\ HasRow(job[t].owner)
    BY <1>0, <1>14 DEF ReadList, At, KnowsAt, Row, HasRow, Party
  <2> DEFINE l == friendList[job[t].owner]
             j == [job[t] EXCEPT !.list = l]
  <2>2. job' = [job EXCEPT ![t] = j] /\ pc' = [pc EXCEPT ![t] = "write"]
    BY <1>3, <1>14, <2>1 DEF ReadList, Goto
  <2>3. l \in Seq(Uid)  BY <2>1 DEF IInv, TypeOK
  <2>4. /\ j.op = "befriend" /\ j.list = l /\ j.owner = job[t].owner
        /\ j.uid = job[t].uid /\ j.friend = job[t].friend
    <3> HIDE DEF l
    <3> QED  BY <1>0, <2>1, <2>3, SetList
  <2> HIDE DEF j
  <2>5. KnowsPair("write", j)  BY <1>2, <2>1, <2>4 DEF KnowsPair
  <2>6. \A x \in Thread \ {t} : Separate(j, job[x])
    BY <1>4, <2>1, <2>4 DEF Separate, Party
  <2>7. \A u, v \in Uid : Half(pc[t], job[t], u, v) => Half("write", j, u, v)
    BY <2>1, <2>4 DEF Half, Party
  <2> QED  BY <1>2, <1>14, <2>2, <2>5, <2>6, <2>7, StillApart DEF ReadList
<1>15. CASE WriteList(t)  BY <1>15, WriteApart
<1>16. CASE Reply(t)
  <2>1. pc[t] = "reply"  BY <1>16 DEF Reply, At
  <2>2. ASSUME NEW q \in befriended', q \notin befriended PROVE MutualPair(q)
    <3>1. q = <<job[t].uid, job[t].friend>> /\ job[t].op = "befriend"
      BY <1>16, <2>2 DEF Reply
    <3>2. /\ job[t].friend \in Friends(job[t].uid)
          /\ job[t].uid \in Friends(job[t].friend)
      BY <1>2, <2>1, <3>1 DEF KnowsPair
    <3>3. q[1] = job[t].uid /\ q[2] = job[t].friend  BY <3>1
    <3> QED  BY <3>2, <3>3 DEF MutualPair
  <2> QED  BY <1>6, <1>16, <2>1, <2>2 DEF Reply
<1>17. CASE Refuse(t)
  <2>1. pc[t] = "refuse" /\ befriended' = befriended  BY <1>17 DEF Refuse, At
  <2> QED  BY <1>6, <1>17, <2>1 DEF Refuse
<1> QED
  BY <1>3, <1>7, <1>8, <1>9, <1>10, <1>11, <1>12, <1>13, <1>14, <1>15, <1>16, <1>17
     DEF Work, OpenDbFails

LEMMA NextEmptyInv == ASSUME IInv, EmptyInv, [FriendNext]_vars PROVE EmptyInv'
<1>1. CASE UNCHANGED tables
  BY <1>1 DEF EmptyInv, HasRow, tables
<1>2. ASSUME NEW t \in Thread, InsertUser(t) PROVE EmptyInv'
  <2>1. PICK u \in Uid :
          \/ /\ userName' = [userName EXCEPT ![u] = job[t].name]
             /\ friendList' = [friendList EXCEPT ![u] = FirstList(u)]
          \/ UNCHANGED tables
    BY <1>2 DEF InsertUser
  <2>2. job[t].name \in Name
    BY <1>2 DEF InsertUser, At, IInv, Knows, KnowsAt
  <2> QED
    BY <1>1, <2>1, <2>2, NameAssumption DEF EmptyInv, HasRow, IInv, TypeOK
<1>3. ASSUME NEW t \in Thread, WriteList(t) PROVE EmptyInv'
  <2>1. HasRow(job[t].owner)
    BY <1>3 DEF WriteList, At, IInv, Knows, KnowsAt, Row, HasRow
  <2> QED
    BY <1>3, <2>1 DEF WriteList, EmptyInv, HasRow, IInv, TypeOK
<1>4. UNCHANGED tables \/ \E t \in Thread : InsertUser(t) \/ WriteList(t)
  BY DEF FriendNext, vars, tables, Restart, Served, Work, ReceiveRegister,
     ReceiveBefriend, Receive, OpenDb, OpenDbFails, FindUser, FindFriend, CheckFriend,
     ReadList, Reply, Refuse, NullHandle
<1> QED  BY <1>1, <1>2, <1>3, <1>4

LEMMA NextPairInv == ASSUME IInv, PairInv, [FriendNext]_vars PROVE PairInv'
<1>1. EmptyInv'  BY NextEmptyInv DEF PairInv
<1>2. ASSUME apart' PROVE ApartInv'
  <2>1. ASSUME UNCHANGED <<tables, pc, job, befriended, apart>> PROVE ApartInv'
    <3>1. ApartInv  BY <1>2, <2>1 DEF PairInv
    <3>2. (\A t, x \in Thread : t # x => Separate(job[t], job[x]))'
      BY <2>1, <3>1 DEF ApartInv, Separate, Party
    <3>3. (\A t \in Thread : KnowsPair(pc[t], job[t]))'
      BY <2>1, <3>1 DEF ApartInv, KnowsPair, Friends, tables
    <3>4. (\A u, v \in Uid : Balanced(u, v))'
      BY <2>1, <3>1 DEF ApartInv, Balanced, Friends, tables, Half, Party
    <3>5. (\A q \in befriended : MutualPair(q))'
      BY <2>1, <3>1 DEF ApartInv, MutualPair, Friends, tables
    <3>6. (\A u \in Uid : IsInjective(friendList[u]))'
      BY <2>1, <3>1 DEF ApartInv, tables
    <3> QED  BY <3>2, <3>3, <3>4, <3>5, <3>6 DEF ApartInv
  <2>2. CASE Restart \/ Served \/ UNCHANGED vars
    BY <2>1, <2>2 DEF Restart, Served, vars, tables
  <2>3. ASSUME NEW t \in Thread, Work(t) PROVE ApartInv'
    BY <1>2, <2>3, WorkApart
  <2> QED  BY <2>2, <2>3 DEF FriendNext
<1> QED  BY <1>1, <1>2 DEF PairInv

\* While requests that share a user keep apart and nothing fails, the two
\* updates of database_add_friend leave friendship mutual as soon as neither user
\* has a request running, whoever was answered "success" is in both lists, and no
\* list names anyone twice.
THEOREM FriendshipIsMutual == FriendSpec => []Mutual
<1>1. PairInv => Mutual
  <2> SUFFICES ASSUME ApartInv
               PROVE  /\ \A u, v \in Uid : ~Working(u) /\ ~Working(v) =>
                            (v \in Friends(u) <=> u \in Friends(v))
                      /\ \A q \in befriended : MutualPair(q)
                      /\ \A u \in Uid : IsInjective(friendList[u])
    BY DEF PairInv, Mutual, Friends, MutualPair
  <2>1. ASSUME NEW u \in Uid, NEW v \in Uid, NEW t \in Thread,
               Half(pc[t], job[t], u, v)
        PROVE  Working(u)
    BY <2>1 DEF Half, Working
  <2> QED  BY <2>1 DEF ApartInv, Balanced
<1> QED
  BY <1>1, InitIInv, NextIInv, InitPairInv, NextPairInv, PTL DEF FriendSpec

\* ... and no update takes anyone out of a list: what is written back is the
\* list in the table with a friend appended, so no request undoes another's.
THEOREM FriendsAreKept == FriendSpec => FriendsKept
<1>1. ASSUME IInv, PairInv, [FriendNext]_vars, apart', NEW u \in Uid
      PROVE  IsPrefix(friendList[u], friendList'[u])
  <2>0. friendList[u] \in Seq(Uid)  BY <1>1 DEF IInv, TypeOK
  <2>1. CASE friendList'[u] = friendList[u]
    BY <2>0, <2>1 DEF IsPrefix
  <2>2. ASSUME NEW t \in Thread, WriteList(t) PROVE IsPrefix(friendList[u], friendList'[u])
    <3>1. CASE u = job[t].owner
      <4>1. friendList'[u] = Append(friendList[u], Other(job[t])) /\ Other(job[t]) \in Uid
        BY <1>1, <2>2, <3>1, WriteAppends
      <4> QED  BY <2>0, <4>1, AppendOne
    <3>2. CASE u # job[t].owner
      BY <1>1, <2>1, <2>2, <3>2, WriteAppends
    <3> QED  BY <3>1, <3>2
  <2>3. ASSUME NEW t \in Thread, InsertUser(t) PROVE IsPrefix(friendList[u], friendList'[u])
    <3>1. CASE HasRow(u)
      BY <1>1, <2>1, <2>3, <3>1 DEF InsertUser, tables, IInv, TypeOK
    <3>2. CASE ~HasRow(u)
      <4>1. friendList[u] = <<>>  BY <1>1, <3>2 DEF PairInv, EmptyInv
      <4>2. friendList'[u] \in Seq(Uid)
        BY <1>1, NextIInv DEF IInv, TypeOK
      <4> QED  BY <4>1, <4>2 DEF IsPrefix
    <3> QED  BY <3>1, <3>2
  <2>4. UNCHANGED friendList \/ \E t \in Thread : InsertUser(t) \/ WriteList(t)
    BY <1>1 DEF FriendNext, vars, tables, Restart, Served, Work, ReceiveRegister,
       ReceiveBefriend, Receive, OpenDb, OpenDbFails, FindUser, FindFriend,
       CheckFriend, ReadList, Reply, Refuse, NullHandle
  <2> QED  BY <2>1, <2>2, <2>3, <2>4
<1>2. IInv /\ PairInv /\ [FriendNext]_vars =>
        [apart' => \A u \in Uid : IsPrefix(friendList[u], friendList'[u])]_vars
  BY <1>1
<1> QED
  BY <1>2, InitIInv, NextIInv, InitPairInv, NextPairInv, PTL DEF FriendSpec, FriendsKept

------------------------------------------------------------------------------
\* What a registration at place p knows of the uid it was told.
KnowsName(names, p, j) ==
    j.op = "register" /\ j.friend # NoUid => p = "reply" /\ names[j.friend] = j.name

NameInv == ToldNamesake /\ \A t \in Thread : KnowsName(userName, pc[t], job[t])

LEMMA InitNameInv == Init => NameInv
  BY NoJobType DEF Init, NameInv, KnowsName, ToldNamesake

\* Rows keep their names: a registration fills an empty one.
LEMMA NamesStay ==
  ASSUME IInv, NEW t \in Thread, Work(t), NEW u \in Uid, HasRow(u)
  PROVE  userName'[u] = userName[u]
<1>1. CASE InsertUser(t)
  BY <1>1 DEF InsertUser, tables, HasRow, IInv, TypeOK
<1>2. CASE ~InsertUser(t)
  BY <1>2 DEF Work, tables, ReceiveRegister, ReceiveBefriend, Receive, OpenDb, OpenDbFails,
     FindUser, FindFriend, CheckFriend, ReadList, WriteList, Reply, Refuse, NullHandle
<1> QED  BY <1>1, <1>2

\* A handler moves on.
LEMMA StillNamed ==
  ASSUME IInv, NameInv, NEW t \in Thread, Work(t), NEW p, NEW j,
         pc' = [pc EXCEPT ![t] = p], job' = [job EXCEPT ![t] = j],
         KnowsName(userName', p, j),
         \A q \in enrolled' : q \in enrolled \/ (q[2] # NoUid => userName'[q[2]] = q[1])
  PROVE  NameInv'
<1>1. /\ pc'[t] = p /\ job'[t] = j
      /\ \A x \in Thread : x # t => pc'[x] = pc[x] /\ job'[x] = job[x]
  BY DEF IInv, TypeOK
<1>2. ASSUME NEW q \in enrolled, q[2] # NoUid PROVE userName'[q[2]] = q[1]
  <2>1. q[1] \in Name /\ q[2] \in Uid /\ userName[q[2]] = q[1]
    BY <1>2 DEF IInv, TypeOK, NameInv, ToldNamesake
  <2> QED  BY <2>1, NamesStay, NameAssumption DEF HasRow
<1>3. ASSUME NEW x \in Thread, x # t PROVE KnowsName(userName', pc'[x], job'[x])
  <2>1. KnowsName(userName, pc[x], job[x]) /\ job[x] \in Jobs
    BY DEF NameInv, IInv, TypeOK
  <2>2. job[x].op = "register" => job[x].name \in Name
    BY DEF IInv, Knows, KnowsAt
  <2>3. job[x].friend \in Uid \union {NoUid}
    BY <2>1 DEF Jobs
  <2> QED  BY <1>1, <1>3, <2>1, <2>2, <2>3, NamesStay, NameAssumption DEF KnowsName, HasRow
<1>4. \A x \in Thread : KnowsName(userName', pc'[x], job'[x])
  BY <1>1, <1>3
<1>5. ToldNamesake'
  BY <1>2 DEF ToldNamesake
<1> QED  BY <1>4, <1>5 DEF NameInv, KnowsName

LEMMA WorkNamed ==
  ASSUME IInv, NameInv, NEW t \in Thread, Work(t) PROVE NameInv'
<1>0. /\ job[t] \in Jobs /\ KnowsAt(userName, pc[t], job[t])
      /\ KnowsName(userName, pc[t], job[t])
  BY DEF IInv, TypeOK, Knows, NameInv
\* The handler goes on with a request for a friend, or with a registration that
\* was told nothing yet.
<1>1. ASSUME NEW p, NEW j, pc' = [pc EXCEPT ![t] = p], job' = [job EXCEPT ![t] = j],
             UNCHANGED enrolled, j.op # "register" \/ j.friend = NoUid
      PROVE  NameInv'
  BY <1>1, StillNamed DEF KnowsName
<1>2. ASSUME NEW p, Goto(t, p), UNCHANGED <<job, enrolled>>,
             job[t].op # "register" \/ job[t].friend = NoUid
      PROVE  NameInv'
  <2>1. pc' = [pc EXCEPT ![t] = p] /\ job' = [job EXCEPT ![t] = job[t]]
    BY <1>2 DEF Goto, IInv, TypeOK
  <2> QED  BY <1>1, <1>2, <2>1
<1>3. ASSUME Return(t),
             \A q \in enrolled' : q \in enrolled \/ (q[2] # NoUid => userName'[q[2]] = q[1])
      PROVE  NameInv'
  <2>1. KnowsName(userName', "idle", NoJob)  BY NoJobType DEF KnowsName
  <2> QED  BY <1>3, <2>1, StillNamed DEF Return, Goto
<1>4. CASE ReceiveRegister(t) \/ ReceiveBefriend(t)
  <2>1. ASSUME NEW op, NEW u, NEW f, NEW n, Receive(t, NewJob(op, u, f, n)),
               op # "register" \/ f = NoUid
        PROVE  NameInv'
    <3> DEFINE j == NewJob(op, u, f, n)
    <3>1. j.op = op /\ j.friend = f  BY DEF NewJob
    <3>2. pc' = [pc EXCEPT ![t] = "connect"] /\ job' = [job EXCEPT ![t] = j] /\ enrolled' = enrolled
      BY <2>1 DEF Receive, Goto
    <3> HIDE DEF j
    <3> QED  BY <1>1, <2>1, <3>1, <3>2
  <2> QED  BY <1>4, <2>1 DEF ReceiveRegister, ReceiveBefriend
<1>5. CASE OpenDb(t)
  BY <1>0, <1>2, <1>5 DEF OpenDb, At, KnowsName
<1>6. CASE OpenDbFails(t) \/ Refuse(t)
  BY <1>3, <1>6 DEF OpenDbFails, Refuse
<1>7. CASE InsertUser(t)
  <2>1. PICK u \in Uid : job' = [job EXCEPT ![t] = [job[t] EXCEPT !.uid = u]]
    BY <1>7 DEF InsertUser
  <2> DEFINE j == [job[t] EXCEPT !.uid = u]
  <2>2. j.friend = NoUid
    BY <1>0, <1>7, SetUid DEF InsertUser, At, KnowsAt, KnowsName
  <2>3. job' = [job EXCEPT ![t] = j] /\ pc' = [pc EXCEPT ![t] = "named"] /\ enrolled' = enrolled
    BY <1>7, <2>1 DEF InsertUser, Goto
  <2> HIDE DEF j
  <2> QED  BY <1>1, <2>2, <2>3
<1>8. CASE FindUser(t)
  <2>0. /\ job[t].op = "register" /\ job[t].friend = NoUid
        /\ UNCHANGED <<userName, enrolled>> /\ Goto(t, "reply")
    BY <1>0, <1>8 DEF FindUser, At, KnowsAt, KnowsName, tables
  <2>1. CASE UNCHANGED job
    BY <1>2, <2>0, <2>1
  <2>2. ASSUME NEW u \in Named(job[t].name),
               job' = [job EXCEPT ![t] = [job[t] EXCEPT !.friend = u]]
        PROVE  NameInv'
    <3> DEFINE j == [job[t] EXCEPT !.friend = u]
    <3>1. u \in Uid /\ userName'[u] = job[t].name  BY <2>0, <2>2 DEF Named
    <3>2. j.name = job[t].name /\ j.friend = u  BY <1>0, <3>1, SetFriend
    <3>3. job' = [job EXCEPT ![t] = j]  BY <2>2
    <3> HIDE DEF j
    <3>4. KnowsName(userName', "reply", j)  BY <3>1, <3>2 DEF KnowsName
    <3> QED  BY <2>0, <3>3, <3>4, StillNamed DEF Goto
  <2> QED  BY <1>8, <2>1, <2>2 DEF FindUser
<1>9. CASE FindFriend(t) \/ CheckFriend(t) \/ ReadList(t) \/ WriteList(t)
  <2>0. /\ job[t].op = "befriend" /\ UNCHANGED enrolled
        /\ job[t].owner \in Uid /\ job[t].friend \in Uid
    BY <1>0, <1>9 DEF FindFriend, CheckFriend, ReadList, WriteList, At, KnowsAt, Row
  <2>1. ASSUME Goto(t, "read"), job' = [job EXCEPT ![t].owner = job[t].friend]
        PROVE  NameInv'
    <3> DEFINE j == [job[t] EXCEPT !.owner = job[t].friend]
    <3>1. j.op = "befriend"  BY <1>0, <2>0, SetOwner
    <3>2. job' = [job EXCEPT ![t] = j]  BY <2>1
    <3> HIDE DEF j
    <3> QED  BY <1>1, <2>0, <2>1, <3>1, <3>2 DEF Goto
  <2>2. CASE Updated(t)
    BY <1>2, <2>0, <2>1, <2>2 DEF Updated
  <2>3. ASSUME Goto(t, "write"),
               job' = [job EXCEPT ![t].list = friendList[job[t].owner]]
        PROVE  NameInv'
    <3> DEFINE l == friendList[job[t].owner]
               j == [job[t] EXCEPT !.list = l]
    <3>1. l \in Seq(Uid)  BY <2>0 DEF IInv, TypeOK
    <3>2. j.op = "befriend"
      <4> HIDE DEF l
      <4> QED  BY <1>0, <2>0, <3>1, SetList
    <3>3. job' = [job EXCEPT ![t] = j]  BY <2>3
    <3> HIDE DEF j
    <3> QED  BY <1>1, <2>0, <2>3, <3>2, <3>3 DEF Goto
  <2> QED
    BY <1>2, <1>9, <2>0, <2>2, <2>3 DEF FindFriend, CheckFriend, ReadList, WriteList
<1>10. CASE Reply(t)
  <2>1. ASSUME NEW q \in enrolled', q \notin enrolled, q[2] # NoUid
        PROVE  userName'[q[2]] = q[1]
    <3>1. q = <<job[t].name, job[t].friend>> /\ job[t].op = "register" /\ userName' = userName
      BY <1>10, <2>1 DEF Reply, tables
    <3>2. q[1] = job[t].name /\ q[2] = job[t].friend  BY <3>1
    <3> QED  BY <1>0, <2>1, <3>1, <3>2 DEF KnowsName
  <2> QED  BY <1>3, <1>10, <2>1 DEF Reply
<1>11. CASE NullHandle(t)
  <2>1. /\ \A x \in Thread : pc'[x] = "idle" /\ job'[x] = NoJob
        /\ UNCHANGED <<userName, enrolled>>
    BY <1>11 DEF NullHandle, tables
  <2> QED
    BY <2>1, NoJobType DEF NameInv, KnowsName, ToldNamesake
<1> QED
  BY <1>4, <1>5, <1>6, <1>7, <1>8, <1>9, <1>10, <1>11 DEF Work

LEMMA NextNameInv == IInv /\ NameInv /\ [FriendNext]_vars => NameInv'
<1> SUFFICES ASSUME IInv, NameInv, [FriendNext]_vars PROVE NameInv'
  OBVIOUS
<1>1. CASE UNCHANGED <<userName, pc, job, enrolled>>
  BY <1>1 DEF NameInv, KnowsName, ToldNamesake
<1>2. CASE Restart \/ Served \/ UNCHANGED vars
  BY <1>1, <1>2 DEF Restart, Served, vars, tables
<1> QED  BY <1>2, WorkNamed DEF FriendNext

\* Whatever interleaves, fails or dies, thread_register answers with 0 or with
\* the uid of a row that has the name it registered, which is another user's
\* only if that user has the name as well.
THEOREM ToldUidHasTheName == FriendSpec => []ToldNamesake
<1>1. NameInv => ToldNamesake  BY DEF NameInv
<1> QED
  BY <1>1, InitIInv, NextIInv, InitNameInv, NextNameInv, PTL DEF FriendSpec
==============================================================================
