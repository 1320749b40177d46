------------------------- MODULE GroupServiceProofs -------------------------
(***************************************************************************)
(* What the group handlers keep true of the tables, for any number of      *)
(* threads, users and groups, under any interleaving, death and restart:   *)
(* the types, two invariants of the list columns, and that the cached map  *)
(* of the members is the directory handlers need, to all but those who     *)
(* come before it has their group.  The argument is an inductive invariant *)
(* that says, for each place a handler can be at, what it already knows of *)
(* its request and of the rows it has read; a second one, on top of it,    *)
(* says where a member of a row may not yet be cached: only in the hands   *)
(* of the handler that is about to add it.  The last part is about the     *)
(* handlers that write while they keep apart and nothing fails             *)
(* (Undisturbed): what another thread does then leaves their group and     *)
(* their users alone, so a handler also knows which of the three places it *)
(* has still to write to; they agree whenever no handler runs, and the     *)
(* table is a directory as well.                                           *)
(***************************************************************************)
EXTENDS GroupService, SequenceTheorems, TLAPS

USE DEF ghosts

\* Appending an element that is not in a sequence without repetition.
LEMMA AppendDistinct ==
  ASSUME NEW S, NEW s \in Seq(S), NEW e \in S, IsInjective(s), e \notin ToSet(s)
  PROVE  IsInjective(Append(s, e))
BY AppendProperties DEF IsInjective, ToSet

LEMMA AppendToSet ==
  ASSUME NEW S, NEW s \in Seq(S), NEW e \in S
  PROVE  ToSet(Append(s, e)) = ToSet(s) \union {e}
BY AppendProperties DEF ToSet

LEMMA ToSetType ==
  ASSUME NEW S, NEW s \in Seq(S) PROVE ToSet(s) \subseteq S
BY DEF ToSet

LEMMA HeadOrTail ==
  ASSUME NEW S, NEW s \in Seq(S), s # <<>>
  PROVE  ToSet(s) \subseteq {Head(s)} \union ToSet(Tail(s))
<1> SUFFICES ASSUME NEW i \in 1..Len(s), i # 1 PROVE s[i] \in ToSet(Tail(s))
  BY DEF ToSet
<1> DEFINE r == Tail(s)
<1>1. i - 1 \in 1..Len(r) /\ r[i - 1] = s[i] /\ r \in Seq(S)  OBVIOUS
<1> HIDE DEF r
<1>2. DOMAIN r = 1..Len(r)  BY <1>1
<1>3. ToSet(r) = {r[k] : k \in DOMAIN r}  BY DEF ToSet
<1>4. r[i - 1] \in ToSet(r)  BY <1>1, <1>2, <1>3
<1> QED  BY <1>1, <1>4 DEF r

LEMMA SeqOfType ==
  ASSUME NEW S, NEW T, S \subseteq T, NEW n \in Nat, NEW s \in SeqOf(S, n)
  PROVE  s \in Seq(T)
<1>1. PICK m \in 0..n : s \in [1..m -> S]  BY DEF SeqOf
<1>2. s \in [1..m -> T] /\ m \in Nat  BY <1>1
<1> QED  BY <1>2, SeqDef

------------------------------------------------------------------------------
\* What a handler at place p with the locals j knows of its request.
KnowsAt(p, j) ==
    /\ p # "idle" => j.op # "none" /\ j.uid \in Uid /\ j.who \in Uid
    /\ p # "idle" /\ j.op # "create" => j.gid \in Gid
    /\ p \in {"insert", "cache", "next", "reply"} => j.op = "create"
    /\ p \in {"lookup", "check", "reopen", "forward"} => j.op # "create"
    /\ p \in {"check", "reopen"} => j.op = "join"
    /\ p \in {"row_read", "row_write", "push", "list_read", "list_write"}
       => j.op \in {"create", "join"} /\ j.gid \in Gid
    /\ p \in {"cache", "next", "reply"} => j.gid \in Gid

Knows(t) == KnowsAt(pc[t], job[t])

\* The part of TypeOK that is not about the threads.
TablesOK ==
    /\ DbTypeOK
    /\ groupMember \in [Gid -> Seq(Uid)]
    /\ groupList \in [Uid -> Seq(Gid)]
    /\ groupInfo \in [Gid -> Seq(Uid)]
    /\ loaded \in BOOLEAN
    /\ told \in SUBSET (Gid \X Uid)
    /\ requests \in 0..MaxRequests
    /\ faults \in 0..MaxFaults
    /\ early \in SUBSET (Gid \X Uid)
    /\ apart \in BOOLEAN

TypeInv == TypeOK /\ \A t \in Thread : Knows(t)

\* Setting a local variable of a handler leaves the others alone.
LEMMA SetFound ==
  ASSUME NEW j \in Jobs, NEW v \in BOOLEAN
  PROVE  LET k == [j EXCEPT !.found = v] IN
         /\ k \in Jobs
         /\ k.found = v
         /\ k.op = j.op /\ k.uid = j.uid /\ k.gid = j.gid
         /\ k.who = j.who /\ k.named = j.named /\ k.todo = j.todo
         /\ k.row = j.row /\ k.list = j.list /\ k.look = j.look
BY DEF Jobs

LEMMA SetLook ==
  ASSUME NEW j \in Jobs, NEW v \in 1..3
  PROVE  LET k == [j EXCEPT !.look = v] IN
         /\ k \in Jobs
         /\ k.look = v
         /\ k.op = j.op /\ k.uid = j.uid /\ k.gid = j.gid
         /\ k.who = j.who /\ k.named = j.named /\ k.todo = j.todo
         /\ k.row = j.row /\ k.list = j.list /\ k.found = j.found
BY DEF Jobs

LEMMA SetGid ==
  ASSUME NEW j \in Jobs, NEW v \in Gid
  PROVE  LET k == [j EXCEPT !.gid = v] IN
         /\ k \in Jobs
         /\ k.gid = v
         /\ k.op = j.op /\ k.uid = j.uid /\ k.who = j.who
         /\ k.named = j.named /\ k.todo = j.todo /\ k.row = j.row
         /\ k.list = j.list /\ k.look = j.look /\ k.found = j.found
BY DEF Jobs

LEMMA SetRow ==
  ASSUME NEW j \in Jobs, NEW v \in Seq(Uid)
  PROVE  LET k == [j EXCEPT !.row = v] IN
         /\ k \in Jobs
         /\ k.row = v
         /\ k.op = j.op /\ k.uid = j.uid /\ k.gid = j.gid
         /\ k.who = j.who /\ k.named = j.named /\ k.todo = j.todo
         /\ k.list = j.list /\ k.look = j.look /\ k.found = j.found
BY DEF Jobs

LEMMA SetList ==
  ASSUME NEW j \in Jobs, NEW v \in Seq(Gid)
  PROVE  LET k == [j EXCEPT !.list = v] IN
         /\ k \in Jobs
         /\ k.list = v
         /\ k.op = j.op /\ k.uid = j.uid /\ k.gid = j.gid
         /\ k.who = j.who /\ k.named = j.named /\ k.todo = j.todo
         /\ k.row = j.row /\ k.look = j.look /\ k.found = j.found
BY DEF Jobs

LEMMA SetWho ==
  ASSUME NEW j \in Jobs, NEW v \in Uid, NEW w \in Seq(Uid \union {NoUid})
  PROVE  LET k == [j EXCEPT !.who = v, !.todo = w] IN
         /\ k \in Jobs
         /\ k.who = v /\ k.todo = w
         /\ k.op = j.op /\ k.uid = j.uid /\ k.gid = j.gid
         /\ k.named = j.named /\ k.row = j.row /\ k.list = j.list
         /\ k.look = j.look /\ k.found = j.found
BY DEF Jobs

LEMMA NoJobType == NoJob \in Jobs
<1>1. <<>> \in Seq(Uid) /\ <<>> \in Seq(Gid) /\ <<>> \in Seq(Uid \union {NoUid})
  OBVIOUS
<1> QED  BY <1>1 DEF NoJob, NewJob, Jobs, Ops

LEMMA InitTypeInv == Init => TypeInv
<1> SUFFICES ASSUME Init PROVE TypeInv  OBVIOUS
<1>1. NoJob \in Jobs  BY DEF NoJob, NewJob, Jobs, Ops
<1>2. TypeOK
  <2>1. <<>> \in Seq(Uid) /\ <<>> \in Seq(Gid)  OBVIOUS
  <2>2. DbTypeOK  BY DEF Init, DbInit, Up, DbTypeOK
  <2>3. 0 \in 0..MaxRequests /\ 0 \in 0..MaxFaults  BY BoundAssumption
  <2>4. job \in [Thread -> Jobs]  BY <1>1 DEF Init
  <2>5. pc \in [Thread -> Places]  BY DEF Init, Places
  <2> QED  BY <2>1, <2>2, <2>3, <2>4, <2>5 DEF Init, TypeOK
<1>3. \A t \in Thread : Knows(t)  BY DEF Init, Knows, KnowsAt, NoJob, NewJob
<1> QED  BY <1>2, <1>3 DEF TypeInv

\* A handler moves: what is left to show is about its place and its locals.
LEMMA Moves ==
  ASSUME TypeInv, NEW t \in Thread, NEW p \in Places, NEW j \in Jobs,
         pc' = [pc EXCEPT ![t] = p], job' = [job EXCEPT ![t] = j],
         KnowsAt(p, j), TablesOK'
  PROVE  TypeInv'
<1>1. pc' \in [Thread -> Places] /\ job' \in [Thread -> Jobs]
  BY DEF TypeInv, TypeOK
<1>2. TypeOK'  BY <1>1 DEF TypeOK, TablesOK
<1>3. ASSUME NEW x \in Thread PROVE Knows(x)'
  <2>1. CASE x = t  BY <2>1 DEF TypeInv, TypeOK, Knows
  <2>2. CASE x # t  BY <2>2 DEF TypeInv, TypeOK, Knows
  <2> QED  BY <2>1, <2>2
<1> QED  BY <1>2, <1>3 DEF TypeInv

LEMMA Goes ==
  ASSUME TypeInv, NEW t \in Thread, NEW p \in Places, Goto(t, p),
         UNCHANGED job, KnowsAt(p, job[t]), TablesOK'
  PROVE  TypeInv'
<1>1. job[t] \in Jobs /\ job' = [job EXCEPT ![t] = job[t]]
  BY DEF TypeInv, TypeOK
<1> QED  BY <1>1, Moves DEF Goto

LEMMA Returns ==
  ASSUME TypeInv, NEW t \in Thread, Return(t), TablesOK'
  PROVE  TypeInv'
<1>1. KnowsAt("idle", NoJob)  BY DEF KnowsAt, NoJob, NewJob
<1>2. "idle" \in Places  BY DEF Places
<1> QED  BY <1>1, <1>2, NoJobType, Moves DEF Return, Goto

\* A request is received, a join or a broadcast for a group that has a row.
LEMMA Received ==
  ASSUME NEW t, Request(t)
  PROVE  \E op, u, g, named, todo :
            Receive(t, op, u, g, named, todo) /\ (op \in {"join", "cast"} => InTable(g))
<1>1. CASE ReceiveCreate(t)
  <2>1. PICK o \in Registered, named \in SeqOf(Registered, 2) :
           Receive(t, "create", o, NoGid, named,
                   IF named = <<>> THEN <<NoUid>> ELSE named)
    BY <1>1 DEF ReceiveCreate
  <2>2. "create" \notin {"join", "cast"}  OBVIOUS
  <2> QED  BY <2>1, <2>2, Zenon
<1>2. CASE ReceiveJoin(t)
  <2>1. PICK u \in Uid, g \in Gid : InTable(g) /\ Receive(t, "join", u, g, <<>>, <<>>)
    BY <1>2 DEF ReceiveJoin
  <2> QED  BY <2>1, Zenon
<1>3. CASE ReceiveCast(t)
  <2>1. PICK u \in Uid, g \in Gid : InTable(g) /\ Receive(t, "cast", u, g, <<>>, <<>>)
    BY <1>3 DEF ReceiveCast
  <2> QED  BY <2>1, Zenon
<1>4. CASE ReceiveQuery(t)
  <2>1. PICK u \in Registered, g \in Gid : Receive(t, "query", u, g, <<>>, <<>>)
    BY <1>4 DEF ReceiveQuery
  <2>2. "query" \notin {"join", "cast"}  OBVIOUS
  <2> QED  BY <2>1, <2>2, Zenon
<1> QED  BY <1>1, <1>2, <1>3, <1>4 DEF Request

\* It changes the handler and the count of requests only.
LEMMA RequestFrame ==
  ASSUME NEW t, Request(t)
  PROVE  /\ Up /\ Up' /\ pc[t] = "idle" /\ pc' = [pc EXCEPT ![t] = "connect"]
         /\ \E k : job' = [job EXCEPT ![t] = k]
         /\ UNCHANGED <<dbVars, groupMember, groupList, groupInfo, loaded, told, faults,
                        early>>
<1>1. PICK op, u, g, named, todo : Receive(t, op, u, g, named, todo)
  BY Received
<1> QED  BY <1>1 DEF Receive, At, Goto, dbVars, Up

LEMMA RequestTypeInv == ASSUME TypeInv, NEW t \in Thread, Request(t) PROVE TypeInv'
<1>1. ASSUME NEW op \in Ops \ {"none"}, NEW u \in Uid, NEW g \in Gid \union {NoGid},
             op # "create" => g \in Gid,
             NEW named \in Seq(Uid), NEW todo \in Seq(Uid \union {NoUid}),
             Receive(t, op, u, g, named, todo)
      PROVE  TypeInv'
  <2> DEFINE j == NewJob(op, u, g, named, todo)
  <2>1. j \in Jobs /\ j.op = op /\ j.uid = u /\ j.gid = g /\ j.who = u
    <3>1. <<>> \in Seq(Uid) /\ <<>> \in Seq(Gid) /\ 1 \in 1..3 /\ FALSE \in BOOLEAN
      OBVIOUS
    <3> QED  BY <3>1 DEF NewJob, Jobs
  <2>2. job' = [job EXCEPT ![t] = j] /\ pc' = [pc EXCEPT ![t] = "connect"]
    BY <1>1 DEF Receive, Goto
  <2> HIDE DEF j
  <2>3. KnowsAt("connect", j)  BY <1>1, <2>1 DEF KnowsAt, Ops
  <2>4. requests' \in 0..MaxRequests
    BY <1>1, BoundAssumption DEF Receive, TypeInv, TypeOK
  <2>5. TablesOK'
    <3>1. apart' \in BOOLEAN  BY <1>1 DEF Receive
    <3> QED
      BY <1>1, <2>4, <3>1 DEF Receive, TypeInv, TypeOK, TablesOK, DbTypeOK, dbVars
  <2>6. "connect" \in Places  BY DEF Places
  <2> QED  BY <2>1, <2>2, <2>3, <2>5, <2>6, Moves
<1>2. CASE ReceiveCreate(t)
  <2>1. PICK o \in Registered, named \in SeqOf(Registered, 2) :
          Receive(t, "create", o, NoGid, named,
                  IF named = <<>> THEN <<NoUid>> ELSE named)
    BY <1>2 DEF ReceiveCreate
  <2>3. named \in Seq(Uid) /\ named \in Seq(Uid \union {NoUid})
    <3>1. Registered \subseteq Uid /\ Registered \subseteq Uid \union {NoUid}
      BY UidAssumption
    <3> QED  BY <2>1, <3>1, SeqOfType
  <2>4. (IF named = <<>> THEN <<NoUid>> ELSE named) \in Seq(Uid \union {NoUid})
    <3>1. <<NoUid>> \in Seq(Uid \union {NoUid})  OBVIOUS
    <3> QED  BY <2>3, <3>1
  <2> QED  BY <1>1, <2>1, <2>3, <2>4, UidAssumption DEF Ops
<1>3. CASE ReceiveJoin(t) \/ ReceiveCast(t) \/ ReceiveQuery(t)
  <2>1. <<>> \in Seq(Uid) /\ <<>> \in Seq(Uid \union {NoUid})  OBVIOUS
  <2> QED
    BY <1>1, <1>3, <2>1, UidAssumption
       DEF ReceiveJoin, ReceiveCast, ReceiveQuery, Ops
<1> QED  BY <1>2, <1>3 DEF Request

LEMMA ForgetTypeInv ==
  ASSUME TypeInv, NEW why, Die(why), why \in Deaths, LoseMemory, apart' \in BOOLEAN
  PROVE  TypeInv'
<1>1. <<>> \in Seq(Uid)  OBVIOUS
<1>2. NoJob \in Jobs  BY <1>1 DEF NoJob, NewJob, Jobs, Ops
<1>3. TypeOK'
  BY <1>1, <1>2 DEF LoseMemory, Die, Deaths, TypeInv, TypeOK, DbTypeOK, Places
<1>4. \A t \in Thread : Knows(t)'  BY DEF LoseMemory, Knows, KnowsAt, NoJob, NewJob
<1> QED  BY <1>3, <1>4 DEF TypeInv

LEMMA WorkTypeInv == ASSUME TypeInv, NEW t \in Thread, Work(t) PROVE TypeInv'
<1> USE DEF Places
<1>0. /\ job[t] \in Jobs /\ KnowsAt(pc[t], job[t])
      /\ Fault => faults' \in 0..MaxFaults
  BY BoundAssumption DEF TypeInv, TypeOK, Knows, Fault
<1>1. CASE OpenDb(t)
  <2>1. TablesOK'
    BY <1>1 DEF OpenDb, Connect, TablesOK, TypeInv, TypeOK, DbTypeOK
  <2>2. \E p \in Places : Goto(t, p) /\ KnowsAt(p, job[t])
    BY <1>0, <1>1 DEF OpenDb, At, KnowsAt
  <2> QED  BY <1>1, <2>1, <2>2, Goes DEF OpenDb
<1>2. CASE OpenDbFails(t)
  <2>1. TablesOK'
    BY <1>0, <1>2 DEF OpenDbFails, dbVars, TablesOK, TypeInv, TypeOK, DbTypeOK
  <2>2. \/ Return(t)
        \/ UNCHANGED job /\ \E p \in Places : Goto(t, p) /\ KnowsAt(p, job[t])
    BY <1>0, <1>2 DEF OpenDbFails, At, KnowsAt
  <2> QED  BY <2>1, <2>2, Goes, Returns
<1>3. CASE LookUp(t)
  <2>1. TablesOK'
    BY <1>0, <1>3
       DEF LookUp, UseHandle, Works, dbVars, TablesOK, TypeInv, TypeOK, DbTypeOK
  <2>2. PICK b \in BOOLEAN : job' = [job EXCEPT ![t] = [job[t] EXCEPT !.found = b]]
    <3>1. Exists(job[t]) \in BOOLEAN  BY DEF Exists
    <3> QED  BY <1>3, <3>1 DEF LookUp
  <2> DEFINE j == [job[t] EXCEPT !.found = b]
  <2>3. /\ j \in Jobs /\ j.op = job[t].op /\ j.uid = job[t].uid
        /\ j.gid = job[t].gid /\ j.who = job[t].who
    BY <1>0, SetFound
  <2> HIDE DEF j
  <2>4. KnowsAt("close", j)  BY <1>0, <1>3, <2>3 DEF LookUp, At, KnowsAt
  <2> QED  BY <1>3, <2>1, <2>2, <2>3, <2>4, Moves DEF LookUp, Goto, j
<1>4. CASE CloseDb(t)
  <2>1. TablesOK'
    BY <1>4 DEF CloseDb, Disconnect, TablesOK, TypeInv, TypeOK, DbTypeOK
  <2>2. CASE Return(t)  BY <2>1, <2>2, Returns
  <2>3. CASE ~GivesUp(job[t]) /\ job[t].op # "create"
             /\ job' = [job EXCEPT ![t].look = 2] /\ Goto(t, "connect")
    <3> DEFINE j == [job[t] EXCEPT !.look = 2]
    <3>1. /\ j \in Jobs /\ j.op = job[t].op /\ j.uid = job[t].uid
          /\ j.gid = job[t].gid /\ j.who = job[t].who
      BY <1>0, 1 \in 1..3, 2 \in 1..3, 3 \in 1..3, SetLook
    <3>2. job' = [job EXCEPT ![t] = j]  BY <2>3
    <3> HIDE DEF j
    <3>3. KnowsAt("connect", j)
      BY <1>0, <1>4, <3>1 DEF CloseDb, At, KnowsAt
    <3> QED  BY <2>1, <2>3, <3>1, <3>2, <3>3, Moves DEF Goto
  <2>4. CASE ~GivesUp(job[t]) /\ (job[t].op = "create" \/ job[t].look > 1)
             /\ UNCHANGED job
             /\ Goto(t, CASE job[t].op = "create" -> "reply"
                          [] job[t].op = "cast" -> "forward"
                          [] job[t].op = "join" /\ job[t].look = 2 -> "check"
                          [] OTHER -> "push")
    <3>1. job[t].op = "create" => job[t].gid \in Gid
      BY <1>0, <2>4 DEF GivesUp, Jobs
    <3>2. job[t].op \in {"create", "cast", "join"}
      BY <1>0, <1>4, <2>4 DEF GivesUp, Jobs, Ops, KnowsAt, CloseDb, At
    <3>3. \E p \in Places : Goto(t, p) /\ KnowsAt(p, job[t])
      <4>1. CASE job[t].op = "create"
        BY <1>0, <1>4, <2>4, <3>1, <4>1 DEF KnowsAt, CloseDb, At
      <4>2. CASE job[t].op = "cast"
        BY <1>0, <1>4, <2>4, <4>2 DEF KnowsAt, CloseDb, At
      <4>3. CASE job[t].op = "join" /\ job[t].look = 2
        BY <1>0, <1>4, <2>4, <4>3 DEF KnowsAt, CloseDb, At
      <4>4. CASE job[t].op = "join" /\ job[t].look # 2
        BY <1>0, <1>4, <2>4, <4>4 DEF KnowsAt, CloseDb, At
      <4> QED  BY <3>2, <4>1, <4>2, <4>3, <4>4
    <3> QED  BY <2>1, <2>4, <3>3, Goes
  <2> QED  BY <1>4, <2>2, <2>3, <2>4 DEF CloseDb
<1>5. CASE CheckMember(t)
  <2>1. TablesOK'
    BY <1>5 DEF CheckMember, dbVars, TablesOK, TypeInv, TypeOK, DbTypeOK
  <2>2. CASE Return(t)  BY <2>1, <2>2, Returns
  <2>3. CASE Goto(t, "reopen") /\ job' = [job EXCEPT ![t].look = 3]
    <3> DEFINE j == [job[t] EXCEPT !.look = 3]
    <3>1. /\ j \in Jobs /\ j.op = job[t].op /\ j.uid = job[t].uid
          /\ j.gid = job[t].gid /\ j.who = job[t].who
      BY <1>0, 1 \in 1..3, 2 \in 1..3, 3 \in 1..3, SetLook
    <3>2. job' = [job EXCEPT ![t] = j]  BY <2>3
    <3> HIDE DEF j
    <3>3. KnowsAt("reopen", j)
      BY <1>0, <1>5, <3>1 DEF CheckMember, At, KnowsAt
    <3> QED  BY <2>1, <2>3, <3>1, <3>2, <3>3, Moves DEF Goto
  <2> QED  BY <1>5, <2>2, <2>3 DEF CheckMember
<1>6. CASE InsertGroup(t)
  <2>0. job[t].uid \in Uid /\ <<job[t].uid>> \in Seq(Uid)
    BY <1>0, <1>6 DEF InsertGroup, At, KnowsAt
  <2>1. CASE \E g \in Gid :
                /\ groupMember' = [groupMember EXCEPT ![g] = <<job[t].uid>>]
                /\ job' = [job EXCEPT ![t].gid = g]
                /\ Works /\ Goto(t, "cache")
    <3>1. PICK g \in Gid :
                /\ groupMember' = [groupMember EXCEPT ![g] = <<job[t].uid>>]
                /\ job' = [job EXCEPT ![t].gid = g]
                /\ Works /\ Goto(t, "cache")
      BY <2>1
    <3> DEFINE j == [job[t] EXCEPT !.gid = g]
    <3>2. /\ j \in Jobs /\ j.op = job[t].op /\ j.uid = job[t].uid
          /\ j.gid = g /\ j.who = job[t].who
      BY <1>0, SetGid
    <3>3. job' = [job EXCEPT ![t] = j]  BY <3>1
    <3> HIDE DEF j
    <3>4. KnowsAt("cache", j)
      BY <1>0, <1>6, <3>2 DEF InsertGroup, At, KnowsAt
    <3>5. TablesOK'
      BY <1>6, <2>0, <3>1 DEF InsertGroup, UseHandle, Works, dbVars, TablesOK,
                              TypeInv, TypeOK, DbTypeOK
    <3> QED  BY <3>1, <3>2, <3>3, <3>4, <3>5, Moves DEF Goto
  <2>2. CASE (Fault \/ Works) /\ Goto(t, "close")
             /\ UNCHANGED <<groupMember, job>>
    <3>1. TablesOK'
      BY <1>0, <1>6, <2>2 DEF InsertGroup, UseHandle, Works, dbVars, TablesOK,
                              TypeInv, TypeOK, DbTypeOK
    <3>2. KnowsAt("close", job[t])
      BY <1>0, <1>6 DEF InsertGroup, At, KnowsAt
    <3> QED  BY <2>2, <3>1, <3>2, Goes
  <2> QED  BY <1>6, <2>1, <2>2 DEF InsertGroup
<1>7. CASE CacheGroup(t)
  <2>0. job[t].gid \in Gid /\ <<job[t].uid>> \in Seq(Uid)
    BY <1>0, <1>7 DEF CacheGroup, At, KnowsAt
  <2>1. TablesOK'
    BY <1>7, <2>0 DEF CacheGroup, dbVars, TablesOK, TypeInv, TypeOK, DbTypeOK
  <2>2. KnowsAt("list_read", job[t])
    BY <1>0, <1>7 DEF CacheGroup, At, KnowsAt
  <2> QED  BY <1>7, <2>1, <2>2, Goes DEF CacheGroup
<1>8. CASE NextMember(t)
  <2>1. TablesOK'
    BY <1>8 DEF NextMember, dbVars, TablesOK, TypeInv, TypeOK, DbTypeOK
  <2>2. CASE Goto(t, "close") /\ UNCHANGED job
    <3>1. KnowsAt("close", job[t])  BY <1>0, <1>8 DEF NextMember, At, KnowsAt
    <3> QED  BY <2>1, <2>2, <3>1, Goes
  <2>3. CASE /\ job[t].todo # <<>> /\ Head(job[t].todo) # NoUid
             /\ job' = [job EXCEPT ![t] = [@ EXCEPT !.who = Head(job[t].todo),
                                                    !.todo = Tail(job[t].todo)]]
             /\ Goto(t, IF Head(job[t].todo) = job[t].uid
                        THEN "next" ELSE "row_read")
    <3> DEFINE h == Head(job[t].todo)
               r == Tail(job[t].todo)
               j == [job[t] EXCEPT !.who = h, !.todo = r]
               p == IF h = job[t].uid THEN "next" ELSE "row_read"
    <3>1. job[t].todo \in Seq(Uid \union {NoUid})  BY <1>0 DEF Jobs
    <3>2. h \in Uid /\ r \in Seq(Uid \union {NoUid})  BY <2>3, <3>1
    <3>3. /\ j \in Jobs /\ j.op = job[t].op /\ j.uid = job[t].uid
          /\ j.gid = job[t].gid /\ j.who = h
      <4> HIDE DEF h, r
      <4> QED  BY <1>0, <3>2 DEF Jobs
    <3>4. job' = [job EXCEPT ![t] = j]  BY <2>3
    <3>5. p \in Places /\ Goto(t, p)  BY <2>3
    <3> HIDE DEF j
    <3>6. KnowsAt(p, j)
      BY <1>0, <1>8, <3>2, <3>3 DEF NextMember, At, KnowsAt
    <3> HIDE DEF p
    <3> QED  BY <2>1, <3>3, <3>4, <3>5, <3>6, Moves DEF Goto
  <2> QED  BY <1>8, <2>2, <2>3 DEF NextMember
<1>9. CASE ReadRow(t)
  <2>0. job[t].gid \in Gid  BY <1>0, <1>9 DEF ReadRow, At, KnowsAt
  <2>1. TablesOK'
    BY <1>0, <1>9
       DEF ReadRow, UseHandle, Works, dbVars, TablesOK, TypeInv, TypeOK, DbTypeOK
  <2>2. CASE /\ job' = [job EXCEPT ![t].row = groupMember[job[t].gid]]
             /\ Goto(t, "row_write")
    <3> DEFINE j == [job[t] EXCEPT !.row = groupMember[job[t].gid]]
    <3>0. groupMember[job[t].gid] \in Seq(Uid)
      BY <2>0 DEF TypeInv, TypeOK
    <3>1. /\ j \in Jobs /\ j.op = job[t].op /\ j.uid = job[t].uid
          /\ j.gid = job[t].gid /\ j.who = job[t].who
      BY <1>0, <3>0, SetRow
    <3>2. job' = [job EXCEPT ![t] = j]  BY <2>2
    <3> HIDE DEF j
    <3>3. KnowsAt("row_write", j)
      BY <1>0, <1>9, <3>1 DEF ReadRow, At, KnowsAt
    <3> QED  BY <2>1, <2>2, <3>1, <3>2, <3>3, Moves DEF Goto
  <2>3. CASE AfterRow(t) /\ UNCHANGED job
    <3>1. \E p \in Places : Goto(t, p) /\ KnowsAt(p, job[t])
      BY <1>0, <1>9, <2>3 DEF ReadRow, AfterRow, At, KnowsAt
    <3> QED  BY <2>1, <2>3, <3>1, Goes
  <2> QED  BY <1>9, <2>2, <2>3 DEF ReadRow
<1>10. CASE WriteRow(t)
  <2>1. Append(job[t].row, job[t].who) \in Seq(Uid) /\ job[t].gid \in Gid
    BY <1>0, <1>10 DEF WriteRow, At, KnowsAt, Jobs
  <2>2. TablesOK'
    BY <1>0, <1>10, <2>1
       DEF WriteRow, UseHandle, Works, dbVars, TablesOK, TypeInv, TypeOK, DbTypeOK
  <2>3. \E p \in Places : Goto(t, p) /\ KnowsAt(p, job[t])
    BY <1>0, <1>10 DEF WriteRow, AfterRow, At, KnowsAt
  <2> QED  BY <1>10, <2>2, <2>3, Goes DEF WriteRow
<1>11. CASE PushMember(t)
  <2>1. job[t].gid \in Gid /\ job[t].who \in Uid
    BY <1>0, <1>11 DEF PushMember, At, KnowsAt
  <2>2. Append(groupInfo[job[t].gid], job[t].who) \in Seq(Uid)
    BY <2>1 DEF TypeInv, TypeOK
  <2>3. TablesOK'
    <3>1. groupInfo' \in [Gid -> Seq(Uid)]
      BY <1>11, <2>2 DEF PushMember, Pushed, TypeInv, TypeOK
    <3>2. early' \in SUBSET (Gid \X Uid)
      <4>1. <<job[t].gid, job[t].who>> \in Gid \X Uid  BY <2>1
      <4> QED  BY <1>11, <4>1 DEF PushMember, TypeInv, TypeOK
    <3> QED
      BY <1>11, <3>1, <3>2 DEF PushMember, dbVars, TablesOK, TypeInv, TypeOK, DbTypeOK
  <2>4. \E p \in Places : Goto(t, p) /\ KnowsAt(p, job[t])
    BY <1>0, <1>11 DEF PushMember, At, KnowsAt, Ops, Jobs
  <2> QED  BY <1>11, <2>3, <2>4, Goes DEF PushMember
<1>12. CASE ReadList(t)
  <2>1. TablesOK'
    BY <1>0, <1>12
       DEF ReadList, UseHandle, Works, dbVars, TablesOK, TypeInv, TypeOK, DbTypeOK
  <2>2. CASE /\ job' = [job EXCEPT ![t].list = groupList[job[t].who]]
             /\ Goto(t, "list_write")
    <3> DEFINE j == [job[t] EXCEPT !.list = groupList[job[t].who]]
    <3>0. groupList[job[t].who] \in Seq(Gid)
      BY <1>0, <1>12 DEF TypeInv, TypeOK, ReadList, At, KnowsAt
    <3>1. /\ j \in Jobs /\ j.op = job[t].op /\ j.uid = job[t].uid
          /\ j.gid = job[t].gid /\ j.who = job[t].who
      BY <1>0, <3>0, SetList
    <3>2. job' = [job EXCEPT ![t] = j]  BY <2>2
    <3> HIDE DEF j
    <3>3. KnowsAt("list_write", j)
      BY <1>0, <1>12, <3>1 DEF ReadList, At, KnowsAt
    <3> QED  BY <2>1, <2>2, <3>1, <3>2, <3>3, Moves DEF Goto
  <2>3. CASE AfterList(t) /\ UNCHANGED job
    <3>1. \E p \in Places : Goto(t, p) /\ KnowsAt(p, job[t])
      BY <1>0, <1>12, <2>3 DEF ReadList, AfterList, At, KnowsAt
    <3> QED  BY <2>1, <2>3, <3>1, Goes
  <2> QED  BY <1>12, <2>2, <2>3 DEF ReadList
<1>13. CASE WriteList(t)
  <2>1. Append(job[t].list, job[t].gid) \in Seq(Gid)
    BY <1>0, <1>13 DEF WriteList, At, KnowsAt, Jobs
  <2>2. TablesOK'
    BY <1>0, <1>13, <2>1
       DEF WriteList, UseHandle, Works, dbVars, TablesOK, TypeInv, TypeOK, DbTypeOK
  <2>3. \E p \in Places : Goto(t, p) /\ KnowsAt(p, job[t])
    BY <1>0, <1>13 DEF WriteList, AfterList, At, KnowsAt
  <2> QED  BY <1>13, <2>2, <2>3, Goes DEF WriteList
<1>14. CASE ReplyCreate(t)
  <2>1. ToSet(job[t].named) \subseteq Uid /\ job[t].gid \in Gid
    BY <1>0, <1>14, ToSetType DEF ReplyCreate, At, KnowsAt, Jobs
  <2>2. TablesOK'
    BY <1>14, <2>1
       DEF ReplyCreate, dbVars, TablesOK, TypeInv, TypeOK, DbTypeOK
  <2> QED  BY <1>14, <2>2, Returns DEF ReplyCreate
<1>15. CASE Forward(t)
  <2>1. job[t].gid \in Gid /\ job[t].uid \in Uid
    BY <1>0, <1>15 DEF Forward, At, KnowsAt
  <2>2. TablesOK'
    BY <1>15, <2>1 DEF Forward, dbVars, TablesOK, TypeInv, TypeOK, DbTypeOK
  <2> QED  BY <1>15, <2>2, Returns DEF Forward
<1>16. CASE EmptyMember(t) \/ NoSuchGroup(t) \/ NullHandle(t)
  BY <1>16, ForgetTypeInv DEF EmptyMember, NoSuchGroup, NullHandle, UseNull, Deaths
<1> QED
  BY <1>1, <1>2, <1>3, <1>4, <1>5, <1>6, <1>7, <1>8, <1>9, <1>10, <1>11, <1>12,
     <1>13, <1>14, <1>15, <1>16 DEF Work

LEMMA NextTypeInv == TypeInv /\ [GroupNext]_vars => TypeInv'
<1> SUFFICES ASSUME TypeInv, [GroupNext]_vars PROVE TypeInv'  OBVIOUS
<1>1. CASE Restart
  <2>1. AllGroups \in [Gid -> Seq(Uid)]  BY DEF AllGroups, TypeInv, TypeOK
  <2>2. TypeOK'
    <3>1. groupInfo' \in [Gid -> Seq(Uid)] /\ loaded' \in BOOLEAN
      BY <1>1, <2>1 DEF Restart, TypeInv, TypeOK
    <3>2. faults' \in 0..MaxFaults
      BY <1>1, BoundAssumption DEF Restart, Fault, Works, TypeInv, TypeOK
    <3> QED  BY <1>1, <3>1, <3>2 DEF Restart, Reboot, TypeInv, TypeOK, DbTypeOK
  <2>3. \A t \in Thread : Knows(t)'  BY <1>1 DEF Restart, TypeInv, Knows
  <2> QED  BY <2>2, <2>3 DEF TypeInv
<1>2. CASE \E t \in Thread : Request(t) \/ Work(t)
  BY <1>2, RequestTypeInv, WorkTypeInv
<1>3. CASE UNCHANGED vars
  BY <1>3 DEF vars, TypeInv, TypeOK, DbTypeOK, Knows
<1> QED  BY <1>1, <1>2, <1>3 DEF GroupNext, Served

\* The tables, the map and every local variable of a handler keep their types:
\* in particular the handlers write only lists of uids to groupmember and lists
\* of gids to grouplist, and answer "success" only for a gid and a uid.
THEOREM TypeCorrect == GroupSpec => []TypeOK
<1>1. TypeInv => TypeOK  BY DEF TypeInv
<1> QED  BY <1>1, InitTypeInv, NextTypeInv, PTL DEF GroupSpec

------------------------------------------------------------------------------
\* A handler that runs on leaves the places and locals of the others alone.
LEMMA OthersStay ==
  ASSUME TypeInv, NEW t \in Thread, Request(t) \/ Work(t), Up', Up,
         NEW x \in Thread, x # t
  PROVE  pc'[x] = pc[x] /\ job'[x] = job[x]
<1> USE DEF TypeInv, TypeOK, Goto, Return
<1>1. CASE Request(t)
  <2>1. PICK k : job' = [job EXCEPT ![t] = k]  BY <1>1, RequestFrame
  <2>2. pc' = [pc EXCEPT ![t] = "connect"]  BY <1>1, RequestFrame
  <2> QED  BY <2>1, <2>2
<1>2. CASE OpenDb(t) \/ OpenDbFails(t) \/ LookUp(t) \/ CloseDb(t) \/ CheckMember(t)
  BY <1>2 DEF OpenDb, OpenDbFails, LookUp, CloseDb, CheckMember
<1>3. CASE InsertGroup(t) \/ CacheGroup(t) \/ NextMember(t)
  BY <1>3 DEF InsertGroup, CacheGroup, NextMember
<1>4. CASE ReadRow(t) \/ WriteRow(t) \/ PushMember(t) \/ ReadList(t) \/ WriteList(t)
  BY <1>4 DEF ReadRow, WriteRow, PushMember, ReadList, WriteList, AfterRow, AfterList
<1>5. CASE ReplyCreate(t) \/ Forward(t)
  BY <1>5 DEF ReplyCreate, Forward
<1>6. CASE EmptyMember(t) \/ NoSuchGroup(t) \/ NullHandle(t)
  BY <1>6 DEF EmptyMember, NoSuchGroup, NullHandle, UseNull, Die, Up
<1> QED  BY <1>1, <1>2, <1>3, <1>4, <1>5, <1>6 DEF Work

\* A step of a handler keeps the process alive or loses its memory.
LEMMA LivesOrDies ==
  ASSUME NEW t \in Thread, Request(t) \/ Work(t)
  PROVE  Up /\ (Up' \/ LoseMemory)
<1> USE DEF At, Up, dbVars, Connect, Disconnect, UseHandle
<1>1. CASE Request(t)
  BY <1>1, RequestFrame
<1>2. CASE OpenDb(t) \/ OpenDbFails(t) \/ LookUp(t) \/ CloseDb(t) \/ CheckMember(t)
  BY <1>2 DEF OpenDb, OpenDbFails, LookUp, CloseDb, CheckMember
<1>3. CASE InsertGroup(t) \/ CacheGroup(t) \/ NextMember(t)
  BY <1>3 DEF InsertGroup, CacheGroup, NextMember
<1>4. CASE ReadRow(t) \/ WriteRow(t) \/ PushMember(t) \/ ReadList(t) \/ WriteList(t)
  BY <1>4 DEF ReadRow, WriteRow, PushMember, ReadList, WriteList
<1>5. CASE ReplyCreate(t) \/ Forward(t)
  BY <1>5 DEF ReplyCreate, Forward
<1>6. CASE EmptyMember(t) \/ NoSuchGroup(t) \/ NullHandle(t)
  BY <1>6 DEF EmptyMember, NoSuchGroup, NullHandle, UseNull, Die
<1> QED  BY <1>1, <1>2, <1>3, <1>4, <1>5, <1>6 DEF Work

\* Only two actions write to chat_group.
LEMMA OnlyWriters ==
  ASSUME NEW t \in Thread, Request(t) \/ Work(t), ~InsertGroup(t), ~WriteRow(t)
  PROVE  UNCHANGED groupMember
<1>1. CASE Request(t)
  BY <1>1, RequestFrame
<1>2. CASE Work(t)
  BY <1>2 DEF Work, OpenDb, OpenDbFails, LookUp, CloseDb, CheckMember, CacheGroup,
     NextMember, ReadRow, PushMember, ReadList, WriteList, ReplyCreate, Forward,
     EmptyMember, NoSuchGroup, NullHandle, LoseMemory
<1> QED  BY <1>1, <1>2

------------------------------------------------------------------------------
\* A handler about to write a row back has read a list without repetition that
\* the uid it adds is not in.
RowFresh(t) ==
    pc[t] = "row_write" =>
        IsInjective(job[t].row) /\ job[t].who \notin ToSet(job[t].row)

RowInv == DbMembersDistinct /\ \A t \in Thread : RowFresh(t)

LEMMA InitRowInv == Init => RowInv
BY DEF Init, RowInv, DbMembersDistinct, RowFresh, IsInjective

LEMMA StepRowInv ==
  ASSUME TypeInv, RowInv, NEW t \in Thread, Request(t) \/ Work(t), Up, Up'
  PROVE  RowInv'
<1>1. DbMembersDistinct'
  <2>1. CASE InsertGroup(t)
    <3>1. IsInjective(<<job[t].uid>>)  BY DEF IsInjective
    <3> QED  BY <2>1, <3>1 DEF InsertGroup, RowInv, DbMembersDistinct, TypeInv, TypeOK
  <2>2. CASE WriteRow(t)
    <3>1. job[t].row \in Seq(Uid) /\ job[t].who \in Uid
      BY <2>2 DEF WriteRow, At, TypeInv, TypeOK, Knows, KnowsAt, Jobs
    <3>2. IsInjective(Append(job[t].row, job[t].who))
      BY <2>2, <3>1, AppendDistinct DEF WriteRow, At, RowInv, RowFresh
    <3> QED  BY <2>2, <3>2 DEF WriteRow, RowInv, DbMembersDistinct, TypeInv, TypeOK
  <2>3. CASE ~InsertGroup(t) /\ ~WriteRow(t)
    BY <2>3, OnlyWriters DEF RowInv, DbMembersDistinct
  <2> QED  BY <2>1, <2>2, <2>3
<1>2. ASSUME NEW x \in Thread, x # t PROVE RowFresh(x)'
  BY <1>2, OthersStay DEF RowInv, RowFresh
<1>3. RowFresh(t)'
  <2>1. CASE ReadRow(t)
    <3>1. /\ job[t].gid \in Gid /\ job[t].who \in Uid /\ job[t] \in Jobs
      BY <2>1 DEF ReadRow, At, TypeInv, TypeOK, Knows, KnowsAt
    <3>2. CASE /\ ~Occurs(job[t].who, groupMember[job[t].gid])
               /\ job' = [job EXCEPT ![t].row = groupMember[job[t].gid]]
      <4>1. /\ job'[t].row = groupMember[job[t].gid]
            /\ job'[t].who = job[t].who
        BY <3>1, <3>2 DEF TypeInv, TypeOK, Jobs
      <4>2. job[t].who \notin ToSet(groupMember[job[t].gid])
        BY <3>1, <3>2, WithinAssumption DEF Occurs
      <4> QED  BY <3>1, <4>1, <4>2 DEF RowFresh, RowInv, DbMembersDistinct
    <3>3. CASE AfterRow(t)
      BY <3>3 DEF AfterRow, Goto, RowFresh, TypeInv, TypeOK
    <3> QED  BY <2>1, <3>2, <3>3 DEF ReadRow
  <2>2. CASE ~ReadRow(t)
    <3>1. pc'[t] # "row_write"
      <4> USE DEF TypeInv, TypeOK, Goto, Return
      <4>1. CASE Request(t)
        BY <4>1 DEF Request, ReceiveCreate, ReceiveJoin, ReceiveCast, ReceiveQuery,
                    Receive
      <4>2. CASE OpenDb(t) \/ OpenDbFails(t) \/ LookUp(t) \/ CheckMember(t)
        BY <4>2 DEF OpenDb, OpenDbFails, LookUp, CheckMember
      <4>3. CASE CloseDb(t)  BY <4>3 DEF CloseDb
      <4>4. CASE InsertGroup(t) \/ CacheGroup(t) \/ NextMember(t)
        BY <4>4 DEF InsertGroup, CacheGroup, NextMember
      <4>5. CASE WriteRow(t) \/ PushMember(t) \/ ReadList(t) \/ WriteList(t)
        BY <4>5 DEF WriteRow, PushMember, ReadList, WriteList, AfterRow, AfterList
      <4>6. CASE ReplyCreate(t) \/ Forward(t)  BY <4>6 DEF ReplyCreate, Forward
      <4>7. CASE EmptyMember(t) \/ NoSuchGroup(t) \/ NullHandle(t)
        BY <4>7 DEF EmptyMember, NoSuchGroup, NullHandle, UseNull, Die, Up
      <4> QED  BY <2>2, <4>1, <4>2, <4>3, <4>4, <4>5, <4>6, <4>7 DEF Work
    <3> QED  BY <3>1 DEF RowFresh
  <2> QED  BY <2>1, <2>2
<1> QED  BY <1>1, <1>2, <1>3 DEF RowInv

LEMMA NextRowInv == TypeInv /\ RowInv /\ [GroupNext]_vars => RowInv'
<1> SUFFICES ASSUME TypeInv, RowInv, [GroupNext]_vars PROVE RowInv'  OBVIOUS
<1>1. CASE UNCHANGED vars \/ Restart \/ Served
  BY <1>1 DEF vars, Restart, Served, RowInv, DbMembersDistinct, RowFresh
<1>2. ASSUME NEW t \in Thread, Request(t) \/ Work(t) PROVE RowInv'
  <2>1. CASE Up'  BY <1>2, <2>1, LivesOrDies, StepRowInv
  <2>2. CASE LoseMemory
    BY <2>2 DEF LoseMemory, RowInv, DbMembersDistinct, RowFresh
  <2> QED  BY <1>2, <2>1, <2>2, LivesOrDies
<1> QED  BY <1>1, <1>2 DEF GroupNext

\* No interleaving of joins and creations makes database_update_group_member_by_gid
\* write a member twice into one row.
THEOREM RowsHaveNoDuplicates == GroupSpec => []DbMembersDistinct
<1>1. RowInv => DbMembersDistinct  BY DEF RowInv
<1> QED
  BY <1>1, InitTypeInv, NextTypeInv, InitRowInv, NextRowInv, PTL DEF GroupSpec

------------------------------------------------------------------------------
\* The group of a handler has a row, and so have those in the list it has read.
GroupThere(p, j) ==
    /\ p = "list_write" => \A g \in ToSet(j.list) : InTable(g)
    /\ j.op = "create" /\ p \in {"cache", "next", "row_read", "row_write", "push",
                                 "list_read", "list_write"} => InTable(j.gid)
    /\ j.op \in {"join", "cast"} /\ p # "idle" => InTable(j.gid)

ListInv == ListsNameGroups /\ \A t \in Thread : GroupThere(pc[t], job[t])

LEMMA InitListInv == Init => ListInv
<1>1. Init => \A u \in Uid : ToSet(groupList[u]) = {}
  BY DEF Init, ToSet
<1> QED
  BY <1>1 DEF Init, ListInv, ListsNameGroups, GroupThere, NoJob, NewJob

LEMMA RowsStay ==
  ASSUME TypeInv, NEW t \in Thread, Request(t) \/ Work(t), NEW g \in Gid, InTable(g)
  PROVE  InTable(g)'
<1> USE DEF InTable
<1>1. CASE InsertGroup(t)
  <2>1. <<job[t].uid>> # <<>>  OBVIOUS
  <2> QED  BY <1>1, <2>1 DEF InsertGroup, TypeInv, TypeOK
<1>2. CASE WriteRow(t)
  <2>1. job[t].row \in Seq(Uid) /\ job[t].who \in Uid
    BY <1>2 DEF WriteRow, At, TypeInv, TypeOK, Knows, KnowsAt, Jobs
  <2>2. Append(job[t].row, job[t].who) # <<>>  BY <2>1, AppendProperties
  <2> QED  BY <1>2, <2>2 DEF WriteRow, TypeInv, TypeOK
<1>3. CASE ~InsertGroup(t) /\ ~WriteRow(t)
  BY <1>3, OnlyWriters
<1> QED  BY <1>1, <1>2, <1>3

LEMMA StepListInv ==
  ASSUME TypeInv, ListInv, NEW t \in Thread, Request(t) \/ Work(t), Up, Up'
  PROVE  ListInv'
<1>0. \A g \in Gid : InTable(g) => InTable(g)'  BY RowsStay
<1>1. /\ job[t] \in Jobs /\ KnowsAt(pc[t], job[t])
      /\ GroupThere(pc[t], job[t])
  BY DEF TypeInv, TypeOK, Knows, ListInv
<1>2. ListsNameGroups'
  <2>1. CASE WriteList(t)
    <3>1. /\ job[t].list \in Seq(Gid) /\ job[t].gid \in Gid /\ InTable(job[t].gid)
          /\ \A g \in ToSet(job[t].list) : InTable(g)
      BY <1>1, <2>1 DEF WriteList, At, KnowsAt, GroupThere, Jobs
    <3>2. ToSet(Append(job[t].list, job[t].gid)) =
             ToSet(job[t].list) \union {job[t].gid}
      BY <3>1, AppendToSet
    <3>3. UNCHANGED groupMember  BY <2>1 DEF WriteList
    <3> QED
      BY <2>1, <3>1, <3>2, <3>3
         DEF WriteList, ListInv, ListsNameGroups, InTable, TypeInv, TypeOK
  <2>2. CASE ~WriteList(t)
    <3>1. UNCHANGED groupList
      BY <2>2 DEF Request, ReceiveCreate, ReceiveJoin, ReceiveCast, ReceiveQuery,
         Receive, Work, OpenDb, OpenDbFails, LookUp, CloseDb, CheckMember,
         InsertGroup, CacheGroup, NextMember, ReadRow, WriteRow, PushMember,
         ReadList, ReplyCreate, Forward, EmptyMember, NoSuchGroup, NullHandle,
         LoseMemory
    <3>2. \A u \in Uid : ToSet(groupList[u]) \subseteq Gid
      BY ToSetType DEF TypeInv, TypeOK
    <3> QED  BY <1>0, <3>1, <3>2 DEF ListInv, ListsNameGroups
  <2> QED  BY <2>1, <2>2
<1>3. ASSUME NEW p, NEW j \in Jobs, KnowsAt(p, j), GroupThere(p, j)
      PROVE  GroupThere(p, j)'
  <2>1. ToSet(j.list) \subseteq Gid  BY ToSetType DEF Jobs
  <2>2. GroupThere(p, j)' <=>
          /\ p = "list_write" => \A g \in ToSet(j.list) : InTable(g)'
          /\ j.op = "create" /\ p \in {"cache", "next", "row_read", "row_write",
                 "push", "list_read", "list_write"} => InTable(j.gid)'
          /\ j.op \in {"join", "cast"} /\ p # "idle" => InTable(j.gid)'
    BY DEF GroupThere, InTable
  <2> QED  BY <1>0, <1>3, <2>1, <2>2 DEF GroupThere, KnowsAt
<1>4. ASSUME NEW x \in Thread, x # t PROVE GroupThere(pc[x], job[x])'
  <2>1. /\ pc'[x] = pc[x] /\ job'[x] = job[x] /\ job[x] \in Jobs
        /\ KnowsAt(pc[x], job[x]) /\ GroupThere(pc[x], job[x])
    BY <1>4, OthersStay DEF ListInv, TypeInv, TypeOK, Knows
  <2>2. PICK p, j : p = pc[x] /\ j = job[x]  OBVIOUS
  <2>3. GroupThere(p, j)'  BY <1>3, <2>1, <2>2
  <2> QED  BY <2>1, <2>2, <2>3 DEF GroupThere, InTable
<1>5. pc'[t] \in Places /\ job'[t] \in Jobs /\ KnowsAt(pc'[t], job'[t])
  <2>1. TypeInv'  BY RequestTypeInv, WorkTypeInv
  <2> QED  BY <2>1 DEF TypeInv, TypeOK, Knows
<1>6. ~InsertGroup(t) => GroupThere(pc'[t], job'[t])
  <2> SUFFICES ASSUME ~InsertGroup(t) PROVE GroupThere(pc'[t], job'[t])  OBVIOUS
  <2> USE DEF TypeInv, TypeOK, Goto, GroupThere, At
  <2>1. CASE Request(t)
    <3>1. PICK op, u, g, named, todo :
             Receive(t, op, u, g, named, todo) /\ (op \in {"join", "cast"} => InTable(g))
      BY <2>1, Received
    <3>2. pc'[t] = "connect" /\ job'[t] = NewJob(op, u, g, named, todo)
      BY <3>1 DEF Receive
    <3>3. job'[t].op = op /\ job'[t].gid = g  BY <3>2 DEF NewJob
    <3> QED  BY <3>1, <3>2, <3>3
  <2>2. CASE OpenDb(t)  BY <1>1, <2>2 DEF OpenDb, KnowsAt
  <2>3. CASE Return(t)  BY <2>3 DEF Return, NoJob, NewJob
  <2>4. CASE OpenDbFails(t)  BY <1>1, <2>3, <2>4 DEF OpenDbFails, KnowsAt
  <2>5. CASE LookUp(t)
    <3>1. PICK b \in {Exists(job[t]), FALSE} :
             job' = [job EXCEPT ![t] = [job[t] EXCEPT !.found = b]]
      BY <2>5 DEF LookUp
    <3>2. b \in BOOLEAN /\ pc'[t] = "close"  BY <2>5 DEF LookUp, Exists
    <3>3. job'[t] = [job[t] EXCEPT !.found = b]  BY <3>1
    <3>4. /\ job'[t].found = b /\ job'[t].look = job[t].look
          /\ job'[t].op = job[t].op /\ job'[t].gid = job[t].gid
      BY <1>1, <3>2, <3>3, SetFound
    <3> QED  BY <1>1, <2>5, <3>2, <3>4 DEF LookUp, KnowsAt
  <2>6. CASE CloseDb(t)
    <3>1. CASE UNCHANGED job /\ pc'[t] \in {"reply", "forward", "check", "push"}
      <4>1. job[t].op \in {"join", "cast"} => InTable(job[t].gid)
        BY <1>1, <2>6 DEF CloseDb
      <4>2. job[t].op = "create" => pc'[t] \in {"idle", "reply"}
        BY <2>6 DEF CloseDb, Return
      <4> QED  BY <3>1, <4>1, <4>2
    <3>2. CASE ~GivesUp(job[t]) /\ job[t].look = 1 /\ Goto(t, "connect")
               /\ job' = [job EXCEPT ![t].look = 2]
      <4>1. job'[t] = [job[t] EXCEPT !.look = 2] /\ pc'[t] = "connect"  BY <3>2
      <4>2. job'[t].op = job[t].op /\ job'[t].gid = job[t].gid
        BY <1>1, <4>1, 2 \in 1..3, SetLook
      <4>3. job[t].op \in {"join", "cast"} => InTable(job[t].gid)
        BY <1>1, <2>6 DEF CloseDb
      <4> QED  BY <4>1, <4>2, <4>3
    <3> QED  BY <2>3, <2>6, <3>1, <3>2 DEF CloseDb
  <2>7. CASE CheckMember(t)
    <3>1. CASE Goto(t, "reopen") /\ job' = [job EXCEPT ![t].look = 3]
      <4>1. job'[t] = [job[t] EXCEPT !.look = 3] /\ pc'[t] = "reopen"  BY <3>1
      <4>2. job'[t].op = job[t].op /\ job'[t].gid = job[t].gid /\ job'[t].look = 3
        BY <1>1, <4>1, 3 \in 1..3, SetLook
      <4> QED  BY <1>1, <2>7, <4>1, <4>2 DEF CheckMember, KnowsAt
    <3> QED  BY <2>3, <2>7, <3>1 DEF CheckMember
  <2>8. CASE CacheGroup(t)  BY <1>1, <2>8 DEF CacheGroup, Jobs, KnowsAt
  <2>9. CASE NextMember(t)
    <3>1. job'[t].op = job[t].op /\ job'[t].gid = job[t].gid
      <4>1. CASE UNCHANGED job  BY <4>1
      <4>2. CASE /\ job[t].todo # <<>> /\ Head(job[t].todo) # NoUid
                 /\ job' = [job EXCEPT ![t] = [@ EXCEPT !.who = Head(job[t].todo),
                                                        !.todo = Tail(job[t].todo)]]
        <5> DEFINE h == Head(job[t].todo)
                   r == Tail(job[t].todo)
        <5>1. job[t].todo \in Seq(Uid \union {NoUid})  BY <1>1 DEF Jobs
        <5>2. h \in Uid /\ r \in Seq(Uid \union {NoUid})  BY <4>2, <5>1
        <5>3. job'[t] = [job[t] EXCEPT !.who = h, !.todo = r]  BY <4>2
        <5> HIDE DEF h, r
        <5>4. /\ [job[t] EXCEPT !.who = h, !.todo = r].op = job[t].op
              /\ [job[t] EXCEPT !.who = h, !.todo = r].gid = job[t].gid
          BY <1>1, <5>2 DEF Jobs
        <5> QED  BY <5>3, <5>4
      <4> QED  BY <2>9, <4>1, <4>2 DEF NextMember
    <3>2. job[t].op = "create" /\ InTable(job[t].gid)
      BY <1>1, <2>9 DEF NextMember, KnowsAt
    <3>3. pc'[t] # "list_write"  BY <2>9 DEF NextMember
    <3> QED  BY <3>1, <3>2, <3>3
  <2>10. CASE ReadRow(t)
    <3>1. CASE UNCHANGED job /\ AfterRow(t)
      BY <1>1, <2>10, <3>1 DEF ReadRow, AfterRow, KnowsAt
    <3>2. CASE Goto(t, "row_write")
               /\ job' = [job EXCEPT ![t].row = groupMember[job[t].gid]]
      <4>0. groupMember[job[t].gid] \in Seq(Uid)
        BY <1>1, <2>10 DEF ReadRow, KnowsAt
      <4>1. /\ job'[t] = [job[t] EXCEPT !.row = groupMember[job[t].gid]]
            /\ pc'[t] = "row_write"
        BY <3>2
      <4>2. /\ job'[t].op = job[t].op /\ job'[t].gid = job[t].gid
            /\ job'[t].look = job[t].look
        BY <1>1, <4>0, <4>1, SetRow
      <4> QED  BY <1>1, <2>10, <4>1, <4>2 DEF ReadRow
    <3> QED  BY <2>10, <3>1, <3>2 DEF ReadRow
  <2>11. CASE WriteRow(t)  BY <1>1, <2>11 DEF WriteRow, AfterRow, Jobs, KnowsAt
  <2>12. CASE PushMember(t)  BY <1>1, <2>12 DEF PushMember, Jobs, KnowsAt
  <2>13. CASE ReadList(t)
    <3>1. CASE UNCHANGED job /\ AfterList(t)
      BY <1>1, <2>13, <3>1 DEF ReadList, AfterList, KnowsAt
    <3>2. CASE Goto(t, "list_write")
               /\ job' = [job EXCEPT ![t].list = groupList[job[t].who]]
      <4>0. job[t].who \in Uid /\ groupList[job[t].who] \in Seq(Gid)
        BY <1>1, <2>13 DEF ReadList, KnowsAt
      <4>1. /\ job'[t] = [job[t] EXCEPT !.list = groupList[job[t].who]]
            /\ pc'[t] = "list_write"
        BY <3>2
      <4>2. /\ job'[t].op = job[t].op /\ job'[t].gid = job[t].gid
            /\ job'[t].look = job[t].look /\ job'[t].list = groupList[job[t].who]
        BY <1>1, <4>0, <4>1, SetList
      <4>3. \A g \in ToSet(groupList[job[t].who]) : InTable(g)
        BY <4>0 DEF ListInv, ListsNameGroups
      <4> QED  BY <1>1, <2>13, <4>1, <4>2, <4>3 DEF ReadList
    <3> QED  BY <2>13, <3>1, <3>2 DEF ReadList
  <2>14. CASE WriteList(t)  BY <1>1, <2>14 DEF WriteList, AfterList, Jobs, KnowsAt
  <2>15. CASE ReplyCreate(t) \/ Forward(t)
    BY <2>3, <2>15 DEF ReplyCreate, Forward
  <2>16. CASE EmptyMember(t) \/ NoSuchGroup(t) \/ NullHandle(t)
    BY <2>16 DEF EmptyMember, NoSuchGroup, NullHandle, UseNull, Die, Up
  <2> QED
    BY <2>1, <2>2, <2>4, <2>5, <2>6, <2>7, <2>8, <2>9, <2>10, <2>11, <2>12, <2>13,
       <2>14, <2>15, <2>16 DEF Work
<1>7. ASSUME InsertGroup(t) PROVE GroupThere(pc[t], job[t])'
  <2> USE DEF TypeInv, TypeOK, Goto, GroupThere, At
  <2>1. ASSUME NEW g \in Gid, Goto(t, "cache"),
               groupMember' = [groupMember EXCEPT ![g] = <<job[t].uid>>],
               job' = [job EXCEPT ![t].gid = g]
        PROVE  GroupThere(pc[t], job[t])'
    <3>1. job'[t] = [job[t] EXCEPT !.gid = g] /\ pc'[t] = "cache"  BY <2>1
    <3>2. job'[t].op = job[t].op /\ job'[t].gid = g
      BY <1>1, <3>1, SetGid
    <3>3. job[t].op = "create"  BY <1>1, <1>7 DEF InsertGroup, KnowsAt
    <3>4. <<job[t].uid>> # <<>>  OBVIOUS
    <3>5. groupMember'[g] # <<>>  BY <2>1, <3>4
    <3> QED  BY <3>1, <3>2, <3>3, <3>5 DEF InTable
  <2>2. ASSUME UNCHANGED <<groupMember, job>>, Goto(t, "close")
        PROVE  GroupThere(pc[t], job[t])'
    BY <1>1, <1>7, <2>2 DEF InsertGroup, KnowsAt, InTable
  <2> QED  BY <1>7, <2>1, <2>2 DEF InsertGroup
<1>8. GroupThere(pc[t], job[t])'
  BY <1>3, <1>5, <1>6, <1>7 DEF GroupThere, InTable
<1> QED  BY <1>2, <1>4, <1>8 DEF ListInv

LEMMA NextListInv == TypeInv /\ ListInv /\ [GroupNext]_vars => ListInv'
<1> SUFFICES ASSUME TypeInv, ListInv, [GroupNext]_vars PROVE ListInv'  OBVIOUS
<1>1. CASE UNCHANGED vars \/ Restart \/ Served
  BY <1>1 DEF vars, Restart, Served, ListInv, ListsNameGroups, GroupThere, InTable
<1>2. ASSUME NEW t \in Thread, Request(t) \/ Work(t) PROVE ListInv'
  <2>1. CASE Up'  BY <1>2, <2>1, LivesOrDies, StepListInv
  <2>2. CASE LoseMemory
    BY <2>2 DEF LoseMemory, ListInv, ListsNameGroups, GroupThere, InTable, NoJob,
                NewJob
  <2> QED  BY <1>2, <2>1, <2>2, LivesOrDies
<1> QED  BY <1>1, <1>2 DEF GroupNext

\* No death, restart, failing statement or interleaving leaves in a grouplist a
\* gid whose row is missing: the row is inserted before any list names it.
THEOREM ListsNameOnlyGroups == GroupSpec => []ListsNameGroups
<1>1. ListInv => ListsNameGroups  BY DEF ListInv
<1> QED
  BY <1>1, InitTypeInv, NextTypeInv, InitListInv, NextListInv, PTL DEF GroupSpec
------------------------------------------------------------------------------
\* The uids in the map's list of a group.
Cached(g) == ToSet(groupInfo[g])

\* The places of thread_create_group once the group is in the map.
Filling == {"list_read", "list_write", "next", "row_read", "row_write", "push"}

\* The places of thread_join_group once it has decided to add the joiner.
Joining == {"reopen", "row_read", "row_write", "list_read", "list_write", "push"}

\* The places where the uid a creation has come to is still to be pushed.
Adding(p) == p \in {"row_read", "row_write", "push"}

\* What a handler at place p with the locals j knows of the map.
KnowsMap(p, j) ==
    /\ p \in {"connect", "insert", "cache"} \/ j.op # "create" => j.who = j.uid
    /\ j.op = "create" /\ p \in {"connect", "insert", "cache"} =>
          ToSet(j.named) \subseteq ToSet(j.todo)
    /\ j.op = "create" /\ p \in {"connect", "insert"} => j.gid = NoGid
    /\ p = "cache" => ~InMap(j.gid)
    /\ j.op = "create" /\ p \in Filling =>
          /\ InMap(j.gid)
          /\ j.uid \in Cached(j.gid)
          /\ \A u \in ToSet(j.named) :
                u \in Cached(j.gid) \/ u \in ToSet(j.todo) \/ (Adding(p) /\ u = j.who)
    /\ j.op = "create" /\ p \in {"close", "reply"} /\ j.gid # NoGid =>
          ToSet(j.named) \subseteq Cached(j.gid)
    /\ j.op = "join" /\ p = "forward" =>
          j.uid \in Cached(j.gid) \/ <<j.gid, j.uid>> \in early
    /\ p = "forward" => j.op \in {"join", "cast"}
    /\ j.op = "join" /\ p \in Joining => j.look = 3

\* A handler there is bound to put u in the map's list of g.
BringsAt(p, j, g, u) ==
    /\ j.gid = g /\ j.who = u
    /\ \/ p \in {"cache", "push"}
       \/ j.op = "join" /\ j.look = 3 /\ p \in {"list_read", "list_write", "close"}

Reached(g, u) ==
    \/ u \in Cached(g)
    \/ <<g, u>> \in early
    \/ \E t \in Thread : BringsAt(pc[t], job[t], g, u)

ThreadsInv ==
    /\ \A t \in Thread : KnowsMap(pc[t], job[t])
    /\ \A t, x \in Thread :
          t # x /\ pc[t] = "cache" /\ pc[x] = "cache" => job[t].gid # job[x].gid

ToldInv ==
    /\ ~Up => told = {} /\ \A t \in Thread : pc[t] = "idle"
    /\ \A g \in Gid : InMap(g) => InTable(g)
    /\ \A p \in told \ early : p[2] \in Cached(p[1])

LoadedInv == Up /\ loaded =>
    /\ \A g \in Gid : InTable(g) => InMap(g) \/ Creating(g)
    /\ \A g \in Gid : \A u \in ToSet(groupMember[g]) : Reached(g, u)
    /\ \A t \in Thread : pc[t] = "row_write" =>
          \A u \in ToSet(job[t].row) : Reached(job[t].gid, u)

MapInv == ToldInv /\ ThreadsInv /\ LoadedInv

LEMMA InitMapInv == Init => MapInv
<1> SUFFICES ASSUME Init PROVE MapInv  OBVIOUS
<1>1. ToldInv  BY DEF Init, ToldInv, InMap
<1>2. ThreadsInv  BY DEF Init, ThreadsInv, KnowsMap, NoJob, NewJob, Filling
<1>3. \A g \in Gid : ToSet(groupMember[g]) = {}  BY DEF Init, ToSet
<1>4. LoadedInv  BY <1>3 DEF Init, LoadedInv, InTable
<1> QED  BY <1>1, <1>2, <1>4 DEF MapInv

\* Only two actions write to the map.
LEMMA MapWriters ==
  ASSUME NEW t \in Thread, Request(t) \/ Work(t), Up', ~CacheGroup(t), ~PushMember(t)
  PROVE  UNCHANGED groupInfo
<1>1. CASE Request(t)
  BY <1>1, RequestFrame
<1>2. CASE Work(t)
  BY <1>2 DEF Work, OpenDb, OpenDbFails, LookUp, CloseDb, CheckMember, InsertGroup,
     NextMember, ReadRow, WriteRow, ReadList, WriteList, ReplyCreate, Forward,
     EmptyMember, NoSuchGroup, NullHandle, UseNull, Die, Up
<1> QED  BY <1>1, <1>2

LEMMA LoadedStays ==
  ASSUME NEW t \in Thread, Request(t) \/ Work(t) PROVE loaded' = loaded
<1>1. CASE Request(t)
  BY <1>1, RequestFrame
<1>2. CASE Work(t)
  BY <1>2 DEF Work, OpenDb, OpenDbFails, LookUp, CloseDb, CheckMember, InsertGroup,
     CacheGroup, NextMember, ReadRow, WriteRow, PushMember, ReadList, WriteList,
     ReplyCreate, Forward, EmptyMember, NoSuchGroup, NullHandle, LoseMemory
<1> QED  BY <1>1, <1>2

LEMMA NotInMap == ASSUME NEW g, ~InMap(g) PROVE Cached(g) = {}
BY DEF InMap, Cached, ToSet

\* What CacheGroup and PushMember leave in the map.
LEMMA CacheGroupAdds ==
  ASSUME TypeInv, NEW t \in Thread, CacheGroup(t), ~InMap(job[t].gid)
  PROVE  /\ job[t].gid \in Gid
         /\ Cached(job[t].gid)' = {job[t].uid} /\ InMap(job[t].gid)'
         /\ \A g \in Gid \ {job[t].gid} : groupInfo'[g] = groupInfo[g]
         /\ job' = job
<1>1. job[t].gid \in Gid  BY DEF CacheGroup, At, TypeInv, Knows, KnowsAt
<1>2. groupInfo' = [groupInfo EXCEPT ![job[t].gid] = <<job[t].uid>>] /\ job' = job
  BY DEF CacheGroup
<1>3. groupInfo'[job[t].gid] = <<job[t].uid>>
  BY <1>1, <1>2 DEF TypeInv, TypeOK
<1>4. ToSet(<<job[t].uid>>) = {job[t].uid} /\ <<job[t].uid>> # <<>>  BY DEF ToSet
<1>5. \A g \in Gid \ {job[t].gid} : groupInfo'[g] = groupInfo[g]
  BY <1>2 DEF TypeInv, TypeOK
<1> QED  BY <1>1, <1>2, <1>3, <1>4, <1>5 DEF Cached, InMap

LEMMA PushMemberAdds ==
  ASSUME TypeInv, NEW t \in Thread, PushMember(t), InMap(job[t].gid)
  PROVE  /\ job[t].gid \in Gid /\ job[t].who \in Uid
         /\ Cached(job[t].gid)' = Cached(job[t].gid) \union {job[t].who}
         /\ InMap(job[t].gid)'
         /\ \A g \in Gid \ {job[t].gid} : groupInfo'[g] = groupInfo[g]
         /\ job' = job
<1>1. job[t].gid \in Gid /\ job[t].who \in Uid
  BY DEF PushMember, At, TypeInv, Knows, KnowsAt
<1>2. /\ groupInfo' = [groupInfo EXCEPT
                          ![job[t].gid] = Append(groupInfo[job[t].gid], job[t].who)]
      /\ job' = job
  BY DEF PushMember, Pushed
<1>3. groupInfo[job[t].gid] \in Seq(Uid)  BY <1>1 DEF TypeInv, TypeOK
<1>4. groupInfo'[job[t].gid] = Append(groupInfo[job[t].gid], job[t].who)
  BY <1>1, <1>2 DEF TypeInv, TypeOK
<1>5. /\ ToSet(groupInfo'[job[t].gid]) = ToSet(groupInfo[job[t].gid]) \union {job[t].who}
      /\ groupInfo'[job[t].gid] # <<>>
  BY <1>1, <1>3, <1>4, AppendToSet, AppendProperties
<1>6. groupInfo \in [Gid -> Seq(Uid)]
  BY DEF TypeInv, TypeOK
<1>7. \A g \in Gid \ {job[t].gid} : groupInfo'[g] = groupInfo[g]
  BY <1>2, <1>6
<1> QED  BY <1>1, <1>2, <1>5, <1>7 DEF Cached, InMap

\* While the process lives the map only grows, and so does early.
LEMMA EarlyWriters ==
  ASSUME NEW t \in Thread, Request(t) \/ Work(t), Up', ~PushMember(t)
  PROVE  UNCHANGED early
<1>1. CASE Request(t)
  BY <1>1, RequestFrame
<1>2. CASE Work(t)
  BY <1>2 DEF Work, OpenDb, OpenDbFails, LookUp, CloseDb, CheckMember, InsertGroup,
     CacheGroup, NextMember, ReadRow, WriteRow, ReadList, WriteList,
     ReplyCreate, Forward, EmptyMember, NoSuchGroup, NullHandle, UseNull, Die, Up
<1> QED  BY <1>1, <1>2

LEMMA EarlyGrows ==
  ASSUME NEW t \in Thread, Request(t) \/ Work(t), Up'
  PROVE  early \subseteq early'
BY EarlyWriters DEF PushMember

LEMMA MapGrows ==
  ASSUME TypeInv, NEW t \in Thread, Request(t) \/ Work(t), Up', NEW g \in Gid
  PROVE  Cached(g) \subseteq Cached(g)' /\ (InMap(g) => InMap(g)')
<1>1. CASE UNCHANGED groupInfo  BY <1>1 DEF Cached, InMap
<1>2. CASE CacheGroup(t) /\ ~InMap(job[t].gid)
  <2>1. CASE g = job[t].gid  BY <1>2, <2>1, CacheGroupAdds, NotInMap
  <2>2. CASE g # job[t].gid
    BY <1>2, <2>2, CacheGroupAdds DEF Cached, InMap
  <2> QED  BY <2>1, <2>2
<1>3. CASE PushMember(t) /\ InMap(job[t].gid)
  <2>1. CASE g = job[t].gid  BY <1>3, <2>1, PushMemberAdds
  <2>2. CASE g # job[t].gid
    BY <1>3, <2>2, PushMemberAdds DEF Cached, InMap
  <2> QED  BY <2>1, <2>2
<1>4. CASE CacheGroup(t) /\ InMap(job[t].gid)
  BY <1>1, <1>4 DEF CacheGroup
<1>5. CASE PushMember(t) /\ ~InMap(job[t].gid)
  BY <1>1, <1>5 DEF PushMember
<1> QED  BY <1>1, <1>2, <1>3, <1>4, <1>5, MapWriters

\* What a handler that rests knows of the map stays true.
LEMMA MapKnown ==
  ASSUME TypeInv, NEW t \in Thread, Request(t) \/ Work(t), Up',
         NEW p, NEW j \in Jobs, KnowsAt(p, j), KnowsMap(p, j),
         p = "cache" => ~InMap(j.gid)'
  PROVE  KnowsMap(p, j)'
<1>1. \A g \in Gid : /\ Cached(g) \subseteq Cached(g)'
                     /\ InMap(g) => InMap(g)'
  BY MapGrows
<1>2. early \subseteq early'  BY EarlyGrows
<1>5. KnowsMap(p, j)' <=>
    /\ p \in {"connect", "insert", "cache"} \/ j.op # "create" => j.who = j.uid
    /\ j.op = "create" /\ p \in {"connect", "insert", "cache"} =>
          ToSet(j.named) \subseteq ToSet(j.todo)
    /\ j.op = "create" /\ p \in {"connect", "insert"} => j.gid = NoGid
    /\ p = "cache" => ~InMap(j.gid)'
    /\ j.op = "create" /\ p \in Filling =>
          /\ InMap(j.gid)'
          /\ j.uid \in Cached(j.gid)'
          /\ \A u \in ToSet(j.named) :
                u \in Cached(j.gid)' \/ u \in ToSet(j.todo) \/ (Adding(p) /\ u = j.who)
    /\ j.op = "create" /\ p \in {"close", "reply"} /\ j.gid # NoGid =>
          ToSet(j.named) \subseteq Cached(j.gid)'
    /\ j.op = "join" /\ p = "forward" =>
          j.uid \in Cached(j.gid)' \/ <<j.gid, j.uid>> \in early'
    /\ p = "forward" => j.op \in {"join", "cast"}
    /\ j.op = "join" /\ p \in Joining => j.look = 3
  BY DEF KnowsMap, InMap, Cached, Filling, Adding, Joining
<1>6. j.op = "create" /\ p \in Filling => j.gid \in Gid
  BY DEF KnowsAt, Filling
<1>7. j.op \in {"join", "cast"} /\ p # "idle" => j.gid \in Gid
  BY DEF KnowsAt
<1>8. j.gid \in Gid \union {NoGid}  BY DEF Jobs
<1> QED
  BY <1>1, <1>2, <1>5, <1>6, <1>7, <1>8 DEF KnowsMap

\* The locals that KnowsMap speaks of.
SameJob(k, j) ==
    /\ k.op = j.op /\ k.uid = j.uid /\ k.gid = j.gid /\ k.who = j.who
    /\ k.named = j.named /\ k.todo = j.todo /\ k.list = j.list

\* A request starts with nothing to know of the map.
LEMMA RequestKnows ==
  ASSUME TypeInv, NEW t \in Thread, Request(t)
  PROVE  KnowsMap(pc'[t], job'[t]) /\ pc'[t] = "connect"
<1>1. ASSUME NEW op, NEW u, NEW g, NEW named, NEW todo,
             Receive(t, op, u, g, named, todo),
             op = "create" => ToSet(named) \subseteq ToSet(todo) /\ g = NoGid
      PROVE  KnowsMap(pc'[t], job'[t]) /\ pc'[t] = "connect"
  <2>1. pc'[t] = "connect" /\ job'[t] = NewJob(op, u, g, named, todo)
    BY <1>1 DEF Receive, Goto, TypeInv, TypeOK
  <2>2. /\ job'[t].op = op /\ job'[t].uid = u /\ job'[t].who = u
        /\ job'[t].gid = g /\ job'[t].named = named /\ job'[t].todo = todo
    BY <2>1 DEF NewJob
  <2> QED  BY <1>1, <2>1, <2>2 DEF KnowsMap, Filling, Joining
<1>2. CASE ReceiveCreate(t)
  <2>1. PICK o \in Registered, named \in SeqOf(Registered, 2) :
          Receive(t, "create", o, NoGid, named,
                  IF named = <<>> THEN <<NoUid>> ELSE named)
    BY <1>2 DEF ReceiveCreate
  <2>2. ToSet(<<>>) = {}  BY DEF ToSet
  <2> QED  BY <1>1, <2>1, <2>2
<1>3. CASE ReceiveJoin(t)
  BY <1>1, <1>3 DEF ReceiveJoin
<1>4. CASE ReceiveCast(t)
  BY <1>1, <1>4 DEF ReceiveCast
<1>5. CASE ReceiveQuery(t)
  BY <1>1, <1>5 DEF ReceiveQuery
<1> QED  BY <1>2, <1>3, <1>4, <1>5 DEF Request

\* A handler that goes on with the locals it has, or most of them.
LEMMA KnowsOn ==
  ASSUME NEW p, NEW q, NEW j, NEW k, SameJob(k, j), KnowsMap(p, j),
         p \notin {"idle", "cache"}, q \notin {"idle", "cache"},
         j.op \in {"create", "join", "cast", "query"},
         q \in {"connect", "insert", "cache"} =>
             p \in {"connect", "insert"} \/ j.op # "create",
         q \in Filling => p \in Filling \/ j.op # "create",
         Adding(p) => Adding(q) \/ j.op # "create",
         q \in {"close", "reply"} =>
             p \in {"connect", "insert", "close", "reply"} \/ j.op # "create",
         q = "forward" => j.op = "cast",
         j.op = "join" /\ q \in Joining => k.look = 3
  PROVE  KnowsMap(q, k)
<1> HIDE DEF InMap, Cached
<1> QED  BY DEF KnowsMap, SameJob

LEMMA IdleKnows == KnowsMap("idle", NoJob)
BY DEF KnowsMap, NoJob, NewJob, Filling, Joining

\* A step of a handler leaves it knowing what it should of the map.
LEMMA StepKnows ==
  ASSUME TypeInv, MapInv, NEW t \in Thread, Request(t) \/ Work(t), Up, Up'
  PROVE  KnowsMap(pc[t], job[t])'
<1>1. /\ job[t] \in Jobs /\ KnowsAt(pc[t], job[t])
      /\ KnowsMap(pc[t], job[t])
  BY DEF TypeInv, TypeOK, Knows, MapInv, ThreadsInv
<1>2. pc'[t] \in Places /\ job'[t] \in Jobs /\ KnowsAt(pc'[t], job'[t])
  <2>1. TypeInv'  BY RequestTypeInv, WorkTypeInv
  <2> QED  BY <2>1 DEF TypeInv, TypeOK, Knows
<1>3. ASSUME KnowsMap(pc'[t], job'[t]), pc'[t] # "cache"
      PROVE  KnowsMap(pc[t], job[t])'
  BY <1>2, <1>3, MapKnown DEF KnowsMap, InMap, Cached
<1>op. pc[t] # "idle" => job[t].op \in {"create", "join", "cast", "query"}
  BY <1>1 DEF KnowsAt, Jobs, Ops
<1>4. CASE Request(t)
  BY <1>3, <1>4, RequestKnows
<1>5. CASE Return(t)
  <2>1. pc'[t] = "idle" /\ job'[t] = NoJob
    BY <1>5 DEF Return, Goto, TypeInv, TypeOK
  <2> QED  BY <1>3, <2>1, IdleKnows
<1>6. ASSUME NEW q, Goto(t, q), UNCHANGED job
      PROVE  pc'[t] = q /\ job'[t] = job[t] /\ SameJob(job[t], job[t])
  BY <1>6 DEF Goto, TypeInv, TypeOK, SameJob
<1>7. CASE OpenDb(t)
  <2>1. CASE pc[t] = "connect" /\ job[t].op = "create" /\ pc'[t] = "insert"
             /\ job'[t] = job[t]
    BY <1>1, <1>3, <2>1 DEF KnowsMap, Filling, Joining
  <2>2. CASE pc[t] = "connect" /\ job[t].op # "create" /\ pc'[t] = "lookup"
             /\ job'[t] = job[t]
    BY <1>1, <1>3, <2>2 DEF KnowsMap, Filling, Joining
  <2>3. CASE pc[t] = "reopen" /\ pc'[t] = "row_read" /\ job'[t] = job[t]
    <3>1. job[t].op = "join"  BY <1>1, <2>3 DEF KnowsAt
    <3> QED  BY <1>1, <1>3, <2>3, <3>1 DEF KnowsMap, Filling, Joining
  <2> QED  BY <1>6, <1>7, <2>1, <2>2, <2>3 DEF OpenDb, At
<1>8. CASE OpenDbFails(t)
  <2>1. CASE pc[t] = "connect" /\ job[t].op = "query" /\ pc'[t] = "lookup"
             /\ job'[t] = job[t]
    BY <1>1, <1>3, <2>1 DEF KnowsMap, Filling, Joining
  <2>2. CASE pc[t] = "reopen" /\ pc'[t] = "row_read" /\ job'[t] = job[t]
    <3>1. job[t].op = "join"  BY <1>1, <2>2 DEF KnowsAt
    <3> QED  BY <1>1, <1>3, <2>2, <3>1 DEF KnowsMap, Filling, Joining
  <2> QED  BY <1>5, <1>6, <1>8, <2>1, <2>2 DEF OpenDbFails, At
<1>9. CASE LookUp(t)
  <2>1. PICK b \in BOOLEAN : job' = [job EXCEPT ![t] = [job[t] EXCEPT !.found = b]]
    <3>1. Exists(job[t]) \in BOOLEAN  BY DEF Exists
    <3> QED  BY <1>9, <3>1 DEF LookUp
  <2>2. pc[t] = "lookup" /\ pc'[t] = "close"
    BY <1>9 DEF LookUp, At, Goto, TypeInv, TypeOK
  <2>3. job'[t] = [job[t] EXCEPT !.found = b]
    BY <2>1 DEF TypeInv, TypeOK
  <2>4. SameJob(job'[t], job[t])
    BY <1>1, <2>3, SetFound DEF SameJob
  <2>5. job[t].op # "create"  BY <1>1, <2>2 DEF KnowsAt
  <2>6. KnowsMap("close", job'[t])
    BY <1>1, <1>op, <2>2, <2>4, <2>5, KnowsOn DEF Filling, Joining, Adding
  <2> QED  BY <1>3, <2>2, <2>6
<1>10. CASE CloseDb(t)
  <2>1. CASE ~GivesUp(job[t]) /\ job[t].op # "create" /\ pc[t] = "close"
             /\ job' = [job EXCEPT ![t].look = 2] /\ Goto(t, "connect")
    <3>1. job'[t] = [job[t] EXCEPT !.look = 2] /\ pc'[t] = "connect"
      BY <2>1 DEF Goto, TypeInv, TypeOK
    <3>2. SameJob(job'[t], job[t])
      BY <1>1, <3>1, 2 \in 1..3, SetLook DEF SameJob
    <3>3. KnowsMap("connect", job'[t])
      BY <1>1, <1>op, <2>1, <3>2, KnowsOn DEF Filling, Joining, Adding
    <3> QED  BY <1>3, <3>1, <3>3
  <2>2. CASE ~GivesUp(job[t]) /\ (job[t].op = "create" \/ job[t].look > 1)
             /\ UNCHANGED job /\ pc[t] = "close"
             /\ Goto(t, CASE job[t].op = "create" -> "reply"
                          [] job[t].op = "cast" -> "forward"
                          [] job[t].op = "join" /\ job[t].look = 2 -> "check"
                          [] OTHER -> "push")
    <3>1. job[t].op \in {"create", "cast", "join"}
      BY <1>op, <2>2 DEF GivesUp
    <3>2. CASE job[t].op = "create"
      <4>1. pc'[t] = "reply" /\ job'[t] = job[t]  BY <1>6, <2>2, <3>2
      <4> QED  BY <1>1, <1>3, <2>2, <3>2, <4>1 DEF KnowsMap, Filling, Joining
    <3>3. CASE job[t].op = "cast"
      <4>1. pc'[t] = "forward" /\ job'[t] = job[t]  BY <1>6, <2>2, <3>3
      <4> QED  BY <1>1, <1>3, <2>2, <3>3, <4>1 DEF KnowsMap, Filling, Joining
    <3>4. CASE job[t].op = "join" /\ job[t].look = 2
      <4>1. pc'[t] = "check" /\ job'[t] = job[t]  BY <1>6, <2>2, <3>4
      <4> QED  BY <1>1, <1>3, <2>2, <3>4, <4>1 DEF KnowsMap, Filling, Joining
    <3>5. CASE job[t].op = "join" /\ job[t].look # 2
      <4>1. pc'[t] = "push" /\ job'[t] = job[t]  BY <1>6, <2>2, <3>5
      <4>2. job[t].look = 3  BY <1>1, <2>2, <3>5 DEF Jobs
      <4> QED  BY <1>1, <1>3, <2>2, <3>5, <4>1, <4>2 DEF KnowsMap, Filling, Joining
    <3> QED  BY <3>1, <3>2, <3>3, <3>4, <3>5
  <2> QED  BY <1>5, <1>10, <2>1, <2>2 DEF CloseDb, At
<1>11. CASE CheckMember(t)
  <2>1. CASE pc[t] = "check" /\ Goto(t, "reopen")
             /\ job' = [job EXCEPT ![t].look = 3]
    <3>1. job'[t] = [job[t] EXCEPT !.look = 3] /\ pc'[t] = "reopen"
      BY <2>1 DEF Goto, TypeInv, TypeOK
    <3>2. SameJob(job'[t], job[t]) /\ job'[t].look = 3
      BY <1>1, <3>1, 3 \in 1..3, SetLook DEF SameJob
    <3>3. job[t].op = "join"  BY <1>1, <2>1 DEF KnowsAt
    <3>4. KnowsMap("reopen", job'[t])
      BY <1>1, <2>1, <3>2, <3>3 DEF KnowsMap, SameJob, Filling
    <3> QED  BY <1>3, <3>1, <3>4
  <2> QED  BY <1>5, <1>11, <2>1 DEF CheckMember, At
<1>12. CASE InsertGroup(t)
  <2>0. pc[t] = "insert" /\ job[t].op = "create"
    BY <1>1, <1>12 DEF InsertGroup, At, KnowsAt
  <2>1. ASSUME NEW g \in Gid, ~InTable(g), Goto(t, "cache"),
               job' = [job EXCEPT ![t].gid = g]
        PROVE  KnowsMap(pc[t], job[t])'
    <3>1. job'[t] = [job[t] EXCEPT !.gid = g] /\ pc'[t] = "cache"
      BY <2>1 DEF Goto, TypeInv, TypeOK
    <3>2. /\ job'[t].op = job[t].op /\ job'[t].uid = job[t].uid
          /\ job'[t].who = job[t].who /\ job'[t].gid = g
          /\ job'[t].named = job[t].named /\ job'[t].todo = job[t].todo
      BY <1>1, <3>1, SetGid
    <3>3. ~InMap(g)  BY <2>1 DEF MapInv, ToldInv
    <3>4. ~InMap(g)'  BY <1>12, <3>3 DEF InsertGroup, InMap
    <3>5. job'[t].who = job'[t].uid /\ ToSet(job'[t].named) \subseteq ToSet(job'[t].todo)
      BY <1>1, <2>0, <3>2 DEF KnowsMap
    <3>6. KnowsMap("cache", job'[t])
      BY <2>0, <3>2, <3>3, <3>5 DEF KnowsMap, Filling, Joining
    <3> QED  BY <1>2, <3>1, <3>2, <3>4, <3>6, MapKnown DEF KnowsMap, InMap, Cached
  <2>2. ASSUME UNCHANGED job, Goto(t, "close")
        PROVE  KnowsMap(pc[t], job[t])'
    <3>1. pc'[t] = "close" /\ job'[t] = job[t]  BY <1>6, <2>2
    <3>2. job[t].gid = NoGid  BY <1>1, <2>0 DEF KnowsMap
    <3> QED  BY <1>1, <1>3, <2>0, <3>1, <3>2 DEF KnowsMap, Filling, Joining
  <2> QED  BY <1>12, <2>1, <2>2 DEF InsertGroup
<1>13. CASE NextMember(t)
  <2>0. pc[t] = "next" /\ job[t].op = "create"
    BY <1>1, <1>13 DEF NextMember, At, KnowsAt
  <2>1. CASE job[t].todo = <<>> /\ Goto(t, "close") /\ UNCHANGED job
    <3>1. pc'[t] = "close" /\ job'[t] = job[t]  BY <1>6, <2>1
    <3>2. ToSet(job[t].todo) = {}  BY <2>1 DEF ToSet
    <3>3. ToSet(job[t].named) \subseteq Cached(job[t].gid)
      BY <1>1, <2>0, <3>2 DEF KnowsMap, Filling, Adding
    <3> QED  BY <1>1, <1>3, <2>0, <3>1, <3>3 DEF KnowsMap, Filling, Joining
  <2>2. CASE /\ job[t].todo # <<>> /\ Head(job[t].todo) # NoUid
             /\ job' = [job EXCEPT ![t] = [@ EXCEPT !.who = Head(job[t].todo),
                                                    !.todo = Tail(job[t].todo)]]
             /\ Goto(t, IF Head(job[t].todo) = job[t].uid THEN "next" ELSE "row_read")
    <3> DEFINE h == Head(job[t].todo)
               r == Tail(job[t].todo)
    <3>1. job[t].todo \in Seq(Uid \union {NoUid})  BY <1>1 DEF Jobs
    <3>2. h \in Uid /\ r \in Seq(Uid \union {NoUid})  BY <2>2, <3>1
    <3>3. ToSet(job[t].todo) \subseteq {h} \union ToSet(r)
      BY <2>2, <3>1, HeadOrTail
    <3>4. job'[t] = [job[t] EXCEPT !.who = h, !.todo = r]
      BY <2>2 DEF TypeInv, TypeOK
    <3>5. pc'[t] = IF h = job[t].uid THEN "next" ELSE "row_read"
      BY <2>2 DEF Goto, TypeInv, TypeOK
    <3> HIDE DEF h, r
    <3>6. /\ job'[t].who = h /\ job'[t].todo = r /\ job'[t].op = "create"
          /\ job'[t].uid = job[t].uid /\ job'[t].gid = job[t].gid
          /\ job'[t].named = job[t].named
      BY <1>1, <2>0, <3>2, <3>4 DEF Jobs
    <3>7. /\ InMap(job[t].gid) /\ job[t].uid \in Cached(job[t].gid)
          /\ \A u \in ToSet(job[t].named) :
                u \in Cached(job[t].gid) \/ u \in ToSet(job[t].todo)
      BY <1>1, <2>0 DEF KnowsMap, Filling, Adding
    <3>8. CASE h = job[t].uid
      BY <1>3, <3>3, <3>5, <3>6, <3>7, <3>8 DEF KnowsMap, Adding
    <3>9. CASE h # job[t].uid
      BY <1>3, <3>3, <3>5, <3>6, <3>7, <3>9 DEF KnowsMap, Adding
    <3> QED  BY <3>8, <3>9
  <2> QED  BY <1>13, <2>1, <2>2 DEF NextMember
<1>14. CASE ReadRow(t)
  <2>0. pc[t] = "row_read" /\ job[t].op \in {"create", "join"} /\ job[t].gid \in Gid
    BY <1>1, <1>14 DEF ReadRow, At, KnowsAt
  <2>1. CASE UNCHANGED job /\ AfterRow(t)
    <3>1. /\ pc'[t] = IF job[t].op = "create" THEN "push" ELSE "list_read"
          /\ job'[t] = job[t] /\ SameJob(job[t], job[t])
      BY <1>6, <2>1 DEF AfterRow
    <3>2. job[t].op = "join" => job[t].look = 3
      BY <1>1, <2>0 DEF KnowsMap, Joining
    <3>3. KnowsMap(pc'[t], job[t])
      BY <1>1, <2>0, <3>1, <3>2, KnowsOn DEF Filling, Joining, Adding
    <3> QED  BY <1>3, <2>0, <3>1, <3>3
  <2>2. CASE Goto(t, "row_write")
             /\ job' = [job EXCEPT ![t].row = groupMember[job[t].gid]]
    <3>0. groupMember[job[t].gid] \in Seq(Uid)
      BY <2>0 DEF TypeInv, TypeOK
    <3>1. /\ job'[t] = [job[t] EXCEPT !.row = groupMember[job[t].gid]]
          /\ pc'[t] = "row_write"
      BY <2>2 DEF Goto, TypeInv, TypeOK
    <3>2. SameJob(job'[t], job[t]) /\ job'[t].look = job[t].look
      BY <1>1, <3>0, <3>1, SetRow DEF SameJob
    <3>3. job[t].op = "join" => job[t].look = 3
      BY <1>1, <2>0 DEF KnowsMap, Joining
    <3>4. KnowsMap("row_write", job'[t])
      BY <1>1, <2>0, <3>2, <3>3, KnowsOn DEF Filling, Joining, Adding
    <3> QED  BY <1>3, <3>1, <3>4
  <2> QED  BY <1>14, <2>1, <2>2 DEF ReadRow
<1>15. CASE WriteRow(t)
  <2>0. pc[t] = "row_write" /\ job[t].op \in {"create", "join"}
    BY <1>1, <1>15 DEF WriteRow, At, KnowsAt
  <2>1. /\ pc'[t] = IF job[t].op = "create" THEN "push" ELSE "list_read"
        /\ job'[t] = job[t] /\ SameJob(job[t], job[t])
    BY <1>6, <1>15 DEF WriteRow, AfterRow
  <2>2. job[t].op = "join" => job[t].look = 3
    BY <1>1, <2>0 DEF KnowsMap, Joining
  <2>3. KnowsMap(pc'[t], job[t])
    BY <1>1, <2>0, <2>1, <2>2, KnowsOn DEF Filling, Joining, Adding
  <2> QED  BY <1>3, <2>0, <2>1, <2>3
<1>16. CASE ReadList(t)
  <2>0. pc[t] = "list_read" /\ job[t].op \in {"create", "join"} /\ job[t].gid \in Gid
        /\ job[t].who \in Uid
    BY <1>1, <1>16 DEF ReadList, At, KnowsAt
  <2>1. CASE UNCHANGED job /\ AfterList(t)
    <3>1. /\ pc'[t] = IF job[t].op = "create" THEN "next" ELSE "close"
          /\ job'[t] = job[t] /\ SameJob(job[t], job[t])
      BY <1>6, <2>1 DEF AfterList
    <3>3. KnowsMap(pc'[t], job[t])
      BY <1>1, <2>0, <3>1, KnowsOn DEF Filling, Joining, Adding
    <3> QED  BY <1>3, <2>0, <3>1, <3>3
  <2>2. CASE Goto(t, "list_write")
             /\ job' = [job EXCEPT ![t].list = groupList[job[t].who]]
    <3>0. groupList[job[t].who] \in Seq(Gid)
      BY <2>0 DEF TypeInv, TypeOK
    <3>1. /\ job'[t] = [job[t] EXCEPT !.list = groupList[job[t].who]]
          /\ pc'[t] = "list_write"
      BY <2>2 DEF Goto, TypeInv, TypeOK
    <3>2. /\ job'[t].op = job[t].op /\ job'[t].uid = job[t].uid
          /\ job'[t].who = job[t].who /\ job'[t].gid = job[t].gid
          /\ job'[t].named = job[t].named /\ job'[t].todo = job[t].todo
          /\ job'[t].look = job[t].look /\ job'[t].list = groupList[job[t].who]
      BY <1>1, <3>0, <3>1, SetList
    <3>3. KnowsMap("list_write", job'[t])
      BY <1>1, <2>0, <3>2 DEF KnowsMap, Filling, Joining, Adding
    <3> QED  BY <1>3, <3>1, <3>3
  <2> QED  BY <1>16, <2>1, <2>2 DEF ReadList
<1>17. CASE WriteList(t)
  <2>0. pc[t] = "list_write" /\ job[t].op \in {"create", "join"}
    BY <1>1, <1>17 DEF WriteList, At, KnowsAt
  <2>1. /\ pc'[t] = IF job[t].op = "create" THEN "next" ELSE "close"
        /\ job'[t] = job[t] /\ SameJob(job[t], job[t])
    BY <1>6, <1>17 DEF WriteList, AfterList
  <2>3. KnowsMap(pc'[t], job[t])
    BY <1>1, <2>0, <2>1, KnowsOn DEF Filling, Joining, Adding
  <2> QED  BY <1>3, <2>0, <2>1, <2>3
<1>18. CASE ReplyCreate(t) \/ Forward(t)
  BY <1>5, <1>18 DEF ReplyCreate, Forward
<1>19. CASE EmptyMember(t) \/ NoSuchGroup(t) \/ NullHandle(t)
  BY <1>19 DEF EmptyMember, NoSuchGroup, NullHandle, UseNull, Die, Up
<1>20. CASE CacheGroup(t)
  <2>0. pc[t] = "cache" /\ job[t].op = "create" /\ ~InMap(job[t].gid)
        /\ job[t].who = job[t].uid
        /\ ToSet(job[t].named) \subseteq ToSet(job[t].todo)
    BY <1>1, <1>20 DEF CacheGroup, At, KnowsAt, KnowsMap
  <2>1. pc'[t] = "list_read" /\ job'[t] = job[t]
    BY <1>6, <1>20 DEF CacheGroup
  <2>2. InMap(job[t].gid)' /\ Cached(job[t].gid)' = {job[t].uid}
    BY <1>20, <2>0, CacheGroupAdds
  <2>3. InMap(job[t].gid)' /\ Cached(job[t].gid)' = {job'[t].uid}
    BY <2>1, <2>2 DEF InMap, Cached
  <2>4. /\ pc'[t] = "list_read" /\ job'[t].op = "create" /\ job'[t].who = job'[t].uid
        /\ ToSet(job'[t].named) \subseteq ToSet(job'[t].todo)
    BY <2>0, <2>1
  <2> QED  BY <2>3, <2>4 DEF KnowsMap, Filling, Adding
<1>21. CASE PushMember(t)
  <2>0. pc[t] = "push" /\ job[t].op \in {"create", "join"}
    BY <1>1, <1>21 DEF PushMember, At, KnowsAt
  <2>1. /\ pc'[t] = IF job[t].op = "create" THEN "list_read" ELSE "forward"
        /\ job'[t] = job[t]
    BY <1>6, <1>21 DEF PushMember
  <2>2. job[t].op = "join" => job[t].who = job[t].uid
    BY <1>1 DEF KnowsMap
  <2>3. CASE InMap(job[t].gid)
    <3>1. /\ InMap(job[t].gid)' /\ job[t].gid \in Gid
          /\ Cached(job[t].gid)' = Cached(job[t].gid) \union {job[t].who}
      BY <1>21, <2>3, PushMemberAdds
    <3>2. job[t].op = "create" => /\ job[t].uid \in Cached(job[t].gid)
              /\ \A u \in ToSet(job[t].named) :
                    u \in Cached(job[t].gid) \/ u \in ToSet(job[t].todo) \/ u = job[t].who
      BY <1>1, <2>0 DEF KnowsMap, Filling
    <3>3. CASE job[t].op = "create"
      BY <2>1, <3>1, <3>2, <3>3 DEF KnowsMap, Filling, Adding
    <3>4. CASE job[t].op = "join"
      BY <2>1, <2>2, <3>1, <3>4 DEF KnowsMap, Filling, Adding, Joining
    <3> QED  BY <2>0, <3>3, <3>4
  <2>4. CASE ~InMap(job[t].gid)
    <3>1. job[t].op = "join"
      BY <1>1, <2>0, <2>4 DEF KnowsMap, Filling
    <3>2. <<job[t].gid, job[t].who>> \in early'
      BY <1>21, <2>4 DEF PushMember
    <3> QED
      BY <2>1, <2>2, <3>1, <3>2 DEF KnowsMap, Filling, Adding, Joining
  <2> QED  BY <2>3, <2>4
<1> QED
  BY <1>4, <1>7, <1>8, <1>9, <1>10, <1>11, <1>12, <1>13, <1>14, <1>15, <1>16, <1>17,
     <1>18, <1>19, <1>20, <1>21 DEF Work

LEMMA StepThreadsInv ==
  ASSUME TypeInv, ListInv, MapInv,
         NEW t \in Thread, Request(t) \/ Work(t), Up, Up'
  PROVE  ThreadsInv'
<1>1. ASSUME NEW x \in Thread, x # t
      PROVE  /\ pc'[x] = pc[x] /\ job'[x] = job[x] /\ job[x] \in Jobs
             /\ KnowsAt(pc[x], job[x]) /\ KnowsMap(pc[x], job[x])
  BY <1>1, OthersStay DEF TypeInv, TypeOK, Knows, MapInv, ThreadsInv
<1>2. ASSUME NEW x \in Thread, x # t, pc[x] = "cache" PROVE ~InMap(job[x].gid)'
  <2>1. job[x].gid \in Gid /\ ~InMap(job[x].gid)
    BY <1>1, <1>2 DEF KnowsAt, KnowsMap
  <2>2. UNCHANGED groupInfo => ~InMap(job[x].gid)'
    BY <1>1, <1>2, <2>1 DEF InMap
  <2>3. CASE CacheGroup(t) /\ ~InMap(job[t].gid)
    <3>1. job[t].gid # job[x].gid
      BY <1>2, <2>3 DEF CacheGroup, At, MapInv, ThreadsInv
    <3> QED  BY <1>1, <1>2, <2>1, <2>3, <3>1, CacheGroupAdds DEF InMap
  <2>4. CASE PushMember(t) /\ InMap(job[t].gid)
    BY <1>1, <1>2, <2>1, <2>4, PushMemberAdds DEF InMap
  <2>5. CASE CacheGroup(t) /\ InMap(job[t].gid)  BY <2>2, <2>5 DEF CacheGroup
  <2>6. CASE PushMember(t) /\ ~InMap(job[t].gid)  BY <2>2, <2>6 DEF PushMember
  <2> QED  BY <2>2, <2>3, <2>4, <2>5, <2>6, MapWriters
<1>3. ASSUME NEW x \in Thread PROVE KnowsMap(pc[x], job[x])'
  <2>1. CASE x = t  BY <2>1, StepKnows
  <2>2. CASE x # t
    <3>1. pc[x] = "cache" => ~InMap(job[x].gid)'  BY <1>2, <2>2
    <3>2. /\ job'[x] \in Jobs /\ KnowsAt(pc'[x], job'[x])
          /\ KnowsMap(pc'[x], job'[x])
      BY <1>1, <2>2
    <3>3. pc'[x] = "cache" => groupInfo'[job'[x].gid] = <<>>
      BY <1>1, <2>2, <3>1 DEF InMap
    <3> HIDE DEF Filling, Adding, Joining
    <3> QED  BY <3>2, <3>3, MapKnown DEF KnowsMap, InMap, Cached
  <2> QED  BY <2>1, <2>2
<1>4. ASSUME pc'[t] = "cache", NEW x \in Thread, x # t, pc'[x] = "cache"
      PROVE  job'[t].gid # job'[x].gid
  <2>1. InsertGroup(t)
    <3> USE DEF TypeInv, TypeOK, Goto, Return
    <3>1. CASE Request(t)
      BY <1>4, <3>1, RequestFrame
    <3>2. CASE OpenDb(t) \/ OpenDbFails(t) \/ LookUp(t) \/ CheckMember(t)
      BY <1>4, <3>2 DEF OpenDb, OpenDbFails, LookUp, CheckMember
    <3>3. CASE CloseDb(t)  BY <1>4, <3>3 DEF CloseDb
    <3>4. CASE CacheGroup(t) \/ NextMember(t)
      BY <1>4, <3>4 DEF CacheGroup, NextMember
    <3>5. CASE ReadRow(t) \/ WriteRow(t) \/ PushMember(t) \/ ReadList(t) \/ WriteList(t)
      BY <1>4, <3>5 DEF ReadRow, WriteRow, PushMember, ReadList, WriteList, AfterRow,
         AfterList
    <3>6. CASE ReplyCreate(t) \/ Forward(t)  BY <1>4, <3>6 DEF ReplyCreate, Forward
    <3>7. CASE EmptyMember(t) \/ NoSuchGroup(t) \/ NullHandle(t)
      BY <3>7 DEF EmptyMember, NoSuchGroup, NullHandle, UseNull, Die, Up
    <3> QED  BY <3>1, <3>2, <3>3, <3>4, <3>5, <3>6, <3>7 DEF Work
  <2>2. PICK g \in Gid : ~InTable(g) /\ job' = [job EXCEPT ![t].gid = g]
    BY <1>4, <2>1 DEF InsertGroup, Goto, TypeInv, TypeOK
  <2>3. job'[t].gid = g
    <3>1. job'[t] = [job[t] EXCEPT !.gid = g] /\ job[t] \in Jobs
      BY <2>2 DEF TypeInv, TypeOK
    <3> QED  BY <3>1, SetGid
  <2>4. pc[x] = "cache" /\ job'[x] = job[x]  BY <1>1, <1>4
  <2>5. InTable(job[x].gid)
    BY <1>1, <1>4, <2>4 DEF KnowsAt, ListInv, GroupThere
  <2> QED  BY <2>2, <2>3, <2>4, <2>5
<1>5. ASSUME NEW x \in Thread, NEW y \in Thread, x # y, pc'[x] = "cache", pc'[y] = "cache"
      PROVE  job'[x].gid # job'[y].gid
  <2>1. CASE x # t /\ y # t  BY <1>1, <1>5, <2>1 DEF MapInv, ThreadsInv
  <2>2. CASE x = t \/ y = t  BY <1>4, <1>5, <2>2
  <2> QED  BY <2>1, <2>2
<1> QED  BY <1>3, <1>5 DEF ThreadsInv

\* A member on his way to the map stays on his way until he is there.
LEMMA ReachedStays ==
  ASSUME TypeInv, MapInv, NEW t \in Thread, Request(t) \/ Work(t), Up, Up',
         NEW g \in Gid, NEW u \in Uid, Reached(g, u)
  PROVE  Reached(g, u)'
<1> DEFINE Brings(x) == BringsAt(pc[x], job[x], g, u)
<1>1. /\ u \in Cached(g) => u \in Cached(g)'
      /\ <<g, u>> \in early => <<g, u>> \in early'
  BY MapGrows, EarlyGrows
<1>2. Reached(g, u)' <=> \/ u \in Cached(g)' \/ <<g, u>> \in early'
                        \/ \E x \in Thread : Brings(x)'
  BY DEF Reached
<1>3. ASSUME NEW x \in Thread, x # t, Brings(x) PROVE Brings(x)'
  BY <1>3, OthersStay DEF BringsAt
<1>4. ASSUME Brings(t) PROVE u \in Cached(g)' \/ <<g, u>> \in early' \/ Brings(t)'
  <2>0. /\ job[t].gid = g /\ job[t].who = u
        /\ job[t] \in Jobs /\ KnowsAt(pc[t], job[t]) /\ KnowsMap(pc[t], job[t])
    BY <1>4 DEF BringsAt, TypeInv, TypeOK, Knows, MapInv, ThreadsInv
  <2> USE DEF At, Goto, TypeInv, TypeOK
  <2>1. CASE pc[t] = "cache"
    <3>1. CacheGroup(t)
      BY <2>1, RequestFrame
         DEF Work, OpenDb, OpenDbFails, LookUp, CloseDb, CheckMember, InsertGroup,
         NextMember, EmptyMember, ReadRow, WriteRow, PushMember, ReadList, WriteList,
         ReplyCreate, Forward, NoSuchGroup, NullHandle
    <3>2. ~InMap(g) /\ job[t].uid = u
      BY <2>0, <2>1 DEF KnowsMap
    <3>3. Cached(job[t].gid)' = {job[t].uid} /\ job' = job
      BY <2>0, <3>1, <3>2, CacheGroupAdds
    <3> QED  BY <2>0, <3>2, <3>3 DEF Cached
  <2>2. CASE pc[t] = "push"
    <3>1. PushMember(t)
      BY <2>2, RequestFrame
         DEF Work, OpenDb, OpenDbFails, LookUp, CloseDb, CheckMember, InsertGroup,
         NextMember, EmptyMember, ReadRow, WriteRow, CacheGroup, ReadList, WriteList,
         ReplyCreate, Forward, NoSuchGroup, NullHandle
    <3>2. CASE InMap(g)
      <4>1. Cached(job[t].gid)' = Cached(job[t].gid) \union {job[t].who} /\ job' = job
        BY <2>0, <3>1, <3>2, PushMemberAdds
      <4> QED  BY <2>0, <4>1 DEF Cached
    <3>3. CASE ~InMap(g)  BY <2>0, <3>1, <3>3 DEF PushMember
    <3> QED  BY <3>2, <3>3
  <2>3. CASE job[t].op = "join" /\ job[t].look = 3 /\ pc[t] = "list_read"
    <3>1. ReadList(t)
      BY <2>3, RequestFrame
         DEF Work, OpenDb, OpenDbFails, LookUp, CloseDb, CheckMember, InsertGroup,
         NextMember, EmptyMember, ReadRow, WriteRow, CacheGroup, PushMember, WriteList,
         ReplyCreate, Forward, NoSuchGroup, NullHandle, UseNull, Die, Up
    <3>2. CASE UNCHANGED job /\ AfterList(t)
      BY <2>0, <2>3, <3>2 DEF AfterList, BringsAt
    <3>3. CASE Goto(t, "list_write")
               /\ job' = [job EXCEPT ![t].list = groupList[job[t].who]]
      <4>1. groupList[job[t].who] \in Seq(Gid)  BY <2>0
      <4>2. /\ job'[t] = [job[t] EXCEPT !.list = groupList[job[t].who]]
            /\ pc'[t] = "list_write"
        BY <3>3
      <4>3. /\ job'[t].op = job[t].op /\ job'[t].gid = job[t].gid
            /\ job'[t].who = job[t].who /\ job'[t].look = job[t].look
        BY <2>0, <4>1, <4>2, SetList
      <4> QED  BY <2>0, <2>3, <4>2, <4>3 DEF BringsAt
    <3> QED  BY <3>1, <3>2, <3>3 DEF ReadList
  <2>4. CASE job[t].op = "join" /\ job[t].look = 3 /\ pc[t] = "list_write"
    <3>1. WriteList(t)
      BY <2>4, RequestFrame
         DEF Work, OpenDb, OpenDbFails, LookUp, CloseDb, CheckMember, InsertGroup,
         NextMember, EmptyMember, ReadRow, WriteRow, CacheGroup, PushMember, ReadList,
         ReplyCreate, Forward, NoSuchGroup, NullHandle, UseNull, Die, Up
    <3> QED  BY <2>0, <2>4, <3>1 DEF WriteList, AfterList, BringsAt
  <2>5. CASE job[t].op = "join" /\ job[t].look = 3 /\ pc[t] = "close"
    <3>1. CloseDb(t)
      BY <2>5, RequestFrame
         DEF Work, OpenDb, OpenDbFails, LookUp, CheckMember, InsertGroup,
         NextMember, EmptyMember, ReadRow, WriteRow, CacheGroup, PushMember, ReadList,
         WriteList, ReplyCreate, Forward, NoSuchGroup, NullHandle
    <3>2. ~GivesUp(job[t])  BY <2>5 DEF GivesUp
    <3>3. pc'[t] = "push" /\ job'[t] = job[t]
      BY <2>5, <3>1, <3>2 DEF CloseDb
    <3> QED  BY <2>0, <3>3 DEF BringsAt
  <2> QED  BY <1>4, <2>1, <2>2, <2>3, <2>4, <2>5 DEF BringsAt
<1> HIDE DEF Brings
<1>5. u \in Cached(g) \/ <<g, u>> \in early \/ \E x \in Thread : Brings(x)
  BY DEF Reached, Brings
<1> QED  BY <1>1, <1>2, <1>3, <1>4, <1>5

\* Only the answers tell anybody anything.
LEMMA ToldWriters ==
  ASSUME NEW t \in Thread, Request(t) \/ Work(t), Up', ~Forward(t), ~ReplyCreate(t)
  PROVE  UNCHANGED told
<1>1. CASE Request(t)
  BY <1>1, RequestFrame
<1>2. CASE Work(t)
  BY <1>2 DEF Work, OpenDb, OpenDbFails, LookUp, CloseDb, CheckMember, InsertGroup,
     CacheGroup, NextMember, ReadRow, WriteRow, PushMember, ReadList, WriteList,
     EmptyMember, NoSuchGroup, NullHandle, UseNull, Die, Up
<1> QED  BY <1>1, <1>2

LEMMA StepToldInv ==
  ASSUME TypeInv, ListInv, MapInv, NEW t \in Thread, Request(t) \/ Work(t), Up, Up'
  PROVE  ToldInv'
<1>1. job[t] \in Jobs /\ KnowsAt(pc[t], job[t]) /\ KnowsMap(pc[t], job[t])
  BY DEF TypeInv, TypeOK, Knows, MapInv, ThreadsInv
<1>2. ASSUME NEW g \in Gid, InMap(g)' PROVE InTable(g)'
  <2>1. InMap(g) => InTable(g)  BY DEF MapInv, ToldInv
  <2>2. InTable(g) => InTable(g)'  BY RowsStay
  <2>3. ~InMap(g) => InTable(g)
    <3>1. ASSUME ~InMap(g) PROVE CacheGroup(t) /\ g = job[t].gid
      <4>1. CASE UNCHANGED groupInfo  BY <1>2, <3>1, <4>1 DEF InMap
      <4>2. CASE PushMember(t)
        <5>1. InMap(job[t].gid) => g # job[t].gid  BY <3>1
        <5> QED
          BY <1>2, <3>1, <4>1, <4>2, <5>1, PushMemberAdds DEF PushMember, InMap
      <4>3. CASE CacheGroup(t)
        BY <1>2, <3>1, <4>1, <4>3, CacheGroupAdds DEF CacheGroup, InMap
      <4> QED  BY <4>1, <4>2, <4>3, MapWriters
    <3>2. CacheGroup(t) => InTable(job[t].gid)
      BY <1>1 DEF CacheGroup, At, KnowsAt, ListInv, GroupThere
    <3> QED  BY <3>1, <3>2
  <2> QED  BY <2>1, <2>2, <2>3
<1>3. ASSUME NEW q \in told' \ early' PROVE q[2] \in Cached(q[1])'
  <2>0. q \notin early /\ early \subseteq early'  BY <1>3, EarlyGrows
  <2>1. told \subseteq Gid \X Uid  BY DEF TypeInv, TypeOK
  <2>2. ASSUME q \in told PROVE q[2] \in Cached(q[1])'
    <3>1. q[1] \in Gid /\ q[2] \in Cached(q[1])
      BY <2>0, <2>1, <2>2 DEF MapInv, ToldInv
    <3>2. Cached(q[1]) \subseteq Cached(q[1])'  BY <3>1, MapGrows
    <3> QED  BY <3>1, <3>2
  <2>3. CASE Forward(t)
    <3>1. CASE q \in told  BY <2>2, <3>1
    <3>2. CASE q = <<job[t].gid, job[t].uid>> /\ job[t].op = "join"
      <4>1. job[t].uid \in Cached(job[t].gid)
        BY <1>1, <2>0, <2>3, <3>2 DEF Forward, At, KnowsMap
      <4>2. UNCHANGED groupInfo  BY <2>3 DEF Forward
      <4>3. q[1] = job[t].gid /\ q[2] = job[t].uid  BY <3>2
      <4> QED  BY <4>1, <4>2, <4>3 DEF Cached
    <3> QED  BY <1>3, <2>3, <3>1, <3>2 DEF Forward
  <2>4. CASE ReplyCreate(t)
    <3>1. CASE q \in told  BY <2>2, <3>1
    <3>2. CASE q \in {job[t].gid} \X ToSet(job[t].named)
      <4>1. job[t].op = "create" /\ job[t].gid \in Gid /\ pc[t] = "reply"
        BY <1>1, <2>4 DEF ReplyCreate, At, KnowsAt
      <4>2. ToSet(job[t].named) \subseteq Cached(job[t].gid)
        BY <1>1, <4>1, GidAssumption DEF KnowsMap
      <4>3. UNCHANGED groupInfo  BY <2>4 DEF ReplyCreate
      <4>4. q[1] = job[t].gid /\ q[2] \in ToSet(job[t].named)  BY <3>2
      <4> QED  BY <4>2, <4>3, <4>4 DEF Cached
    <3> QED  BY <1>3, <2>4, <3>1, <3>2 DEF ReplyCreate
  <2>5. CASE ~Forward(t) /\ ~ReplyCreate(t)
    <3>1. UNCHANGED told
      BY <2>5, ToldWriters
    <3> QED  BY <1>3, <2>2, <3>1
  <2> QED  BY <2>3, <2>4, <2>5
<1> QED  BY <1>2, <1>3 DEF ToldInv

LEMMA StepLoadedInv ==
  ASSUME TypeInv, ListInv, MapInv, NEW t \in Thread, Request(t) \/ Work(t), Up, Up',
         loaded
  PROVE  LoadedInv'
<1>1. job[t] \in Jobs /\ KnowsAt(pc[t], job[t]) /\ KnowsMap(pc[t], job[t])
  BY DEF TypeInv, TypeOK, Knows, MapInv, ThreadsInv
<1>2. \A g \in Gid : InMap(g) => InMap(g)'  BY MapGrows
<1>3. ASSUME NEW g \in Gid, InTable(g)' PROVE InMap(g)' \/ Creating(g)'
  <2>1. CASE InTable(g)
    <3>1. CASE InMap(g)  BY <1>2, <3>1
    <3>2. ASSUME NEW x \in Thread, pc[x] = "cache", job[x].gid = g
          PROVE  InMap(g)' \/ Creating(g)'
      <4>1. CASE x # t
        <5>1. pc'[x] = "cache" /\ job'[x].gid = g  BY <3>2, <4>1, OthersStay
        <5> QED  BY <5>1 DEF Creating
      <4>2. CASE x = t
        <5>1. CacheGroup(t)
          BY <3>2, <4>2, RequestFrame
             DEF Work, OpenDb, OpenDbFails, LookUp, CloseDb, CheckMember, InsertGroup,
             NextMember, EmptyMember, ReadRow, WriteRow, PushMember, ReadList,
             WriteList, ReplyCreate, Forward, NoSuchGroup, NullHandle, At
        <5>2. ~InMap(job[t].gid)  BY <1>1, <3>2, <4>2 DEF KnowsMap
        <5>3. InMap(job[t].gid)' /\ job' = job  BY <5>1, <5>2, CacheGroupAdds
        <5> QED  BY <3>2, <4>2, <5>3 DEF InMap
      <4> QED  BY <4>1, <4>2
    <3> QED  BY <2>1, <3>1, <3>2 DEF MapInv, LoadedInv, Creating
  <2>2. CASE InsertGroup(t) /\ ~InTable(g)
    <3>1. PICK h \in Gid : /\ groupMember' = [groupMember EXCEPT ![h] = <<job[t].uid>>]
                           /\ job' = [job EXCEPT ![t].gid = h]
                           /\ Goto(t, "cache")
      BY <1>3, <2>2 DEF InsertGroup, InTable
    <3>2. g = h  BY <1>3, <2>2, <3>1 DEF InTable, TypeInv, TypeOK
    <3>3. job'[t] = [job[t] EXCEPT !.gid = g] /\ pc'[t] = "cache"
      BY <3>1, <3>2 DEF Goto, TypeInv, TypeOK
    <3>4. job'[t].gid = g  BY <1>1, <3>3, SetGid
    <3> QED  BY <3>3, <3>4 DEF Creating
  <2>3. CASE WriteRow(t) /\ ~InTable(g)
    <3>1. job[t].op \in {"create", "join"} /\ pc[t] = "row_write"
      BY <1>1, <2>3 DEF WriteRow, At, KnowsAt
    <3>2. InTable(job[t].gid)  BY <3>1 DEF ListInv, GroupThere
    <3>3. groupMember'[g] = groupMember[g]
      BY <2>3, <3>2 DEF WriteRow, TypeInv, TypeOK
    <3> QED  BY <1>3, <2>3, <3>3 DEF InTable
  <2> QED  BY <1>3, <2>1, <2>2, <2>3, OnlyWriters DEF InTable
<1>4. ASSUME NEW g \in Gid, NEW u \in Uid, Reached(g, u) PROVE Reached(g, u)'
  BY <1>4, ReachedStays
<1>5. ASSUME NEW g \in Gid, NEW u \in ToSet(groupMember'[g]) PROVE Reached(g, u)'
  <2>1. groupMember[g] \in Seq(Uid)  BY DEF TypeInv, TypeOK
  <2>2. ASSUME u \in ToSet(groupMember[g]) PROVE Reached(g, u)'
    <3>1. u \in Uid  BY <2>1, <2>2, ToSetType
    <3> QED  BY <1>4, <2>2, <3>1 DEF MapInv, LoadedInv
  <2>3. CASE InsertGroup(t)
    <3>1. CASE groupMember'[g] = groupMember[g]  BY <1>5, <2>2, <3>1
    <3>2. CASE groupMember'[g] # groupMember[g]
      <4>1. PICK h \in Gid : /\ groupMember' = [groupMember EXCEPT ![h] = <<job[t].uid>>]
                             /\ job' = [job EXCEPT ![t].gid = h]
                             /\ Goto(t, "cache")
        BY <2>3, <3>2 DEF InsertGroup
      <4>2. g = h /\ groupMember'[g] = <<job[t].uid>>
        BY <3>2, <4>1 DEF TypeInv, TypeOK
      <4>3. u = job[t].uid
        BY <1>5, <4>2 DEF ToSet
      <4>4. job'[t] = [job[t] EXCEPT !.gid = g] /\ pc'[t] = "cache"
        BY <4>1, <4>2 DEF Goto, TypeInv, TypeOK
      <4>5. job'[t].gid = g /\ job'[t].who = job[t].who
        BY <1>1, <4>4, SetGid
      <4>6. job[t].who = job[t].uid
        BY <1>1, <2>3 DEF InsertGroup, At, KnowsMap
      <4>7. BringsAt(pc[t], job[t], g, u)'
        BY <4>3, <4>4, <4>5, <4>6 DEF BringsAt
      <4> QED  BY <4>7 DEF Reached
    <3> QED  BY <3>1, <3>2
  <2>4. CASE WriteRow(t)
    <3>0. /\ pc[t] = "row_write" /\ job[t].row \in Seq(Uid) /\ job[t].who \in Uid
          /\ job[t].op \in {"create", "join"} /\ job[t].gid \in Gid
      BY <1>1, <2>4 DEF WriteRow, At, KnowsAt, Jobs
    <3>1. CASE groupMember'[g] = groupMember[g]  BY <1>5, <2>2, <3>1
    <3>2. CASE groupMember'[g] # groupMember[g]
      <4>1. g = job[t].gid /\ groupMember'[g] = Append(job[t].row, job[t].who)
        BY <2>4, <3>0, <3>2 DEF WriteRow, TypeInv, TypeOK
      <4>2. u \in ToSet(job[t].row) \/ u = job[t].who
        BY <1>5, <3>0, <4>1, AppendToSet
      <4>3. CASE u \in ToSet(job[t].row)
        <5>1. u \in Uid  BY <3>0, <4>3, ToSetType
        <5>2. Reached(g, u)  BY <3>0, <4>1, <4>3 DEF MapInv, LoadedInv
        <5> QED  BY <1>4, <5>1, <5>2
      <4>4. CASE u = job[t].who
        <5>1. /\ pc'[t] = IF job[t].op = "create" THEN "push" ELSE "list_read"
              /\ job'[t] = job[t]
          BY <2>4 DEF WriteRow, AfterRow, Goto, TypeInv, TypeOK
        <5>2. job[t].op = "join" => job[t].look = 3
          BY <1>1, <3>0 DEF KnowsMap, Joining
        <5>3. BringsAt(pc[t], job[t], g, u)'
          BY <3>0, <4>1, <4>4, <5>1, <5>2 DEF BringsAt
        <5> QED  BY <5>3 DEF Reached
      <4> QED  BY <4>2, <4>3, <4>4
    <3> QED  BY <3>1, <3>2
  <2>5. CASE ~InsertGroup(t) /\ ~WriteRow(t)
    BY <1>5, <2>2, <2>5, OnlyWriters
  <2> QED  BY <2>3, <2>4, <2>5
<1>6. ASSUME NEW x \in Thread, pc'[x] = "row_write", NEW u \in ToSet(job'[x].row)
      PROVE  Reached(job[x].gid, u)'
  <2>1. ASSUME NEW g \in Gid, job'[x].gid = g, Reached(g, u)' PROVE Reached(job[x].gid, u)'
    BY <2>1 DEF Reached, Cached, BringsAt
  <2>2. CASE x # t
    <3>1. pc[x] = "row_write" /\ job'[x] = job[x]  BY <1>6, <2>2, OthersStay
    <3>2. job[x].gid \in Gid /\ job[x].row \in Seq(Uid)
      BY <3>1 DEF TypeInv, TypeOK, Knows, KnowsAt, Jobs
    <3>3. u \in Uid  BY <1>6, <3>1, <3>2, ToSetType
    <3>4. Reached(job[x].gid, u)  BY <1>6, <3>1 DEF MapInv, LoadedInv
    <3> QED  BY <1>4, <2>1, <3>1, <3>2, <3>3, <3>4
  <2>3. CASE x = t
    <3>1. ReadRow(t)
      <4> USE DEF TypeInv, TypeOK, Goto, Return
      <4>1. CASE Request(t)
        BY <1>6, <2>3, <4>1, RequestFrame
      <4>2. CASE OpenDb(t) \/ OpenDbFails(t) \/ LookUp(t) \/ CheckMember(t)
        BY <1>6, <2>3, <4>2 DEF OpenDb, OpenDbFails, LookUp, CheckMember
      <4>3. CASE CloseDb(t)  BY <1>6, <2>3, <4>3 DEF CloseDb
      <4>4. CASE InsertGroup(t) \/ CacheGroup(t) \/ NextMember(t)
        BY <1>6, <2>3, <4>4 DEF InsertGroup, CacheGroup, NextMember
      <4>5. CASE WriteRow(t) \/ PushMember(t) \/ ReadList(t) \/ WriteList(t)
        BY <1>6, <2>3, <4>5 DEF WriteRow, PushMember, ReadList, WriteList, AfterRow,
           AfterList
      <4>6. CASE ReplyCreate(t) \/ Forward(t)
        BY <1>6, <2>3, <4>6 DEF ReplyCreate, Forward
      <4>7. CASE EmptyMember(t) \/ NoSuchGroup(t) \/ NullHandle(t)
        BY <4>7 DEF EmptyMember, NoSuchGroup, NullHandle, UseNull, Die, Up
      <4> QED  BY <4>1, <4>2, <4>3, <4>4, <4>5, <4>6, <4>7 DEF Work
    <3>2. job[t].gid \in Gid /\ groupMember[job[t].gid] \in Seq(Uid)
      BY <1>1, <3>1 DEF ReadRow, At, KnowsAt, TypeInv, TypeOK
    <3>3. job' = [job EXCEPT ![t].row = groupMember[job[t].gid]]
      <4>1. ~AfterRow(t)
        BY <1>6, <2>3 DEF AfterRow, Goto, TypeInv, TypeOK
      <4> QED  BY <3>1, <4>1 DEF ReadRow
    <3>4. job'[t] = [job[t] EXCEPT !.row = groupMember[job[t].gid]]
      BY <3>3 DEF TypeInv, TypeOK
    <3>5. job'[t].gid = job[t].gid /\ job'[t].row = groupMember[job[t].gid]
      BY <1>1, <3>2, <3>4, SetRow
    <3>6. u \in ToSet(groupMember[job[t].gid]) /\ UNCHANGED groupMember
      BY <1>6, <2>3, <3>1, <3>5 DEF ReadRow
    <3>7. Reached(job[t].gid, u) /\ u \in Uid
      BY <3>2, <3>6, ToSetType DEF MapInv, LoadedInv
    <3> QED  BY <1>4, <2>1, <2>3, <3>2, <3>5, <3>7
  <2> QED  BY <2>2, <2>3
<1> QED  BY <1>3, <1>5, <1>6 DEF LoadedInv

LEMMA NextMapInv ==
  ASSUME TypeInv, ListInv, MapInv, [GroupNext]_vars PROVE MapInv'
<1>1. CASE UNCHANGED vars \/ Served
  <2>1. UNCHANGED vars  BY <1>1 DEF Served
  <2> USE DEF vars, InMap, InTable, Up, dbVars
  <2>2. ToldInv'  BY <2>1 DEF MapInv, ToldInv, Cached
  <2>3. ThreadsInv'
    BY <2>1 DEF MapInv, ThreadsInv, KnowsMap, Cached, Filling, Adding, Joining
  <2>4. LoadedInv'
    BY <2>1 DEF MapInv, LoadedInv, Reached, BringsAt, Cached, Creating
  <2> QED  BY <2>2, <2>3, <2>4 DEF MapInv
<1>2. ASSUME NEW t \in Thread, Request(t) \/ Work(t), Up' PROVE MapInv'
  <2>1. Up  BY <1>2, LivesOrDies
  <2>2. ToldInv' /\ ThreadsInv'  BY <1>2, <2>1, StepToldInv, StepThreadsInv
  <2>3. LoadedInv'
    <3>1. CASE loaded  BY <1>2, <2>1, <3>1, StepLoadedInv
    <3>2. CASE ~loaded  BY <1>2, <3>2, LoadedStays DEF LoadedInv
    <3> QED  BY <3>1, <3>2
  <2> QED  BY <2>2, <2>3 DEF MapInv
<1>3. ASSUME NEW t \in Thread, Request(t) \/ Work(t), ~Up' PROVE MapInv'
  <2>1. LoseMemory  BY <1>3, LivesOrDies
  <2>2. ToldInv'  BY <2>1 DEF LoseMemory, ToldInv, InMap
  <2>3. ThreadsInv'
    BY <2>1 DEF LoseMemory, ThreadsInv, KnowsMap, NoJob, NewJob, Filling, Joining
  <2>4. LoadedInv'  BY <1>3 DEF LoadedInv
  <2> QED  BY <2>2, <2>3, <2>4 DEF MapInv
<1>4. CASE Restart
  <2>0. /\ ~Up /\ Up' /\ told = {} /\ \A t \in Thread : pc[t] = "idle"
        /\ \A t \in Thread : KnowsMap(pc[t], job[t])
        /\ UNCHANGED <<groupMember, groupList, pc, job, told>>
    BY <1>4 DEF Restart, Reboot, Up, MapInv, ToldInv, ThreadsInv
  <2>1. ToldInv'
    <3>1. \A g \in Gid : InMap(g) => InTable(g)  BY DEF MapInv, ToldInv
    <3>2. \A g \in Gid : InMap(g)' => InTable(g)'
      BY <1>4, <3>1 DEF Restart, AllGroups, InMap, InTable
    <3> QED  BY <2>0, <3>2 DEF ToldInv
  <2>2. ThreadsInv'
    BY <2>0 DEF ThreadsInv, KnowsMap, Filling, Joining
  <2>3. LoadedInv'
    <3> SUFFICES ASSUME loaded' PROVE LoadedInv'  BY DEF LoadedInv
    <3>1. groupInfo' = groupMember  BY <1>4 DEF Restart, AllGroups
    <3>2. \A g \in Gid : InTable(g)' => InMap(g)'
      BY <2>0, <3>1 DEF InTable, InMap
    <3>3. \A g \in Gid : \A u \in ToSet(groupMember'[g]) : Reached(g, u)'
      BY <2>0, <3>1 DEF Reached, Cached
    <3> QED  BY <2>0, <3>2, <3>3 DEF LoadedInv
  <2> QED  BY <2>1, <2>2, <2>3 DEF MapInv
<1> QED  BY <1>1, <1>2, <1>3, <1>4 DEF GroupNext

LEMMA MapInvHolds == GroupSpec => [](TypeInv /\ ListInv /\ MapInv)
BY InitTypeInv, NextTypeInv, InitListInv, NextListInv, InitMapInv, NextMapInv, PTL
   DEF GroupSpec

\* Whatever interleaves and fails, a message to a group reaches everyone who was
\* answered "success", and while group_info is loaded all members in chat_group
\* but those whose handler is still on its way to list_add_new_group or
\* list_update_group_member_by_gid, and those pushed before the map had the group.
THEOREM MembersAreCached == GroupSpec => []MembersCached
<1>1. MapInv => MembersCached
  <2> SUFFICES ASSUME MapInv PROVE MembersCached  OBVIOUS
  <2>1. \A p \in told \ early : p[2] \in ToSet(groupInfo[p[1]])
    BY DEF MapInv, ToldInv, Cached
  <2>2. ASSUME Up, loaded, NEW g \in Gid, NEW u \in ToSet(groupMember[g])
        PROVE  \/ u \in ToSet(groupInfo[g]) \/ <<g, u>> \in early
               \/ \E t \in Thread : Bringing(t, g, u)
    <3>1. Reached(g, u)  BY <2>2 DEF MapInv, LoadedInv
    <3> QED  BY <3>1 DEF Reached, BringsAt, Cached, Bringing
  <2> QED  BY <2>1, <2>2 DEF MembersCached
<1> QED  BY <1>1, MapInvHolds, PTL

\* A push is lost and map::at throws only for a group whose creation stands
\* between its row and its entry in the map, or if the server came up without
\* its groups because the query of server_update_group_info failed: every group
\* a client can find has a row, and a row without an entry has its creator there.
THEOREM MapMissesOnlyEarly == GroupSpec => MapMissedOnlyEarly
<1>1. TypeInv /\ ListInv /\ MapInv =>
         \A t \in Thread :
            (PushMember(t) \/ NoSuchGroup(t)) /\ ~InMap(job[t].gid)
            => ~loaded \/ Creating(job[t].gid)
  <2> SUFFICES ASSUME TypeInv, ListInv, MapInv, NEW t \in Thread,
                      PushMember(t) \/ NoSuchGroup(t), ~InMap(job[t].gid), loaded
               PROVE  Creating(job[t].gid)
    OBVIOUS
  <2>1. /\ Up /\ pc[t] \in {"push", "forward"} /\ job[t] \in Jobs
        /\ KnowsAt(pc[t], job[t]) /\ GroupThere(pc[t], job[t])
        /\ KnowsMap(pc[t], job[t])
    BY DEF PushMember, NoSuchGroup, At, TypeInv, TypeOK, Knows, ListInv, MapInv,
           ThreadsInv
  <2>2. job[t].op \in {"create", "join", "cast"}
    BY <2>1 DEF KnowsAt, KnowsMap
  <2>3. InTable(job[t].gid)
    BY <2>1, <2>2 DEF GroupThere, KnowsMap
  <2>4. job[t].gid \in Gid
    BY <2>1, <2>2 DEF KnowsAt, KnowsMap
  <2> QED  BY <2>1, <2>3, <2>4 DEF MapInv, LoadedInv
<1> QED  BY <1>1, MapInvHolds, PTL DEF MapMissedOnlyEarly

\* Every step of the handlers is one of GroupDirectory's, or none: caching and
\* pushing enter a member, the answers tell members, death and restart reset.
LEMMA MapStep ==
  ASSUME TypeInv, TypeInv', MapInv, MapInv', [GroupNext]_vars
  PROVE  [InMemory!Next]_InMemory!dirVars
<1> DEFINE m == [g \in Gid |-> ToSet(groupInfo[g])]
           n == [g \in Gid |-> ToSet(groupInfo'[g])]
           a == told \ early
           b == told' \ early'
<1>1. InMemory!dirVars' = InMemory!dirVars <=> n = m /\ b = a
  BY DEF InMemory!dirVars
<1>2. InMemory!Enter <=> /\ \E g \in Gid, u \in Uid : n = [m EXCEPT ![g] = @ \union {u}]
                         /\ b = a
  BY DEF InMemory!Enter
<1>3. InMemory!Tell <=> /\ \E g \in Gid : \E us \in SUBSET m[g] :
                              b = a \union ({g} \X us)
                        /\ n = m
  BY DEF InMemory!Tell
<1>4. InMemory!Reset <=> b = {} /\ n \in [Gid -> SUBSET Uid]
  BY DEF InMemory!Reset
<1>5. groupInfo' = groupInfo => n = m  OBVIOUS
<1>6. n \in [Gid -> SUBSET Uid]
  BY ToSetType DEF TypeInv, TypeOK
<1>7. \A g \in Gid : m[g] = Cached(g) /\ n[g] = Cached(g)'  BY DEF Cached
<1>n. InMemory!Next <=> InMemory!Enter \/ InMemory!Tell \/ InMemory!Reset
  BY DEF InMemory!Next
<1>p. told' = told /\ early' = early => b = a  OBVIOUS
<1>q. told' = {} => b = {}  OBVIOUS
<1> HIDE DEF m, n, a, b
<1>m. m = [g \in Gid |-> m[g]] /\ n = [g \in Gid |-> n[g]]  BY DEF m, n
<1>8. CASE UNCHANGED vars \/ Served
  BY <1>1, <1>5, <1>8, <1>p DEF vars, Served
<1>9. CASE Restart
  <2>1. told' = {}  BY <1>9 DEF Restart, Reboot, MapInv, ToldInv
  <2> QED  BY <1>4, <1>6, <1>n, <1>q, <2>1
<1>10. ASSUME NEW t \in Thread, Request(t) \/ Work(t)
       PROVE  [InMemory!Next]_InMemory!dirVars
  <2>1. CASE ~Up'
    <3>1. LoseMemory  BY <1>10, <2>1, LivesOrDies
    <3> QED  BY <1>4, <1>6, <1>n, <1>q, <3>1 DEF LoseMemory
  <2>2. CASE CacheGroup(t) /\ ~InMap(job[t].gid)
    <3>1. /\ job[t].gid \in Gid /\ job[t].uid \in Uid /\ b = a
          /\ n[job[t].gid] = {job[t].uid} /\ m[job[t].gid] = {}
          /\ \A g \in Gid \ {job[t].gid} : n[g] = m[g]
      <4>1. job[t].uid \in Uid /\ b = a
        BY <1>p, <2>2 DEF CacheGroup, At, TypeInv, Knows, KnowsAt
      <4>2. Cached(job[t].gid)' = {job[t].uid} /\ job' = job /\ job[t].gid \in Gid
        BY <2>2, CacheGroupAdds
      <4>3. n[job[t].gid] = {job[t].uid} /\ m[job[t].gid] = {}
        BY <1>7, <2>2, <4>2, NotInMap DEF Cached
      <4>4. \A g \in Gid \ {job[t].gid} : n[g] = m[g]
        BY <2>2, CacheGroupAdds DEF n, m
      <4> QED  BY <4>1, <4>2, <4>3, <4>4
    <3>2. n = [m EXCEPT ![job[t].gid] = @ \union {job[t].uid}]
      BY <1>m, <3>1
    <3> QED  BY <1>2, <1>n, <3>1, <3>2
  <2>3. CASE PushMember(t) /\ InMap(job[t].gid)
    <3>1. /\ job[t].gid \in Gid /\ job[t].who \in Uid /\ b = a
          /\ n[job[t].gid] = m[job[t].gid] \union {job[t].who}
          /\ \A g \in Gid \ {job[t].gid} : n[g] = m[g]
      <4>1. b = a  BY <1>p, <2>3 DEF PushMember
      <4>2. /\ Cached(job[t].gid)' = Cached(job[t].gid) \union {job[t].who}
            /\ job' = job /\ job[t].gid \in Gid /\ job[t].who \in Uid
        BY <2>3, PushMemberAdds
      <4>3. n[job[t].gid] = m[job[t].gid] \union {job[t].who}
        BY <1>7, <4>2 DEF Cached
      <4>4. \A g \in Gid \ {job[t].gid} : n[g] = m[g]
        BY <2>3, PushMemberAdds DEF n, m
      <4> QED  BY <4>1, <4>2, <4>3, <4>4
    <3>2. n = [m EXCEPT ![job[t].gid] = @ \union {job[t].who}]
      BY <1>m, <3>1
    <3> QED  BY <1>2, <1>n, <3>1, <3>2
  <2>4. CASE Up' /\ UNCHANGED groupInfo
    <3>1. /\ n = m /\ job[t] \in Jobs /\ KnowsAt(pc[t], job[t])
          /\ KnowsMap(pc[t], job[t])
      BY <1>5, <2>4 DEF TypeInv, TypeOK, Knows, MapInv, ThreadsInv
    <3>2. CASE Forward(t) /\ job[t].op = "join"
      <4>1. /\ job[t].gid \in Gid
            /\ job[t].uid \in m[job[t].gid] \/ <<job[t].gid, job[t].uid>> \in early
        BY <1>7, <3>1, <3>2 DEF Forward, At, KnowsAt, KnowsMap
      <4>2. told' = told \union {<<job[t].gid, job[t].uid>>} /\ early' = early
        BY <3>2 DEF Forward
      <4>3. CASE <<job[t].gid, job[t].uid>> \in early
        <5>1. b = a  BY <4>2, <4>3 DEF a, b
        <5> QED  BY <1>1, <3>1, <5>1
      <4>4. CASE <<job[t].gid, job[t].uid>> \notin early
        <5>1. b = a \union ({job[t].gid} \X {job[t].uid})  BY <4>2, <4>4 DEF a, b
        <5>2. {job[t].uid} \in SUBSET m[job[t].gid]  BY <4>1, <4>4
        <5> QED  BY <1>3, <1>n, <3>1, <4>1, <5>1, <5>2
      <4> QED  BY <4>3, <4>4
    <3>3. CASE ReplyCreate(t)
      <4>1. job[t].op = "create" /\ job[t].gid \in Gid /\ pc[t] = "reply"
        BY <3>1, <3>3 DEF ReplyCreate, At, KnowsAt
      <4>2. ToSet(job[t].named) \subseteq m[job[t].gid]
        BY <1>7, <3>1, <4>1, GidAssumption DEF KnowsMap
      <4>3. PICK us \in SUBSET m[job[t].gid] :
               told' = told \union ({job[t].gid} \X us) /\ early' = early
        BY <3>3, <4>2 DEF ReplyCreate
      <4> DEFINE ws == {u \in us : <<job[t].gid, u>> \notin early}
      <4>4. b = a \union ({job[t].gid} \X ws)  BY <4>3 DEF a, b
      <4>5. ws \in SUBSET m[job[t].gid]  OBVIOUS
      <4> HIDE DEF ws
      <4> QED  BY <1>3, <1>n, <3>1, <4>1, <4>4, <4>5
    <3>4. CASE PushMember(t)
      <4>1. ~InMap(job[t].gid) /\ told' = told
            /\ early' = early \union {<<job[t].gid, job[t].who>>}
            /\ job[t].gid \in Gid
        <5>1. job[t].gid \in Gid  BY <3>1, <3>4 DEF PushMember, At, KnowsAt
        <5>2. InMap(job[t].gid) =>
                 groupInfo'[job[t].gid] = Append(groupInfo[job[t].gid], job[t].who)
          BY <3>4, <5>1 DEF PushMember, Pushed, TypeInv, TypeOK
        <5>3. groupInfo[job[t].gid] \in Seq(Uid)  BY <5>1 DEF TypeInv, TypeOK
        <5>4. ~InMap(job[t].gid)
          BY <2>4, <5>2, <5>3, AppendProperties
        <5> QED  BY <3>4, <5>1, <5>4 DEF PushMember
      <4>2. <<job[t].gid, job[t].who>> \notin a
        <5>1. Cached(job[t].gid) = {}  BY <4>1, NotInMap
        <5>2. \A q \in a : q[2] \in Cached(q[1])  BY DEF a, MapInv, ToldInv
        <5> QED  BY <5>1, <5>2
      <4>3. b = a  BY <4>1, <4>2 DEF a, b
      <4> QED  BY <1>1, <3>1, <4>3
    <3>5. CASE ~(Forward(t) /\ job[t].op = "join") /\ ~ReplyCreate(t) /\ ~PushMember(t)
      <4>1. UNCHANGED told
        BY <1>10, <2>4, <3>5, ToldWriters DEF Forward
      <4>2. UNCHANGED early
        BY <1>10, <2>4, <3>5, EarlyWriters
      <4> QED  BY <1>1, <1>p, <3>1, <4>1, <4>2
    <3> QED  BY <3>2, <3>3, <3>4, <3>5
  <2>5. CASE CacheGroup(t) /\ InMap(job[t].gid)
    BY <2>1, <2>4, <2>5 DEF CacheGroup
  <2>6. CASE PushMember(t) /\ ~InMap(job[t].gid)
    BY <2>1, <2>4, <2>6 DEF PushMember
  <2> QED  BY <1>10, <2>1, <2>2, <2>3, <2>4, <2>5, <2>6, MapWriters
<1> QED  BY <1>8, <1>9, <1>10 DEF GroupNext

\* group_info is a GroupDirectory for as long as the process lives: members
\* enter one at a time, none is lost, and of those pushed when the map had their
\* group only members are told.
THEOREM MapImplementsDirectory == GroupSpec => MapIsDirectory
<1>1. Init => InMemory!Init
  <2>1. ToSet(<<>>) = {}  BY DEF ToSet
  <2> QED  BY <2>1 DEF Init, InMemory!Init
<1>2. GroupSpec => [](TypeInv /\ MapInv)
  BY MapInvHolds, PTL
<1> QED
  BY <1>1, <1>2, MapStep, PTL DEF GroupSpec, MapIsDirectory, InMemory!Spec

------------------------------------------------------------------------------
\* The uids in a group's row, the gids in a user's grouplist.
Row(g) == ToSet(groupMember[g])
Listed(u) == ToSet(groupList[u])

\* What a join that nothing disturbs knows.
JoinKnows(p, j) ==
    /\ j.who = j.uid
    /\ p \in {"connect", "lookup"} => j.look # 3
    /\ p = "check" => j.look = 2
    /\ p \in Joining => j.look = 3
    /\ p = "close" /\ j.look = 2 /\ j.found => j.uid \in Registered
    /\ j.look = 3 \/ p = "check" => j.uid \in Registered
    /\ p \in {"reopen", "row_read", "row_write"} => j.uid \notin Row(j.gid)
    /\ j.look = 3 => InMap(j.gid)
    /\ p \in {"list_read", "list_write", "push", "forward"} \/ (p = "close" /\ j.look = 3) =>
          j.uid \in Row(j.gid)

\* What a creation knows: of the members named, those that it has come past are
\* in the row, and the others are not.
CreateKnows(p, j) ==
    /\ j.uid \in Registered
    /\ p \in {"connect", "insert"} =>
          j.who = j.uid /\ j.gid = NoGid /\ ToSet(j.named) \subseteq ToSet(j.todo)
    /\ p = "cache" => j.who = j.uid /\ groupInfo[j.gid] = <<>> /\ groupMember[j.gid] = <<j.uid>>
    /\ p \in {"connect", "insert", "cache"} \union Filling =>
          /\ j.who \in Users(j) /\ ToSet(j.todo) \subseteq Users(j) \union {NoUid}
          /\ IsInjective(j.todo) /\ ToSet(j.todo) \subseteq Registered \union {NoUid}
          /\ j.who \in Registered
    /\ p \in {"cache"} \union Filling =>
          /\ j.uid \in Row(j.gid)
          /\ ToSet(j.todo) \intersect Row(j.gid) \subseteq {j.uid}
          /\ ToSet(j.named) \subseteq Row(j.gid) \union ToSet(j.todo) \union
                                      (IF p \in {"row_read", "row_write"} THEN {j.who} ELSE {})
    /\ p \in Filling => InMap(j.gid)
    /\ p \in {"row_read", "row_write"} => j.who \notin Row(j.gid) \union ToSet(j.todo)
    /\ p \in {"push", "list_read", "list_write"} => j.who \in Row(j.gid)
    /\ p \in {"close", "reply"} /\ j.gid # NoGid =>
          j.uid \in Row(j.gid) /\ ToSet(j.named) \subseteq Row(j.gid)

KnowsApart(p, j) ==
    /\ p = "idle" => ~Writes(j)
    /\ j.op = "join" /\ p # "idle" => JoinKnows(p, j)
    /\ j.op = "create" /\ p # "idle" => CreateKnows(p, j)
    /\ p = "row_write" => j.row = groupMember[j.gid]
    /\ p = "list_write" => j.list = groupList[j.who]

\* The handler has put u in the row of g, and not yet g in his list.
Lacks(p, j, g, u) ==
    /\ j.gid = g /\ j.who = u
    /\ \/ p \in {"cache", "list_read", "list_write"}
       \/ p = "push" /\ j.op = "create"

\* What the other handlers have still to do: b and l are sets of such pairs.
Bring(t) == {q \in Gid \X Uid :
    \E s \in Thread \ {t} : BringsAt(pc[s], job[s], q[1], q[2])}
Lack(t) == {q \in Gid \X Uid :
    \E s \in Thread \ {t} : Lacks(pc[s], job[s], q[1], q[2])}

\* Up to that, and to what the handler at p has still to do, the places agree.
MapAgrees(p, j, b) ==
    \A g \in Gid :
        /\ IsInjective(groupInfo[g])
        /\ \A u \in Uid : u \in Cached(g) <=>
              u \in Row(g) /\ ~BringsAt(p, j, g, u) /\ <<g, u>> \notin b

ListsAgree(p, j, l) ==
    \A g \in Gid : \A u \in Registered : g \in Listed(u) <=>
        u \in Row(g) /\ ~Lacks(p, j, g, u) /\ <<g, u>> \notin l

AllMapsAgree ==
    \A g \in Gid :
        /\ IsInjective(groupInfo[g])
        /\ \A u \in Uid : u \in Cached(g) <=>
              u \in Row(g) /\ ~\E s \in Thread : BringsAt(pc[s], job[s], g, u)

AllListsAgree ==
    \A g \in Gid : \A u \in Registered : g \in Listed(u) <=>
        u \in Row(g) /\ ~\E s \in Thread : Lacks(pc[s], job[s], g, u)

TellsMembers == \A p \in told : p[2] \in Row(p[1])

ApartInv ==
    /\ loaded
    /\ ~Up => told = {} /\ \A t \in Thread : pc[t] = "idle"
    /\ TellsMembers
    /\ \A t \in Thread : KnowsApart(pc[t], job[t])
    /\ \A t, x \in Thread : t # x => ~Overlaps(job[t], job[x])
    /\ Up => AllMapsAgree
    /\ AllListsAgree

\* What a step of t has to see to.
Own(t) ==
    /\ loaded /\ TellsMembers
    /\ KnowsApart(pc[t], job[t])
    /\ MapAgrees(pc[t], job[t], Bring(t))
    /\ ListsAgree(pc[t], job[t], Lack(t))

\* A handler is about to step, with the process alive and nothing disturbed.
Steady(t) ==
    /\ t \in Thread /\ TypeInv /\ TypeInv' /\ ListInv /\ RowInv /\ ApartInv
    /\ Undisturbed /\ Undisturbed' /\ Up /\ Up'
    /\ Request(t) \/ Work(t)

\* Where it goes to, with what.
Comes(t, q, k) == pc'[t] = q /\ job'[t] = k

LEMMA Went ==
  ASSUME TypeInv, NEW t \in Thread, NEW q, Goto(t, q)
  PROVE  /\ pc'[t] = q
         /\ UNCHANGED job => Comes(t, q, job[t])
         /\ \A k : job' = [job EXCEPT ![t] = k] => Comes(t, q, k)
BY DEF TypeInv, TypeOK, Goto, Comes

LEMMA WentBack ==
  ASSUME TypeInv, NEW t \in Thread, Return(t)
  PROVE  Comes(t, "idle", NoJob)
BY DEF TypeInv, TypeOK, Return, Goto, Comes

\* With no failures the statements do what they say.
LEMMA NoFault == ASSUME faults = 0, faults' = 0 PROVE ~Fault
BY DEF Fault

\* What the others have to do stays with them, is about groups there are rows
\* for, and is not about the group of a handler that writes.
LEMMA LateStays ==
  ASSUME NEW t, Steady(t) PROVE Bring(t)' = Bring(t) /\ Lack(t)' = Lack(t)
<1>1. ASSUME NEW x \in Thread \ {t} PROVE pc'[x] = pc[x] /\ job'[x] = job[x]
  BY <1>1, OthersStay DEF Steady
<1> QED  BY <1>1 DEF Bring, Lack, BringsAt, Lacks

LEMMA LateGroups ==
  ASSUME NEW t, Steady(t), NEW g \in Gid, NEW u \in Uid,
         <<g, u>> \in Bring(t) \/ <<g, u>> \in Lack(t)
  PROVE  InTable(g) /\ ~(Writes(job[t]) /\ g = job[t].gid)
<1>1. PICK x \in Thread \ {t} : BringsAt(pc[x], job[x], g, u) \/ Lacks(pc[x], job[x], g, u)
  BY DEF Bring, Lack
<1>2. PICK p, j : p = pc[x] /\ j = job[x]  OBVIOUS
<1>3. /\ KnowsAt(p, j) /\ GroupThere(p, j) /\ KnowsApart(p, j)
      /\ ~Overlaps(j, job[t])
  BY <1>2 DEF Steady, TypeInv, Knows, ListInv, ApartInv
<1>4. j.gid = g /\ j.op \in {"create", "join"} /\ p # "idle"
  BY <1>1, <1>2, <1>3 DEF BringsAt, Lacks, KnowsAt
<1>5. InTable(g)
  BY <1>1, <1>2, <1>3, <1>4 DEF BringsAt, Lacks, GroupThere
<1>6. g # NoGid /\ Writes(j)  BY <1>4, GidAssumption DEF Writes
<1> QED  BY <1>3, <1>4, <1>5, <1>6 DEF Overlaps

\* What the handler knows before it steps.
LEMMA Before ==
  ASSUME NEW t, Steady(t)
  PROVE  /\ t \in Thread /\ job[t] \in Jobs /\ pc[t] \in Places
         /\ KnowsAt(pc[t], job[t]) /\ KnowsApart(pc[t], job[t])
         /\ GroupThere(pc[t], job[t])
         /\ MapAgrees(pc[t], job[t], Bring(t)) /\ ListsAgree(pc[t], job[t], Lack(t))
         /\ \A p \in told : p[2] \in Row(p[1])
         /\ ~Fault
<1>1. ~Fault  BY NoFault DEF Steady, Undisturbed
<1>2. MapAgrees(pc[t], job[t], Bring(t))
  <2>1. AllMapsAgree  BY DEF Steady, ApartInv
  <2>2. ASSUME NEW g \in Gid, NEW u \in Uid
        PROVE  (\E s \in Thread : BringsAt(pc[s], job[s], g, u)) <=>
                  BringsAt(pc[t], job[t], g, u) \/ <<g, u>> \in Bring(t)
    BY DEF Bring, Steady
  <2> QED  BY <2>1, <2>2 DEF AllMapsAgree, MapAgrees
<1>3. ListsAgree(pc[t], job[t], Lack(t))
  <2>1. AllListsAgree  BY DEF Steady, ApartInv
  <2>2. ASSUME NEW g \in Gid, NEW u \in Uid
        PROVE  (\E s \in Thread : Lacks(pc[s], job[s], g, u)) <=>
                  Lacks(pc[t], job[t], g, u) \/ <<g, u>> \in Lack(t)
    BY DEF Lack, Steady
  <2> QED  BY <2>1, <2>2, UidAssumption DEF AllListsAgree, ListsAgree
<1> QED
  BY <1>1, <1>2, <1>3 DEF Steady, TypeInv, TypeOK, Knows, ApartInv, ListInv, TellsMembers

TablesStay == UNCHANGED <<groupMember, groupList, groupInfo, loaded>>

SameLate(p, j, q, k) ==
    \A g \in Gid : \A u \in Uid :
        /\ BringsAt(q, k, g, u) <=> BringsAt(p, j, g, u)
        /\ Lacks(q, k, g, u) <=> Lacks(p, j, g, u)

\* A step that writes to none of the three places.
LEMMA QuietStep ==
  ASSUME NEW t, Steady(t), NEW q, NEW k, Comes(t, q, k), TablesStay,
         \A p \in told' : p[2] \in Row(p[1]),
         q = "idle" => ~Writes(k),
         k.op = "join" /\ q # "idle" => JoinKnows(q, k),
         k.op = "create" /\ q # "idle" => CreateKnows(q, k),
         q = "row_write" => k.row = groupMember[k.gid],
         q = "list_write" => k.list = groupList[k.who],
         SameLate(pc[t], job[t], q, k)
  PROVE  Own(t)'
<1>1. /\ pc'[t] = q /\ job'[t] = k
      /\ groupMember' = groupMember /\ groupList' = groupList
      /\ groupInfo' = groupInfo /\ loaded' = loaded
  BY DEF Comes, TablesStay
<1>2. KnowsApart(pc[t], job[t])'
  <2>1. JoinKnows(pc[t], job[t])' <=> JoinKnows(q, k)
    BY <1>1 DEF JoinKnows, Row, InMap
  <2>2. CreateKnows(pc[t], job[t])' <=> CreateKnows(q, k)
    BY <1>1 DEF CreateKnows, Row, InMap
  <2> QED
    BY <1>1, <2>1, <2>2 DEF KnowsApart
<1>b. PICK b, l : b = Bring(t) /\ l = Lack(t)  OBVIOUS
<1>s. b = Bring(t)' /\ l = Lack(t)'  BY <1>b, LateStays
<1>3. MapAgrees(pc[t], job[t], b)'
  <2>1. MapAgrees(pc[t], job[t], b)  BY <1>b, Before
  <2> QED  BY <1>1, <2>1 DEF MapAgrees, SameLate, Cached, Row
<1>4. ListsAgree(pc[t], job[t], l)'
  <2>1. ListsAgree(pc[t], job[t], l) /\ Registered \subseteq Uid
    BY <1>b, UidAssumption, Before
  <2> QED  BY <1>1, <2>1 DEF ListsAgree, SameLate, Listed, Row
<1>5. loaded' /\ TellsMembers'
  BY <1>1 DEF Steady, ApartInv, TellsMembers, Row
<1>6. MapAgrees(pc[t], job[t], Bring(t))' /\ ListsAgree(pc[t], job[t], Lack(t))'
  BY <1>3, <1>4, <1>s DEF MapAgrees, ListsAgree
<1> QED
  BY <1>2, <1>5, <1>6 DEF Own

\* A sequence without repetition, after its head.
LEMMA Parted ==
  ASSUME NEW S, NEW s \in Seq(S), s # <<>>, IsInjective(s)
  PROVE  /\ ToSet(s) = {Head(s)} \union ToSet(Tail(s))
         /\ Head(s) \notin ToSet(Tail(s)) /\ IsInjective(Tail(s))
<1> DEFINE r == Tail(s)
           n == Len(s)
<1>1. /\ r \in Seq(S) /\ Len(r) = n - 1 /\ n \in Nat \ {0} /\ Head(s) = s[1]
      /\ \A i \in 1..(n - 1) : r[i] = s[i + 1]
  OBVIOUS
<1>2. DOMAIN s = 1..n
  OBVIOUS
<1> HIDE DEF r, n
<1>3. DOMAIN r = 1..(n - 1)
  BY <1>1
<1>4. \A a, b \in 1..n : s[a] = s[b] => a = b
  BY <1>2 DEF IsInjective
<1>5. ToSet(r) = {r[i] : i \in 1..(n - 1)} /\ ToSet(s) = {s[i] : i \in 1..n}
  BY <1>2, <1>3 DEF ToSet
<1>6. ToSet(r) = {s[i] : i \in 2..n}
  <2>1. \A i \in 1..(n - 1) : i + 1 \in 2..n
    BY <1>1
  <2>2. \A i \in 2..n : i - 1 \in 1..(n - 1) /\ r[i - 1] = s[i]
    BY <1>1
  <2>3. ASSUME NEW e \in ToSet(r) PROVE e \in {s[i] : i \in 2..n}
    <3>1. PICK i \in 1..(n - 1) : e = r[i]
      BY <1>5
    <3>2. i + 1 \in 2..n /\ e = s[i + 1]
      BY <1>1, <2>1, <3>1
    <3> QED
      BY <3>2
  <2>4. ASSUME NEW e \in {s[i] : i \in 2..n} PROVE e \in ToSet(r)
    <3>1. PICK i \in 2..n : e = s[i]
      OBVIOUS
    <3>2. PICK k \in 1..(n - 1) : e = r[k]
      BY <2>2, <3>1
    <3> QED
      BY <1>5, <3>2
  <2> QED
    BY <2>3, <2>4
<1>7. 1..n = {1} \union 2..n
  BY <1>1
<1>8. ToSet(s) = {Head(s)} \union ToSet(r)
  BY <1>1, <1>5, <1>6, <1>7
<1>9. Head(s) \notin ToSet(r)
  BY <1>1, <1>4, <1>6, <1>7
<1>10. \A a, b \in 1..(n - 1) : r[a] = r[b] => a = b
  BY <1>1, <1>4
<1>11. IsInjective(r)
  BY <1>3, <1>10 DEF IsInjective
<1> QED
  BY <1>8, <1>9, <1>11 DEF r

\* A request begins with the tables in step.
LEMMA RequestQuiet == ASSUME NEW t, Steady(t), Request(t) PROVE Own(t)'
<1>0. t \in Thread /\ \A p \in told : p[2] \in Row(p[1])
  BY Before
<1>1. ASSUME NEW op \in Ops, NEW u, NEW g, NEW named, NEW todo,
             Receive(t, op, u, g, named, todo),
             op = "create" => /\ ToSet(named) \subseteq ToSet(todo) /\ g = NoGid
                              /\ u \in Registered /\ IsInjective(todo)
                              /\ ToSet(todo) \subseteq ToSet(named) \union {NoUid}
                              /\ ToSet(todo) \subseteq Registered \union {NoUid}
      PROVE  Own(t)'
  <2>1. PICK k : k = NewJob(op, u, g, named, todo)
    OBVIOUS
  <2>2. Comes(t, "connect", k) /\ TablesStay /\ UNCHANGED told /\ pc[t] = "idle"
    BY <1>0, <1>1, <2>1, Went DEF Receive, TablesStay, Steady, At
  <2>3. /\ k.op = op /\ k.uid = u /\ k.who = u /\ k.gid = g /\ k.named = named
        /\ k.todo = todo /\ k.look = 1
    BY <2>1 DEF NewJob
  <2>4. k.op = "join" => JoinKnows("connect", k)
    BY <2>3 DEF JoinKnows, Joining
  <2>5. k.op = "create" => CreateKnows("connect", k)
    BY <1>1, <2>3 DEF CreateKnows, Filling, Users
  <2>6. SameLate(pc[t], job[t], "connect", k)
    BY <2>2 DEF SameLate, BringsAt, Lacks
  <2> QED
    BY <1>0, <2>2, <2>4, <2>5, <2>6, QuietStep
<1>2. CASE ReceiveCreate(t)
  <2>1. PICK o \in Registered, named \in SeqOf(Registered, 2) :
          /\ IsInjective(named)
          /\ Receive(t, "create", o, NoGid, named,
                     IF named = <<>> THEN <<NoUid>> ELSE named)
    BY <1>2 DEF ReceiveCreate
  <2> DEFINE todo == IF named = <<>> THEN <<NoUid>> ELSE named
  <2>2. ToSet(named) \subseteq Registered
    BY SeqOfType, ToSetType
  <2>3. CASE named = <<>>
    <3>1. todo = <<NoUid>>  BY <2>3
    <3>2. ToSet(<<NoUid>>) = {NoUid} /\ IsInjective(<<NoUid>>) /\ ToSet(<<>>) = {}
      BY DEF ToSet, IsInjective
    <3> HIDE DEF todo
    <3> QED
      BY <1>1, <2>1, <2>3, <3>1, <3>2 DEF Ops, todo
  <2>4. CASE named # <<>>
    <3>1. todo = named  BY <2>4
    <3> QED
      BY <1>1, <2>1, <2>2, <3>1 DEF Ops
  <2> QED  BY <2>3, <2>4
<1>3. CASE ReceiveJoin(t)
  BY <1>1, <1>3 DEF ReceiveJoin, Ops
<1>4. CASE ReceiveCast(t)
  BY <1>1, <1>4 DEF ReceiveCast, Ops
<1>5. CASE ReceiveQuery(t)
  BY <1>1, <1>5 DEF ReceiveQuery, Ops
<1> QED  BY <1>2, <1>3, <1>4, <1>5 DEF Request

\* A return leaves nothing to be done.
LEMMA ReturnQuiet ==
  ASSUME NEW t, Steady(t), Return(t), TablesStay, \A p \in told' : p[2] \in Row(p[1]),
         \A g \in Gid : \A u \in Uid :
             ~BringsAt(pc[t], job[t], g, u) /\ ~Lacks(pc[t], job[t], g, u)
  PROVE  Own(t)'
<1>1. Comes(t, "idle", NoJob)
  BY Before, WentBack DEF Steady
<1>2. ~Writes(NoJob)
  BY DEF Writes, NoJob, NewJob
<1>3. SameLate(pc[t], job[t], "idle", NoJob)
  BY DEF SameLate, BringsAt, Lacks
<1> QED
  BY <1>1, <1>2, <1>3, QuietStep

LEMMA OpenQuiet == ASSUME NEW t, Steady(t), OpenDb(t) PROVE Own(t)'
<1>0. /\ t \in Thread /\ job[t] \in Jobs /\ KnowsAt(pc[t], job[t])
      /\ KnowsApart(pc[t], job[t]) /\ \A p \in told : p[2] \in Row(p[1])
  BY Before
<1>1. TablesStay /\ UNCHANGED told /\ UNCHANGED job
  BY DEF OpenDb, TablesStay
<1>2. \/ pc[t] = "connect" /\ job[t].op = "create" /\ Comes(t, "insert", job[t])
      \/ pc[t] = "connect" /\ job[t].op # "create" /\ Comes(t, "lookup", job[t])
      \/ pc[t] = "reopen" /\ Comes(t, "row_read", job[t]) /\ job[t].op = "join"
  BY <1>0, <1>1, Went DEF OpenDb, At, Steady, KnowsAt
<1>3. ASSUME pc[t] = "connect", job[t].op = "create", Comes(t, "insert", job[t])
      PROVE  Own(t)'
  <2>1. CreateKnows("insert", job[t])
    BY <1>0, <1>3 DEF KnowsApart, CreateKnows, Filling
  <2>2. SameLate(pc[t], job[t], "insert", job[t])
    BY <1>3 DEF SameLate, BringsAt, Lacks
  <2> QED
    BY <1>0, <1>1, <1>3, <2>1, <2>2, QuietStep
<1>4. ASSUME pc[t] = "connect", job[t].op # "create", Comes(t, "lookup", job[t])
      PROVE  Own(t)'
  <2>1. job[t].op = "join" => JoinKnows("lookup", job[t])
    BY <1>0, <1>4 DEF KnowsApart, JoinKnows, Joining
  <2>2. SameLate(pc[t], job[t], "lookup", job[t])
    BY <1>4 DEF SameLate, BringsAt, Lacks
  <2> QED
    BY <1>0, <1>1, <1>4, <2>1, <2>2, QuietStep
<1>5. ASSUME pc[t] = "reopen", Comes(t, "row_read", job[t]), job[t].op = "join"
      PROVE  Own(t)'
  <2>1. JoinKnows("row_read", job[t])
    BY <1>0, <1>5 DEF KnowsApart, JoinKnows, Joining
  <2>2. SameLate(pc[t], job[t], "row_read", job[t])
    BY <1>5 DEF SameLate, BringsAt, Lacks
  <2> QED
    BY <1>0, <1>1, <1>5, <2>1, <2>2, QuietStep
<1> QED  BY <1>2, <1>3, <1>4, <1>5

LEMMA LookUpQuiet == ASSUME NEW t, Steady(t), LookUp(t) PROVE Own(t)'
<1>0. /\ t \in Thread /\ job[t] \in Jobs /\ KnowsAt(pc[t], job[t]) /\ ~Fault
      /\ KnowsApart(pc[t], job[t]) /\ \A p \in told : p[2] \in Row(p[1])
  BY Before
<1>1. PICK k : k = [job[t] EXCEPT !.found = Exists(job[t])]
  OBVIOUS
<1>2. TablesStay /\ UNCHANGED told /\ pc[t] = "lookup" /\ Comes(t, "close", k)
  <2>1. job' = [job EXCEPT ![t].found = Exists(job[t])]
    BY <1>0 DEF LookUp
  <2>2. job' = [job EXCEPT ![t] = k]
    BY <1>1, <2>1
  <2> QED
    BY <1>0, <2>2, Went DEF LookUp, TablesStay, At, Steady
<1>3. /\ k.op = job[t].op /\ k.uid = job[t].uid /\ k.gid = job[t].gid
      /\ k.who = job[t].who /\ k.look = job[t].look /\ k.found = Exists(job[t])
  BY <1>0, <1>1 DEF Jobs
<1>4. k.op # "create"
  BY <1>0, <1>2, <1>3 DEF KnowsAt
<1>5. k.op = "join" => JoinKnows("close", k)
  BY <1>0, <1>2, <1>3 DEF KnowsApart, JoinKnows, Joining, Exists
<1>6. SameLate(pc[t], job[t], "close", k)
  <2>1. job[t].op = "join" => job[t].look # 3
    BY <1>0, <1>2 DEF KnowsApart, JoinKnows
  <2> QED
    BY <1>2, <1>3, <2>1 DEF SameLate, BringsAt, Lacks
<1> QED
  BY <1>0, <1>2, <1>4, <1>5, <1>6, QuietStep

\* A handler that ends its session gives up, looks up something more, or goes
\* on to what it is for; a joiner's comes here a third time with his row written.
LEMMA CloseQuiet == ASSUME NEW t, Steady(t), CloseDb(t) PROVE Own(t)'
<1> DEFINE j == job[t]
<1>0. /\ t \in Thread /\ j \in Jobs /\ KnowsAt(pc[t], j)
      /\ KnowsApart(pc[t], j) /\ \A p \in told : p[2] \in Row(p[1])
  BY Before
<1>1. TablesStay /\ UNCHANGED told /\ pc[t] = "close"
  BY DEF CloseDb, TablesStay, At
<1>2. \/ GivesUp(j) /\ Return(t)
      \/ /\ ~GivesUp(j) /\ j.op # "create" /\ j.look = 1
         /\ Comes(t, "connect", [j EXCEPT !.look = 2])
      \/ /\ ~GivesUp(j) /\ (j.op = "create" \/ j.look > 1)
         /\ Comes(t, CASE j.op = "create" -> "reply"
                       [] j.op = "cast" -> "forward"
                       [] j.op = "join" /\ j.look = 2 -> "check"
                       [] OTHER -> "push", j)
  <2>1. ASSUME ~GivesUp(j), j.op # "create", j.look = 1,
               job' = [job EXCEPT ![t].look = 2], Goto(t, "connect")
        PROVE  Comes(t, "connect", [j EXCEPT !.look = 2])
    BY <1>0, <2>1, Went DEF Steady
  <2> QED
    BY <1>0, <2>1, Went DEF CloseDb, Steady
<1>3. CASE GivesUp(j) /\ Return(t)
  <2>1. j.op # "join" \/ j.look # 3
    BY <1>3 DEF GivesUp
  <2> QED
    BY <1>0, <1>1, <1>3, <2>1, ReturnQuiet DEF BringsAt, Lacks
<1>4. CASE ~GivesUp(j) /\ j.op # "create" /\ j.look = 1 /\ Comes(t, "connect", [j EXCEPT !.look = 2])
  <2>1. PICK k : k = [j EXCEPT !.look = 2]
    OBVIOUS
  <2>2. k.op = j.op /\ k.uid = j.uid /\ k.who = j.who /\ k.gid = j.gid /\ k.look = 2
    BY <1>0, <2>1 DEF Jobs
  <2>3. k.op = "join" => JoinKnows("connect", k)
    BY <1>0, <1>1, <2>2 DEF KnowsApart, JoinKnows, Joining
  <2>4. SameLate(pc[t], j, "connect", k)
    BY <1>1, <1>4, <2>2 DEF SameLate, BringsAt, Lacks
  <2>6. Comes(t, "connect", k)
    BY <1>4, <2>1
  <2> QED
    BY <1>0, <1>1, <1>4, <2>2, <2>3, <2>4, <2>6, QuietStep
<1>5. ASSUME ~GivesUp(j), j.op = "create", Comes(t, "reply", j) PROVE Own(t)'
  <2>1. CreateKnows("reply", j)
    BY <1>0, <1>1, <1>5 DEF KnowsApart, CreateKnows, Filling
  <2>2. SameLate(pc[t], j, "reply", j)
    BY <1>1, <1>5 DEF SameLate, BringsAt, Lacks
  <2> QED
    BY <1>0, <1>1, <1>5, <2>1, <2>2, QuietStep
<1>6. ASSUME ~GivesUp(j), j.op = "cast", Comes(t, "forward", j) PROVE Own(t)'
  <2>1. SameLate(pc[t], j, "forward", j)
    BY <1>1, <1>6 DEF SameLate, BringsAt, Lacks
  <2> QED
    BY <1>0, <1>1, <1>6, <2>1, QuietStep
<1>7. ASSUME ~GivesUp(j), j.op = "join", j.look = 2, Comes(t, "check", j) PROVE Own(t)'
  <2>1. JoinKnows("check", j)
    BY <1>0, <1>1, <1>7 DEF KnowsApart, JoinKnows, Joining, GivesUp
  <2>2. SameLate(pc[t], j, "check", j)
    BY <1>1, <1>7 DEF SameLate, BringsAt, Lacks
  <2> QED
    BY <1>0, <1>1, <1>7, <2>1, <2>2, QuietStep
<1>8. ASSUME ~GivesUp(j), j.op = "join", j.look = 3, Comes(t, "push", j) PROVE Own(t)'
  <2>1. JoinKnows("push", j)
    BY <1>0, <1>1, <1>8 DEF KnowsApart, JoinKnows, Joining
  <2>2. SameLate(pc[t], j, "push", j)
    BY <1>1, <1>8 DEF SameLate, BringsAt, Lacks
  <2> QED
    BY <1>0, <1>1, <1>8, <2>1, <2>2, QuietStep
<1>9. j.op \in {"create", "join", "cast", "query"} /\ j.look \in 1..3
  BY <1>0, <1>1 DEF KnowsAt, Jobs, Ops
<1>10. j.op # "query" \/ GivesUp(j)
  BY DEF GivesUp
<1> HIDE DEF j
<1>11. CASE /\ ~GivesUp(j) /\ (j.op = "create" \/ j.look > 1)
            /\ Comes(t, CASE j.op = "create" -> "reply"
                       [] j.op = "cast" -> "forward"
                       [] j.op = "join" /\ j.look = 2 -> "check"
                       [] OTHER -> "push", j)
  BY <1>3, <1>5, <1>6, <1>7, <1>8, <1>9, <1>10, <1>11
<1> QED
  BY <1>2, <1>3, <1>4, <1>11

\* Who is not in the map is not in the row.
LEMMA CheckQuiet == ASSUME NEW t, Steady(t), CheckMember(t) PROVE Own(t)'
<1> DEFINE j == job[t]
<1>0. /\ t \in Thread /\ j \in Jobs /\ KnowsAt(pc[t], j) /\ GroupThere(pc[t], j)
      /\ KnowsApart(pc[t], j) /\ \A p \in told : p[2] \in Row(p[1])
      /\ MapAgrees(pc[t], j, Bring(t))
  BY Before
<1>1. TablesStay /\ UNCHANGED told /\ pc[t] = "check" /\ j.op = "join" /\ j.gid \in Gid /\ j.uid \in Uid
  BY <1>0 DEF CheckMember, TablesStay, At, KnowsAt
<1>2. JoinKnows("check", j)
  BY <1>0, <1>1 DEF KnowsApart
<1>3. j.look = 2
  BY <1>2 DEF JoinKnows
<1>4. \A g \in Gid : \A u \in Uid : ~BringsAt(pc[t], j, g, u) /\ ~Lacks(pc[t], j, g, u)
  BY <1>1, <1>3 DEF BringsAt, Lacks
<1>b. \A u \in Uid : <<j.gid, u>> \notin Bring(t)
  <2>1. Writes(j)  BY <1>1 DEF Writes
  <2> QED  BY <1>1, <2>1, LateGroups
<1>5. CASE j.uid \in Cached(j.gid) /\ Return(t)
  BY <1>0, <1>1, <1>4, <1>5, ReturnQuiet
<1>6. CASE j.uid \notin Cached(j.gid) /\ Goto(t, "reopen") /\ job' = [job EXCEPT ![t].look = 3]
  <2>1. PICK k : k = [j EXCEPT !.look = 3]
    OBVIOUS
  <2>2. k.op = j.op /\ k.uid = j.uid /\ k.who = j.who /\ k.gid = j.gid /\ k.look = 3
    BY <1>0, <2>1 DEF Jobs
  <2>3. Comes(t, "reopen", k)
    <3>1. job' = [job EXCEPT ![t] = k]
      BY <1>6, <2>1
    <3> QED
      BY <1>0, <1>6, <3>1, Went DEF Steady
  <2>4. j.uid \notin Row(j.gid)
    BY <1>0, <1>1, <1>4, <1>6, <1>b DEF MapAgrees
  <2>5. InMap(j.gid)
    <3>1. groupMember[j.gid] \in Seq(Uid) /\ groupMember[j.gid] # <<>>
      BY <1>0, <1>1 DEF GroupThere, InTable, Steady, TypeInv, TypeOK
    <3>2. PICK u \in Uid : u \in Row(j.gid)
      BY <3>1 DEF Row, ToSet
    <3>3. u \in Cached(j.gid)
      BY <1>0, <1>1, <1>4, <1>b, <3>2 DEF MapAgrees
    <3> QED
      BY <3>3, NotInMap
  <2>6. JoinKnows("reopen", k)
    BY <1>2, <2>2, <2>4, <2>5 DEF JoinKnows
  <2>7. SameLate(pc[t], j, "reopen", k)
    BY <1>4 DEF SameLate, BringsAt, Lacks
  <2> QED
    BY <1>0, <1>1, <2>2, <2>3, <2>6, <2>7, QuietStep
<1> QED
  BY <1>5, <1>6 DEF CheckMember, Cached

\* The loop over the members named comes to one who is not in the row yet.
LEMMA NextQuiet == ASSUME NEW t, Steady(t), NextMember(t) PROVE Own(t)'
<1> DEFINE j == job[t]
           todo == j.todo
<1>0. /\ t \in Thread /\ j \in Jobs /\ KnowsAt(pc[t], j)
      /\ KnowsApart(pc[t], j) /\ \A p \in told : p[2] \in Row(p[1])
  BY Before
<1>1. TablesStay /\ UNCHANGED told /\ pc[t] = "next" /\ j.op = "create"
  BY <1>0 DEF NextMember, TablesStay, At, KnowsAt
<1>2. CreateKnows("next", j)
  BY <1>0, <1>1 DEF KnowsApart
<1>3. /\ j.uid \in Registered /\ j.uid \in Row(j.gid) /\ InMap(j.gid) /\ j.who \in Registered
      /\ IsInjective(todo) /\ ToSet(todo) \subseteq Registered \union {NoUid}
      /\ ToSet(todo) \intersect Row(j.gid) \subseteq {j.uid}
      /\ ToSet(j.named) \subseteq Row(j.gid) \union ToSet(todo)
      /\ j.who \in Users(j) /\ ToSet(todo) \subseteq Users(j) \union {NoUid}
  BY <1>2 DEF CreateKnows, Filling
<1>4. \A g \in Gid : \A u \in Uid : ~BringsAt(pc[t], j, g, u) /\ ~Lacks(pc[t], j, g, u)
  BY <1>1 DEF BringsAt, Lacks
<1>5. CASE todo = <<>> /\ Goto(t, "close") /\ UNCHANGED job
  <2>1. ToSet(<<>>) = {}
    BY DEF ToSet
  <2>2. ToSet(j.named) \subseteq Row(j.gid)
    BY <1>3, <1>5, <2>1
  <2>3. CreateKnows("close", j)
    BY <1>3, <2>2 DEF CreateKnows, Filling
  <2>4. SameLate(pc[t], j, "close", j)
    BY <1>1, <1>4 DEF SameLate, BringsAt, Lacks
  <2>5. Comes(t, "close", j)
    BY <1>0, <1>5, Went DEF Steady
  <2> QED
    BY <1>0, <1>1, <2>3, <2>4, <2>5, QuietStep
<1>6. CASE /\ todo # <<>> /\ Head(todo) # NoUid
           /\ job' = [job EXCEPT ![t] = [@ EXCEPT !.who = Head(todo), !.todo = Tail(todo)]]
           /\ Goto(t, IF Head(todo) = j.uid THEN "next" ELSE "row_read")
  <2>1. PICK h, r : h = Head(todo) /\ r = Tail(todo)
    OBVIOUS
  <2>2. todo \in Seq(Uid \union {NoUid}) /\ todo # <<>>
    BY <1>0, <1>6 DEF Jobs
  <2>3. /\ ToSet(todo) = {h} \union ToSet(r) /\ h \notin ToSet(r) /\ IsInjective(r)
    BY <1>3, <2>1, <2>2, Parted
  <2>4. h \in Registered /\ h \in Users(j) /\ ToSet(r) \subseteq Users(j) \union {NoUid}
    BY <1>3, <1>6, <2>1, <2>3
  <2>5. PICK k : k = [j EXCEPT !.who = h, !.todo = r]
    OBVIOUS
  <2>6. /\ k.op = j.op /\ k.uid = j.uid /\ k.who = h /\ k.gid = j.gid /\ k.todo = r
        /\ k.named = j.named /\ Users(k) = Users(j)
    BY <1>0, <2>5 DEF Jobs, Users
  <2>7. job' = [job EXCEPT ![t] = k]
    BY <1>6, <2>1, <2>5
  <2> HIDE DEF j, todo
  <2>8. CASE h = j.uid
    <3>1. Comes(t, "next", k)
      BY <1>0, <1>6, <2>1, <2>7, <2>8, Went DEF Steady
    <3>2. /\ k.todo = r /\ k.who \in Registered /\ k.uid = j.uid /\ k.gid = j.gid
          /\ ToSet(r) \subseteq Registered \union {NoUid}
          /\ ToSet(r) \intersect Row(j.gid) \subseteq {j.uid}
          /\ ToSet(j.named) \subseteq Row(j.gid) \union ToSet(r)
      BY <1>3, <2>3, <2>4, <2>6, <2>8
    <3>3. CreateKnows("next", k)
      BY <1>3, <2>3, <2>4, <2>6, <3>2 DEF CreateKnows, Filling
    <3>4. SameLate(pc[t], job[t], "next", k)
      BY <1>1, <1>4 DEF SameLate, BringsAt, Lacks, j
    <3> QED
      BY <1>0, <1>1, <2>6, <3>1, <3>3, <3>4, QuietStep DEF j
  <2>9. CASE h # j.uid
    <3>1. Comes(t, "row_read", k)
      BY <1>0, <1>6, <2>1, <2>7, <2>9, Went DEF Steady
    <3>2. /\ h \notin Row(j.gid) \union ToSet(r)
          /\ ToSet(r) \subseteq Registered \union {NoUid}
          /\ ToSet(r) \intersect Row(j.gid) \subseteq {j.uid}
          /\ ToSet(j.named) \subseteq Row(j.gid) \union ToSet(r) \union {h}
      BY <1>3, <2>3, <2>4, <2>9
    <3>3. CreateKnows("row_read", k)
      BY <1>3, <2>3, <2>4, <2>6, <3>2 DEF CreateKnows, Filling
    <3>4. SameLate(pc[t], job[t], "row_read", k)
      BY <1>1, <1>4, <2>6 DEF SameLate, BringsAt, Lacks, j
    <3> QED
      BY <1>0, <1>1, <2>6, <3>1, <3>3, <3>4, QuietStep DEF j
  <2> QED
    BY <2>8, <2>9
<1> QED
  BY <1>5, <1>6 DEF NextMember

\* The row is read for somebody who is not in it, so it will be written.
LEMMA ReadRowQuiet == ASSUME NEW t, Steady(t), ReadRow(t) PROVE Own(t)'
<1> DEFINE j == job[t]
           row == groupMember[j.gid]
<1>0. /\ t \in Thread /\ j \in Jobs /\ KnowsAt(pc[t], j) /\ GroupThere(pc[t], j) /\ ~Fault
      /\ KnowsApart(pc[t], j) /\ \A p \in told : p[2] \in Row(p[1])
  BY Before
<1>1. /\ TablesStay /\ UNCHANGED told /\ pc[t] = "row_read"
      /\ j.op \in {"create", "join"} /\ j.gid \in Gid /\ j.who \in Uid
  BY <1>0 DEF ReadRow, TablesStay, At, KnowsAt
<1>2. row \in Seq(Uid) /\ row # <<>>
  BY <1>0, <1>1 DEF GroupThere, InTable, Steady, TypeInv, TypeOK
<1>3. j.who \notin ToSet(row)
  BY <1>0, <1>1 DEF KnowsApart, JoinKnows, CreateKnows, Row
<1>4. ~Occurs(j.who, row)
  <2>1. ~TakenFor(j.who, row)
    BY DEF ReadRow, Steady, Undisturbed
  <2> HIDE DEF row, j
  <2> QED
    BY <1>3, <2>1 DEF Occurs, TakenFor
<1>5. PICK k : k = [j EXCEPT !.row = row]
  OBVIOUS
<1>6. /\ k.op = j.op /\ k.uid = j.uid /\ k.who = j.who /\ k.gid = j.gid /\ k.todo = j.todo
      /\ k.named = j.named /\ k.look = j.look /\ k.row = row /\ Users(k) = Users(j)
  BY <1>0, <1>5 DEF Jobs, Users
<1>7. Comes(t, "row_write", k)
  <2>1. job' = [job EXCEPT ![t].row = row] /\ Goto(t, "row_write")
    BY <1>0, <1>2, <1>4 DEF ReadRow
  <2>2. job' = [job EXCEPT ![t] = k]
    BY <1>5, <2>1
  <2> QED
    BY <1>0, <2>1, <2>2, Went DEF Steady
<1>8. k.op = "join" => JoinKnows("row_write", k)
  BY <1>0, <1>1, <1>6 DEF KnowsApart, JoinKnows, Joining
<1>9. k.op = "create" => CreateKnows("row_write", k)
  BY <1>0, <1>1, <1>6 DEF KnowsApart, CreateKnows, Filling
<1>10. SameLate(pc[t], j, "row_write", k)
  BY <1>1 DEF SameLate, BringsAt, Lacks
<1>11. k.row = groupMember[k.gid]
  BY <1>6
<1> QED
  BY <1>0, <1>1, <1>7, <1>8, <1>9, <1>10, <1>11, QuietStep

LEMMA ReadListQuiet == ASSUME NEW t, Steady(t), ReadList(t) PROVE Own(t)'
<1> DEFINE j == job[t]
           list == groupList[j.who]
<1>0. /\ t \in Thread /\ j \in Jobs /\ KnowsAt(pc[t], j) /\ ~Fault
      /\ KnowsApart(pc[t], j) /\ \A p \in told : p[2] \in Row(p[1])
  BY Before
<1>1. /\ TablesStay /\ UNCHANGED told /\ pc[t] = "list_read"
      /\ j.op \in {"create", "join"}
  BY <1>0 DEF ReadList, TablesStay, At, KnowsAt
<1>2. j.who \in Registered
  <2>1. CASE j.op = "join"
    BY <1>0, <1>1, <2>1 DEF KnowsApart, JoinKnows, Joining
  <2>2. CASE j.op = "create"
    BY <1>0, <1>1, <2>2 DEF KnowsApart, CreateKnows, Filling
  <2> QED
    BY <1>1, <2>1, <2>2
<1>3. PICK k : k = [j EXCEPT !.list = list]
  OBVIOUS
<1>4. /\ k.op = j.op /\ k.uid = j.uid /\ k.who = j.who /\ k.gid = j.gid /\ k.todo = j.todo
      /\ k.named = j.named /\ k.look = j.look /\ k.list = list /\ Users(k) = Users(j)
  BY <1>0, <1>3 DEF Jobs, Users
<1>5. Comes(t, "list_write", k)
  <2>1. job' = [job EXCEPT ![t].list = list] /\ Goto(t, "list_write")
    BY <1>0, <1>2 DEF ReadList
  <2>2. job' = [job EXCEPT ![t] = k]
    BY <1>3, <2>1
  <2> QED
    BY <1>0, <2>1, <2>2, Went DEF Steady
<1>6. k.op = "join" => JoinKnows("list_write", k)
  BY <1>0, <1>1, <1>4 DEF KnowsApart, JoinKnows, Joining
<1>7. k.op = "create" => CreateKnows("list_write", k)
  BY <1>0, <1>1, <1>4 DEF KnowsApart, CreateKnows, Filling
<1>8. SameLate(pc[t], j, "list_write", k)
  BY <1>1, <1>4 DEF SameLate, BringsAt, Lacks
<1>9. k.list = groupList[k.who]
  BY <1>4
<1> QED
  BY <1>0, <1>1, <1>5, <1>6, <1>7, <1>8, <1>9, QuietStep

\* Who is told is in the row.
LEMMA ReplyQuiet == ASSUME NEW t, Steady(t), ReplyCreate(t) PROVE Own(t)'
<1> DEFINE j == job[t]
<1>0. /\ t \in Thread /\ KnowsAt(pc[t], j)
      /\ KnowsApart(pc[t], j) /\ \A p \in told : p[2] \in Row(p[1])
  BY Before
<1>1. TablesStay /\ pc[t] = "reply" /\ j.op = "create" /\ j.gid \in Gid /\ Return(t)
  BY <1>0 DEF ReplyCreate, TablesStay, At, KnowsAt
<1>2. ToSet(j.named) \subseteq Row(j.gid)
  BY <1>0, <1>1, GidAssumption DEF KnowsApart, CreateKnows
<1>3. PICK us \in SUBSET ToSet(j.named) : told' = told \union ({j.gid} \X us)
  BY DEF ReplyCreate
<1>4. \A p \in told' : p[2] \in Row(p[1])
  <2> HIDE DEF j
  <2> SUFFICES ASSUME NEW p \in told', p \notin told PROVE p[2] \in Row(p[1])
    BY <1>0
  <2>1. p \in {j.gid} \X us
    BY <1>3
  <2> QED
    BY <1>2, <2>1
<1>5. \A g \in Gid : \A u \in Uid : ~BringsAt(pc[t], j, g, u) /\ ~Lacks(pc[t], j, g, u)
  BY <1>1 DEF BringsAt, Lacks
<1> QED
  BY <1>1, <1>4, <1>5, ReturnQuiet

LEMMA ForwardQuiet == ASSUME NEW t, Steady(t), Forward(t) PROVE Own(t)'
<1> DEFINE j == job[t]
<1>0. KnowsApart(pc[t], j) /\ \A p \in told : p[2] \in Row(p[1])
  BY Before
<1>1. TablesStay /\ pc[t] = "forward" /\ Return(t)
  BY DEF Forward, TablesStay, At
<1>2. \A p \in told' : p[2] \in Row(p[1])
  <2>1. CASE j.op = "join"
    <3>1. j.uid \in Row(j.gid)
      BY <1>0, <1>1, <2>1 DEF KnowsApart, JoinKnows
    <3> QED
      BY <1>0, <2>1, <3>1 DEF Forward
  <2>2. CASE j.op # "join"
    BY <1>0, <2>2 DEF Forward
  <2> QED
    BY <2>1, <2>2
<1>3. \A g \in Gid : \A u \in Uid : ~BringsAt(pc[t], j, g, u) /\ ~Lacks(pc[t], j, g, u)
  BY <1>1 DEF BringsAt, Lacks
<1> QED
  BY <1>1, <1>2, <1>3, ReturnQuiet

\* A step that writes to one of the three places.
LEMMA WroteStep ==
  ASSUME NEW t, Steady(t), NEW q, NEW k, Comes(t, q, k),
         UNCHANGED <<told, loaded>>, \A g \in Gid : Row(g) \subseteq Row(g)',
         KnowsApart(q, k)', NEW b, b = Bring(t), MapAgrees(q, k, b)',
         NEW l, l = Lack(t), ListsAgree(q, k, l)'
  PROVE  Own(t)'
<1>1. pc'[t] = q /\ job'[t] = k
  BY DEF Comes
<1>2. KnowsApart(pc[t], job[t])'
  <2>1. JoinKnows(pc[t], job[t])' <=> JoinKnows(q, k)'
    BY <1>1 DEF JoinKnows
  <2>2. CreateKnows(pc[t], job[t])' <=> CreateKnows(q, k)'
    BY <1>1 DEF CreateKnows
  <2> QED
    BY <1>1, <2>1, <2>2 DEF KnowsApart
<1>3. MapAgrees(pc[t], job[t], Bring(t))'
  BY <1>1, LateStays DEF MapAgrees
<1>4. ListsAgree(pc[t], job[t], Lack(t))'
  BY <1>1, LateStays DEF ListsAgree
<1>5. TellsMembers'
  <2>1. told' = told /\ told \subseteq Gid \X Uid /\ \A p \in told : p[2] \in Row(p[1])
    BY Before DEF Steady, TypeInv, TypeOK
  <2> QED
    BY <2>1 DEF TellsMembers
<1>6. loaded'
  BY DEF Steady, ApartInv
<1> QED
  BY <1>2, <1>3, <1>4, <1>5, <1>6 DEF Own

LEMMA EmptyList == ASSUME NEW S, NEW s \in Seq(S), ToSet(s) = {} PROVE s = <<>>
<1> SUFFICES ASSUME s # <<>> PROVE FALSE
  OBVIOUS
<1>1. 1 \in DOMAIN s
  OBVIOUS
<1>2. s[1] \in ToSet(s)
  BY <1>1 DEF ToSet
<1> QED
  BY <1>2

LEMMA OneMember == ASSUME NEW e PROVE ToSet(<<e>>) = {e} /\ IsInjective(<<e>>) /\ <<e>> # <<>>
BY DEF ToSet, IsInjective

\* The new group's row has the owner in it, and nothing else does yet.
LEMMA InsertKeeps == ASSUME NEW t, Steady(t), InsertGroup(t) PROVE Own(t)'
<1> DEFINE j == job[t]
<1>b. PICK b, l : b = Bring(t) /\ l = Lack(t)
  OBVIOUS
<1>0. /\ t \in Thread /\ j \in Jobs /\ KnowsAt(pc[t], j) /\ ~Fault
      /\ KnowsApart(pc[t], j) /\ \A p \in told : p[2] \in Row(p[1])
      /\ MapAgrees(pc[t], j, b) /\ ListsAgree(pc[t], j, l)
  BY <1>b, Before
<1>1. /\ pc[t] = "insert" /\ j.op = "create" /\ j.uid \in Uid
      /\ UNCHANGED <<groupList, groupInfo, loaded, told>>
  BY <1>0 DEF InsertGroup, At, KnowsAt
<1>2. CreateKnows("insert", j)
  BY <1>0, <1>1 DEF KnowsApart
<1>3. \A g \in Gid : \A u \in Uid : ~BringsAt(pc[t], j, g, u) /\ ~Lacks(pc[t], j, g, u)
  BY <1>1 DEF BringsAt, Lacks
<1>4. CASE Goto(t, "close") /\ UNCHANGED <<groupMember, job>>
  <2>1. CreateKnows("close", j)
    BY <1>2 DEF CreateKnows, Filling
  <2>2. SameLate(pc[t], j, "close", j)
    BY <1>1, <1>3 DEF SameLate, BringsAt, Lacks
  <2>3. Comes(t, "close", j) /\ TablesStay /\ UNCHANGED told
    BY <1>0, <1>1, <1>4, Went DEF Steady, TablesStay
  <2> QED
    BY <1>0, <1>1, <2>1, <2>2, <2>3, QuietStep
<1>5. ASSUME NEW g \in Gid, ~InTable(g),
             groupMember' = [groupMember EXCEPT ![g] = <<j.uid>>],
             job' = [job EXCEPT ![t].gid = g], Goto(t, "cache")
      PROVE  Own(t)'
  <2>1. PICK k : k = [j EXCEPT !.gid = g]
    OBVIOUS
  <2>2. /\ k.op = j.op /\ k.uid = j.uid /\ k.who = j.who /\ k.gid = g
        /\ k.todo = j.todo /\ k.named = j.named /\ Users(k) = Users(j)
        /\ j.uid \in Users(j)
    BY <1>0, <2>1 DEF Jobs, Users
  <2>3. Comes(t, "cache", k)
    <3>1. job' = [job EXCEPT ![t] = k]
      BY <1>5, <2>1
    <3> QED
      BY <1>0, <1>5, <3>1, Went DEF Steady
  <2>4. /\ groupMember'[g] = <<j.uid>> /\ \A h \in Gid \ {g} : groupMember'[h] = groupMember[h]
        /\ groupInfo[g] \in Seq(Uid)
    BY <1>5 DEF Steady, TypeInv, TypeOK
  <2>b. \A u \in Uid : <<g, u>> \notin b /\ <<g, u>> \notin l
    BY <1>5, <1>b, LateGroups
  <2>5. Row(g) = {} /\ Row(g)' = {j.uid} /\ \A h \in Gid \ {g} : Row(h)' = Row(h)
    <3>1. ToSet(<<>>) = {}
      BY DEF ToSet
    <3> QED
      BY <1>5, <2>4, <3>1, OneMember DEF Row, InTable
  <2>6. groupInfo[g] = <<>> /\ Cached(g) = {}
    <3>1. Cached(g) \subseteq Uid
      BY <2>4, ToSetType DEF Cached
    <3>2. Cached(g) = {}
      BY <1>0, <2>5, <3>1 DEF MapAgrees
    <3> QED
      BY <2>4, <3>2, EmptyList DEF Cached
  <2>7. /\ j.who = j.uid /\ j.uid \in Registered /\ IsInjective(j.todo)
        /\ ToSet(j.todo) \subseteq Registered \union {NoUid}
        /\ ToSet(j.named) \subseteq ToSet(j.todo)
        /\ ToSet(j.todo) \subseteq Users(j) \union {NoUid}
    BY <1>2 DEF CreateKnows
  <2> HIDE DEF j
  <2>8. KnowsApart("cache", k)'
    <3>1. CreateKnows("cache", k)'
      BY <1>1, <2>2, <2>4, <2>5, <2>6, <2>7 DEF CreateKnows, Filling
    <3> QED
      BY <1>1, <2>2, <3>1 DEF KnowsApart
  <2>9. MapAgrees("cache", k, b)'
    <3>1. \A h \in Gid, u \in Uid : BringsAt("cache", k, h, u) <=> h = g /\ u = j.uid
      BY <2>2, <2>7 DEF BringsAt
    <3>2. \A h \in Gid : Cached(h)' = Cached(h) /\ groupInfo'[h] = groupInfo[h]
      BY <1>1 DEF Cached
    <3> QED
      BY <1>0, <1>3, <2>5, <2>6, <2>b, <3>1, <3>2 DEF MapAgrees, j
  <2>10. ListsAgree("cache", k, l)'
    <3>1. \A h \in Gid, u \in Uid : Lacks("cache", k, h, u) <=> h = g /\ u = j.uid
      BY <2>2, <2>7 DEF Lacks
    <3>2. \A u : Listed(u)' = Listed(u)
      BY <1>1 DEF Listed
    <3> SUFFICES ASSUME NEW h \in Gid, NEW u \in Registered
                 PROVE  h \in Listed(u)' <=>
                           u \in Row(h)' /\ ~Lacks("cache", k, h, u) /\ <<h, u>> \notin l
      BY <2>3 DEF ListsAgree, Lacks
    <3>3. u \in Uid /\ ~Lacks(pc[t], j, h, u) /\ Listed(u)' = Listed(u)
      BY <1>3, <3>2, UidAssumption DEF j
    <3>4. h \in Listed(u) <=> u \in Row(h) /\ <<h, u>> \notin l
      BY <1>0, <3>3 DEF ListsAgree, j
    <3>5. CASE h = g
      BY <2>5, <2>b, <3>1, <3>3, <3>4, <3>5
    <3>6. CASE h # g
      BY <2>5, <3>1, <3>3, <3>4, <3>6
    <3> QED
      BY <3>5, <3>6
  <2>11. \A h \in Gid : Row(h) \subseteq Row(h)'
    BY <2>5
  <2> QED
    BY <1>1, <1>b, <2>3, <2>8, <2>9, <2>10, <2>11, WroteStep
<1> QED
  BY <1>4, <1>5 DEF InsertGroup

\* The owner comes into the map.
LEMMA CacheKeeps == ASSUME NEW t, Steady(t), CacheGroup(t) PROVE Own(t)'
<1>j. PICK j, b, l : j = job[t] /\ b = Bring(t) /\ l = Lack(t)
  OBVIOUS
<1>0. /\ t \in Thread /\ j \in Jobs /\ KnowsAt(pc[t], j)
      /\ KnowsApart(pc[t], j) /\ MapAgrees(pc[t], j, b) /\ ListsAgree(pc[t], j, l)
  BY <1>j, Before
<1>1. /\ pc[t] = "cache" /\ j.op = "create" /\ j.gid \in Gid
      /\ UNCHANGED <<groupMember, groupList, loaded, told>>
  BY <1>0, <1>j DEF CacheGroup, At, KnowsAt
<1>o. \A u \in Uid : <<j.gid, u>> \notin b /\ <<j.gid, u>> \notin l
  <2>1. Writes(job[t])  BY <1>1, <1>j DEF Writes
  <2> QED  BY <1>1, <1>j, <2>1, LateGroups
<1>2. CreateKnows("cache", j)
  BY <1>0, <1>1 DEF KnowsApart
<1>3. /\ j.who = j.uid /\ j.uid \in Registered /\ IsInjective(j.todo)
      /\ ToSet(j.todo) \subseteq Registered \union {NoUid}
      /\ groupInfo[j.gid] = <<>> /\ groupMember[j.gid] = <<j.uid>>
      /\ ToSet(j.todo) \intersect Row(j.gid) \subseteq {j.uid}
      /\ ToSet(j.named) \subseteq Row(j.gid) \union ToSet(j.todo)
      /\ j.who \in Users(j) /\ ToSet(j.todo) \subseteq Users(j) \union {NoUid}
  BY <1>2 DEF CreateKnows
<1>4. Row(j.gid) = {j.uid} /\ \A g : Row(g)' = Row(g)
  BY <1>1, <1>3, OneMember DEF Row
<1>5. Comes(t, "list_read", j)
  BY <1>0, <1>j, Went DEF CacheGroup, Steady
<1>6. /\ groupInfo'[j.gid] = <<j.uid>> /\ Cached(j.gid)' = {j.uid} /\ InMap(j.gid)'
      /\ \A g \in Gid \ {j.gid} : groupInfo'[g] = groupInfo[g]
  <2>1. groupInfo' = [groupInfo EXCEPT ![j.gid] = <<j.uid>>]
    BY <1>3, <1>j DEF CacheGroup, InMap
  <2>2. /\ groupInfo'[j.gid] = <<j.uid>>
        /\ \A g \in Gid \ {j.gid} : groupInfo'[g] = groupInfo[g]
    BY <1>1, <2>1 DEF Steady, TypeInv, TypeOK
  <2>3. ToSet(groupInfo'[j.gid]) = {j.uid} /\ groupInfo'[j.gid] # <<>>
    BY <2>2, OneMember
  <2> QED
    BY <2>2, <2>3 DEF Cached, InMap
<1>7. KnowsApart("list_read", j)'
  <2>1. CreateKnows("list_read", j)'
    BY <1>1, <1>3, <1>4, <1>6 DEF CreateKnows, Filling
  <2> QED
    BY <1>1, <2>1 DEF KnowsApart
<1>8. MapAgrees("list_read", j, b)'
  <2>1. \A g \in Gid, u \in Uid : ~BringsAt("list_read", j, g, u)
    BY <1>1 DEF BringsAt
  <2>2. \A g \in Gid \ {j.gid}, u \in Uid : ~BringsAt("cache", j, g, u)
    BY <1>1 DEF BringsAt
  <2>3. \A g \in Gid \ {j.gid} : Cached(g)' = Cached(g)
    BY <1>6 DEF Cached
  <2>4. MapAgrees("cache", j, b)
    BY <1>0, <1>1
  <2>5. IsInjective(groupInfo'[j.gid])
    BY <1>6, OneMember
  <2> QED
    BY <1>4, <1>6, <1>o, <2>1, <2>2, <2>3, <2>4, <2>5 DEF MapAgrees
<1>9. ListsAgree("list_read", j, l)'
  <2>1. \A g \in Gid, u \in Uid : Lacks("list_read", j, g, u) <=> Lacks("cache", j, g, u)
    BY DEF Lacks
  <2>2. \A u : Listed(u)' = Listed(u)
    BY <1>1 DEF Listed
  <2>3. ListsAgree("cache", j, l)
    BY <1>0, <1>1
  <2> QED
    BY <1>4, <2>1, <2>2, <2>3, UidAssumption DEF ListsAgree
<1> QED
  BY <1>1, <1>4, <1>5, <1>7, <1>8, <1>9, <1>j, WroteStep

\* The uid comes into the row; the map and his own list are still to follow.
LEMMA WriteRowKeeps == ASSUME NEW t, Steady(t), WriteRow(t) PROVE Own(t)'
<1>j. PICK j, b, l : j = job[t] /\ b = Bring(t) /\ l = Lack(t)
  OBVIOUS
<1>0. /\ t \in Thread /\ j \in Jobs /\ KnowsAt(pc[t], j) /\ ~Fault
      /\ KnowsApart(pc[t], j) /\ MapAgrees(pc[t], j, b) /\ ListsAgree(pc[t], j, l)
  BY <1>j, Before
<1>1. /\ pc[t] = "row_write" /\ j.op \in {"create", "join"}
      /\ j.gid \in Gid /\ j.who \in Uid /\ j.row = groupMember[j.gid]
      /\ groupMember' = [groupMember EXCEPT ![j.gid] = Append(j.row, j.who)]
      /\ UNCHANGED <<groupList, groupInfo, loaded, told, job>>
  BY <1>0, <1>j DEF WriteRow, At, KnowsAt, KnowsApart
<1> DEFINE q == IF j.op = "create" THEN "push" ELSE "list_read"
<1>2. Comes(t, q, j)
  BY <1>0, <1>1, <1>j, Went DEF WriteRow, AfterRow, Steady
<1>o. \A u \in Uid : <<j.gid, u>> \notin b /\ <<j.gid, u>> \notin l
  <2>1. Writes(job[t])  BY <1>1, <1>j DEF Writes
  <2> QED  BY <1>1, <1>j, <2>1, LateGroups
<1>3. j.who \notin Row(j.gid)
  BY <1>0, <1>1 DEF KnowsApart, JoinKnows, CreateKnows
<1>4. Row(j.gid)' = Row(j.gid) \union {j.who} /\ \A g \in Gid \ {j.gid} : Row(g)' = Row(g)
  <2>1. groupMember[j.gid] \in Seq(Uid)
    BY <1>1 DEF Steady, TypeInv, TypeOK
  <2>2. /\ groupMember'[j.gid] = Append(groupMember[j.gid], j.who)
        /\ \A g \in Gid \ {j.gid} : groupMember'[g] = groupMember[g]
    BY <1>1 DEF Steady, TypeInv, TypeOK
  <2>3. ToSet(groupMember'[j.gid]) = ToSet(groupMember[j.gid]) \union {j.who}
    BY <1>1, <2>1, <2>2, AppendToSet
  <2> QED
    BY <2>2, <2>3 DEF Row
<1>5. InMap(j.gid) => InMap(j.gid)'
  BY <1>1 DEF InMap
<1>6. KnowsApart(q, j)'
  <2>1. CASE j.op = "join"
    <3>1. JoinKnows("row_write", j)
      BY <1>0, <1>1, <2>1 DEF KnowsApart
    <3>2. j.who = j.uid /\ j.look = 3 /\ j.uid \in Registered /\ InMap(j.gid)
      BY <3>1 DEF JoinKnows, Joining
    <3>3. JoinKnows("list_read", j)'
      BY <1>4, <1>5, <3>2 DEF JoinKnows
    <3> QED
      BY <1>1, <2>1, <3>3 DEF KnowsApart
  <2>2. CASE j.op = "create"
    <3>1. CreateKnows("row_write", j)
      BY <1>0, <1>1, <2>2 DEF KnowsApart
    <3>2. /\ j.uid \in Registered /\ j.who \in Registered /\ IsInjective(j.todo)
          /\ ToSet(j.todo) \subseteq Registered \union {NoUid}
          /\ j.uid \in Row(j.gid) /\ InMap(j.gid)
          /\ ToSet(j.todo) \intersect Row(j.gid) \subseteq {j.uid}
          /\ ToSet(j.named) \subseteq Row(j.gid) \union ToSet(j.todo) \union {j.who}
          /\ j.who \notin ToSet(j.todo)
          /\ j.who \in Users(j) /\ ToSet(j.todo) \subseteq Users(j) \union {NoUid}
      BY <3>1 DEF CreateKnows, Filling
    <3>3. /\ j.uid \in Row(j.gid)' /\ j.who \in Row(j.gid)'
          /\ ToSet(j.todo) \intersect Row(j.gid)' \subseteq {j.uid}
          /\ ToSet(j.named) \subseteq Row(j.gid)' \union ToSet(j.todo)
      BY <1>4, <3>2
    <3>4. CreateKnows("push", j)'
      BY <1>5, <3>2, <3>3 DEF CreateKnows, Filling
    <3> QED
      BY <1>1, <2>2, <3>4 DEF KnowsApart
  <2> QED
    BY <1>1, <2>1, <2>2
<1>7. j.op = "join" => j.look = 3
  BY <1>0, <1>1 DEF KnowsApart, JoinKnows, Joining
<1>8. MapAgrees(q, j, b)'
  <2>1. \A g \in Gid, u \in Uid : BringsAt(q, j, g, u) <=> g = j.gid /\ u = j.who
    BY <1>1, <1>7 DEF BringsAt
  <2>2. \A g \in Gid, u \in Uid : ~BringsAt("row_write", j, g, u)
    BY DEF BringsAt
  <2>3. \A g \in Gid : Cached(g)' = Cached(g) /\ groupInfo'[g] = groupInfo[g]
    BY <1>1 DEF Cached
  <2>4. MapAgrees("row_write", j, b)
    BY <1>0, <1>1
  <2> HIDE DEF q
  <2> QED
    BY <1>3, <1>4, <1>o, <2>1, <2>2, <2>3, <2>4 DEF MapAgrees
<1>9. ListsAgree(q, j, l)'
  <2>1. \A g \in Gid, u \in Uid : Lacks(q, j, g, u) <=> g = j.gid /\ u = j.who
    BY <1>1 DEF Lacks
  <2>2. \A g \in Gid, u \in Uid : ~Lacks("row_write", j, g, u)
    BY DEF Lacks
  <2>3. \A u : Listed(u)' = Listed(u)
    BY <1>1 DEF Listed
  <2>4. ListsAgree("row_write", j, l)
    BY <1>0, <1>1
  <2> HIDE DEF q
  <2> SUFFICES ASSUME NEW g \in Gid, NEW u \in Registered
               PROVE  g \in Listed(u)' <=>
                         u \in Row(g)' /\ ~Lacks(q, j, g, u) /\ <<g, u>> \notin l
    BY DEF ListsAgree, Lacks
  <2>5. u \in Uid /\ Listed(u)' = Listed(u)
    BY <2>3, UidAssumption
  <2>6. g \in Listed(u) <=> u \in Row(g) /\ <<g, u>> \notin l
    BY <2>2, <2>4, <2>5 DEF ListsAgree
  <2>7. CASE g = j.gid
    BY <1>3, <1>4, <1>o, <2>1, <2>5, <2>6, <2>7
  <2>8. CASE g # j.gid
    BY <1>4, <2>1, <2>5, <2>6, <2>8
  <2> QED
    BY <2>7, <2>8
<1>10. \A g \in Gid : Row(g) \subseteq Row(g)'
  BY <1>4
<1> QED
  BY <1>1, <1>2, <1>6, <1>8, <1>9, <1>10, <1>j, WroteStep

\* The uid comes into the map, which did not have it.
LEMMA PushKeeps == ASSUME NEW t, Steady(t), PushMember(t) PROVE Own(t)'
<1>j. PICK j, b, l : j = job[t] /\ b = Bring(t) /\ l = Lack(t)
  OBVIOUS
<1>0. /\ t \in Thread /\ j \in Jobs /\ KnowsAt(pc[t], j) /\ TypeInv
      /\ KnowsApart(pc[t], j) /\ MapAgrees(pc[t], j, b) /\ ListsAgree(pc[t], j, l)
  BY <1>j, Before DEF Steady
<1>1. /\ pc[t] = "push" /\ j.op \in {"create", "join"} /\ j.gid \in Gid /\ j.who \in Uid
      /\ UNCHANGED <<groupMember, groupList, loaded, told, job>>
  BY <1>0, <1>j DEF PushMember, At, KnowsAt
<1> DEFINE q == IF j.op = "create" THEN "list_read" ELSE "forward"
<1>2. Comes(t, q, j)
  BY <1>0, <1>1, <1>j, Went DEF PushMember
<1>o. \A u \in Uid : <<j.gid, u>> \notin b /\ <<j.gid, u>> \notin l
  <2>1. Writes(job[t])  BY <1>1, <1>j DEF Writes
  <2> QED  BY <1>1, <1>j, <2>1, LateGroups
<1>3. InMap(j.gid) /\ j.who \in Row(j.gid)
  BY <1>0, <1>1 DEF KnowsApart, JoinKnows, CreateKnows, Joining, Filling
<1>4. j.who \notin Cached(j.gid)
  BY <1>0, <1>1 DEF MapAgrees, BringsAt
<1>5. /\ Cached(j.gid)' = Cached(j.gid) \union {j.who} /\ InMap(j.gid)'
      /\ \A g \in Gid \ {j.gid} : groupInfo'[g] = groupInfo[g]
  BY <1>0, <1>3, <1>j, PushMemberAdds DEF Cached, InMap
<1>6. \A g : Row(g)' = Row(g)
  BY <1>1 DEF Row
<1>7. KnowsApart(q, j)'
  <2>1. CASE j.op = "join"
    <3>1. JoinKnows("push", j)
      BY <1>0, <1>1, <2>1 DEF KnowsApart
    <3>2. JoinKnows("forward", j)'
      BY <1>5, <1>6, <3>1 DEF JoinKnows, Joining
    <3> QED
      BY <1>1, <2>1, <3>2 DEF KnowsApart
  <2>2. CASE j.op = "create"
    <3>1. CreateKnows("push", j)
      BY <1>0, <1>1, <2>2 DEF KnowsApart
    <3>2. CreateKnows("list_read", j)'
      BY <1>5, <1>6, <3>1 DEF CreateKnows, Filling
    <3> QED
      BY <1>1, <2>2, <3>1, <3>2 DEF KnowsApart
  <2> QED
    BY <1>1, <2>1, <2>2
<1>8. MapAgrees(q, j, b)'
  <2>1. \A g \in Gid, u \in Uid : ~BringsAt(q, j, g, u)
    BY <1>1 DEF BringsAt
  <2>2. \A g \in Gid, u \in Uid : BringsAt("push", j, g, u) <=> g = j.gid /\ u = j.who
    BY DEF BringsAt
  <2>3. \A g \in Gid \ {j.gid} : Cached(g)' = Cached(g)
    BY <1>5 DEF Cached
  <2>4. MapAgrees("push", j, b)
    BY <1>0, <1>1
  <2>5. IsInjective(groupInfo'[j.gid])
    <3>1. groupInfo[j.gid] \in Seq(Uid) /\ IsInjective(groupInfo[j.gid])
      BY <1>0, <1>1 DEF TypeInv, TypeOK, MapAgrees
    <3>2. groupInfo'[j.gid] = Append(groupInfo[j.gid], j.who)
      BY <1>0, <1>1, <1>3, <1>j DEF PushMember, Pushed, TypeInv, TypeOK
    <3> QED
      BY <1>1, <1>4, <3>1, <3>2, AppendDistinct DEF Cached
  <2> HIDE DEF q
  <2> QED
    BY <1>3, <1>5, <1>6, <1>o, <2>1, <2>2, <2>3, <2>4, <2>5 DEF MapAgrees
<1>9. ListsAgree(q, j, l)'
  <2>1. \A g \in Gid, u \in Uid : Lacks(q, j, g, u) <=> Lacks("push", j, g, u)
    BY <1>1 DEF Lacks
  <2>2. \A u : Listed(u)' = Listed(u)
    BY <1>1 DEF Listed
  <2>3. ListsAgree("push", j, l)
    BY <1>0, <1>1
  <2> HIDE DEF q
  <2> QED
    BY <1>6, <2>1, <2>2, <2>3, UidAssumption DEF ListsAgree
<1> QED
  BY <1>1, <1>2, <1>6, <1>7, <1>8, <1>9, <1>j, WroteStep

\* The gid comes into the list of who has been put in the row.
LEMMA WriteListKeeps == ASSUME NEW t, Steady(t), WriteList(t) PROVE Own(t)'
<1>j. PICK j, b, l : j = job[t] /\ b = Bring(t) /\ l = Lack(t)
  OBVIOUS
<1>0. /\ t \in Thread /\ j \in Jobs /\ KnowsAt(pc[t], j) /\ ~Fault
      /\ KnowsApart(pc[t], j) /\ MapAgrees(pc[t], j, b) /\ ListsAgree(pc[t], j, l)
  BY <1>j, Before
<1>1. /\ pc[t] = "list_write" /\ j.op \in {"create", "join"}
      /\ j.gid \in Gid /\ j.who \in Uid /\ j.list = groupList[j.who]
      /\ groupList' = [groupList EXCEPT ![j.who] = Append(j.list, j.gid)]
      /\ UNCHANGED <<groupMember, groupInfo, loaded, told, job>>
  BY <1>0, <1>j DEF WriteList, At, KnowsAt, KnowsApart
<1>o. \A u \in Uid : <<j.gid, u>> \notin b /\ <<j.gid, u>> \notin l
  <2>1. Writes(job[t])  BY <1>1, <1>j DEF Writes
  <2> QED  BY <1>1, <1>j, <2>1, LateGroups
<1> DEFINE q == IF j.op = "create" THEN "next" ELSE "close"
<1>2. Comes(t, q, j)
  BY <1>0, <1>1, <1>j, Went DEF WriteList, AfterList, Steady
<1>3. j.who \in Row(j.gid)
  BY <1>0, <1>1 DEF KnowsApart, JoinKnows, CreateKnows
<1>4. /\ Listed(j.who)' = Listed(j.who) \union {j.gid}
      /\ \A u \in Uid \ {j.who} : Listed(u)' = Listed(u)
  <2>1. groupList[j.who] \in Seq(Gid)
    BY <1>1 DEF Steady, TypeInv, TypeOK
  <2>2. /\ groupList'[j.who] = Append(groupList[j.who], j.gid)
        /\ \A u \in Uid \ {j.who} : groupList'[u] = groupList[u]
    BY <1>1 DEF Steady, TypeInv, TypeOK
  <2>3. ToSet(groupList'[j.who]) = ToSet(groupList[j.who]) \union {j.gid}
    BY <1>1, <2>1, <2>2, AppendToSet
  <2> QED
    BY <2>2, <2>3 DEF Listed
<1>5. (\A g : Row(g)' = Row(g)) /\ (InMap(j.gid) => InMap(j.gid)')
  BY <1>1 DEF Row, InMap
<1>6. KnowsApart(q, j)'
  <2>1. CASE j.op = "join"
    <3>1. JoinKnows("list_write", j)
      BY <1>0, <1>1, <2>1 DEF KnowsApart
    <3>2. JoinKnows("close", j)'
      BY <1>5, <3>1 DEF JoinKnows, Joining
    <3> QED
      BY <1>1, <2>1, <3>2 DEF KnowsApart
  <2>2. CASE j.op = "create"
    <3>1. CreateKnows("list_write", j)
      BY <1>0, <1>1, <2>2 DEF KnowsApart
    <3>2. CreateKnows("next", j)'
      BY <1>5, <3>1 DEF CreateKnows, Filling
    <3> QED
      BY <1>1, <2>2, <3>2 DEF KnowsApart
  <2> QED
    BY <1>1, <2>1, <2>2
<1>7. MapAgrees(q, j, b)'
  <2>1. \A g \in Gid, u \in Uid : BringsAt(q, j, g, u) <=> BringsAt("list_write", j, g, u)
    BY <1>1 DEF BringsAt
  <2>2. \A g \in Gid : Cached(g)' = Cached(g) /\ groupInfo'[g] = groupInfo[g]
    BY <1>1 DEF Cached
  <2>3. MapAgrees("list_write", j, b)
    BY <1>0, <1>1
  <2> HIDE DEF q
  <2> QED
    BY <1>5, <2>1, <2>2, <2>3 DEF MapAgrees
<1>8. ListsAgree(q, j, l)'
  <2>1. \A g \in Gid, u \in Uid : ~Lacks(q, j, g, u)
    BY <1>1 DEF Lacks
  <2>2. \A g \in Gid, u \in Uid : Lacks("list_write", j, g, u) <=> g = j.gid /\ u = j.who
    BY DEF Lacks
  <2>3. ListsAgree("list_write", j, l)
    BY <1>0, <1>1
  <2> HIDE DEF q
  <2> SUFFICES ASSUME NEW g \in Gid, NEW u \in Registered
               PROVE  g \in Listed(u)' <=>
                         u \in Row(g)' /\ ~Lacks(q, j, g, u) /\ <<g, u>> \notin l
    BY DEF ListsAgree, Lacks
  <2>4. u \in Uid /\ Row(g)' = Row(g)
    BY <1>5, UidAssumption
  <2>5. g \in Listed(u) <=> u \in Row(g) /\ ~(g = j.gid /\ u = j.who) /\ <<g, u>> \notin l
    BY <2>2, <2>3, <2>4 DEF ListsAgree
  <2>6. CASE u = j.who
    BY <1>1, <1>3, <1>4, <1>o, <2>1, <2>4, <2>5, <2>6
  <2>7. CASE u # j.who
    BY <1>4, <2>1, <2>4, <2>5, <2>7
  <2> QED
    BY <2>6, <2>7
<1> QED
  BY <1>1, <1>2, <1>5, <1>6, <1>7, <1>8, <1>j, WroteStep

\* Nothing that has gone wrong is undone.
LEMMA NeverMended ==
  ASSUME TypeInv, [GroupNext]_vars, Undisturbed' PROVE Undisturbed
<1> USE DEF Undisturbed
<1>f. Fault => faults' # 0
  <2>1. faults \in 0..MaxFaults  BY DEF TypeInv, TypeOK
  <2> QED  BY <2>1, BoundAssumption DEF Fault
<1>0. Works => faults' = faults  BY DEF Works
<1>1. CASE UNCHANGED vars \/ Served  BY <1>1 DEF vars, Served
<1>2. CASE Restart  BY <1>0, <1>f, <1>2 DEF Restart, ghosts
<1>3. ASSUME NEW t \in Thread, Request(t) PROVE Undisturbed
  <2>1. PICK op, u, g, named, todo : Receive(t, op, u, g, named, todo)  BY <1>3, Received
  <2> QED  BY <2>1 DEF Receive
<1>4. ASSUME NEW t \in Thread, Work(t) PROVE Undisturbed
  <2>1. CASE OpenDb(t) \/ OpenDbFails(t)
    BY <1>f, <2>1 DEF OpenDb, OpenDbFails, ghosts
  <2>2. CASE LookUp(t) \/ CloseDb(t) \/ CheckMember(t)
    BY <1>0, <1>f, <2>2 DEF LookUp, CloseDb, CheckMember, ghosts
  <2>3. CASE InsertGroup(t) \/ CacheGroup(t) \/ NextMember(t)
    BY <1>0, <1>f, <2>3 DEF InsertGroup, CacheGroup, NextMember, ghosts
  <2>4. CASE ReadRow(t) \/ WriteRow(t)
    BY <1>0, <1>f, <2>4 DEF ReadRow, WriteRow, ghosts
  <2>5. CASE PushMember(t) \/ ReadList(t) \/ WriteList(t)
    BY <1>0, <1>f, <2>5 DEF PushMember, ReadList, WriteList, ghosts
  <2>6. CASE ReplyCreate(t) \/ Forward(t)
    BY <2>6 DEF ReplyCreate, Forward, ghosts
  <2>7. CASE EmptyMember(t) \/ NoSuchGroup(t) \/ NullHandle(t)
    BY <2>7 DEF EmptyMember, NoSuchGroup, NullHandle, LoseMemory
  <2> QED  BY <1>4, <2>1, <2>2, <2>3, <2>4, <2>5, <2>6, <2>7 DEF Work
<1> QED  BY <1>1, <1>2, <1>3, <1>4 DEF GroupNext

LEMMA OverlapsBoth == ASSUME NEW j, NEW k PROVE Overlaps(j, k) <=> Overlaps(k, j)
BY DEF Overlaps

LEMMA NoJobWritesNot == ~Writes(NoJob)
BY DEF Writes, NoJob, NewJob

\* What is left of the request of a handler after a step of it.
LEMMA SameRequest ==
  ASSUME NEW t, Steady(t), Work(t), ~InsertGroup(t)
  PROVE  \/ ~Writes(job'[t])
         \/ /\ job'[t].op = job[t].op /\ job'[t].uid = job[t].uid
            /\ job'[t].gid = job[t].gid /\ job'[t].named = job[t].named
<1>0. t \in Thread /\ job \in [Thread -> Jobs] /\ job[t] \in Jobs
  BY DEF Steady, TypeInv, TypeOK
<1>s. ASSUME UNCHANGED job PROVE job'[t] = job[t]
  BY <1>s
<1>r. ASSUME Return(t) PROVE job'[t] = NoJob
  BY <1>0, <1>r DEF Return
<1>k. ASSUME NEW k, job' = [job EXCEPT ![t] = k] PROVE job'[t] = k
  BY <1>0, <1>k
<1>1. CASE OpenDb(t) \/ OpenDbFails(t)
  BY <1>1, <1>s, <1>r, NoJobWritesNot DEF OpenDb, OpenDbFails
<1>2. CASE LookUp(t)
  BY <1>0, <1>2 DEF LookUp, Jobs
<1>3. CASE CloseDb(t)
  <2>1. CASE UNCHANGED job \/ Return(t)  BY <2>1, <1>s, <1>r, NoJobWritesNot
  <2>2. CASE job' = [job EXCEPT ![t].look = 2]  BY <1>0, <2>2 DEF Jobs
  <2> QED  BY <1>3, <2>1, <2>2 DEF CloseDb
<1>4. CASE CheckMember(t)
  <2>1. CASE Return(t)  BY <2>1, <1>r, NoJobWritesNot
  <2>2. CASE job' = [job EXCEPT ![t].look = 3]  BY <1>0, <2>2 DEF Jobs
  <2> QED  BY <1>4, <2>1, <2>2 DEF CheckMember
<1>5. CASE CacheGroup(t) \/ PushMember(t) \/ WriteRow(t) \/ WriteList(t)
  BY <1>5, <1>s DEF CacheGroup, PushMember, WriteRow, WriteList
<1>6. CASE NextMember(t)
  BY <1>0, <1>6 DEF NextMember, Jobs
<1>7. CASE ReadRow(t)
  BY <1>0, <1>7 DEF ReadRow, Jobs
<1>8. CASE ReadList(t)
  BY <1>0, <1>8 DEF ReadList, Jobs
<1>9. CASE ReplyCreate(t) \/ Forward(t)
  BY <1>9, <1>r, NoJobWritesNot DEF ReplyCreate, Forward
<1>10. CASE EmptyMember(t) \/ NoSuchGroup(t) \/ NullHandle(t)
  BY <1>10 DEF EmptyMember, NoSuchGroup, NullHandle, UseNull, Die, Up, Steady
<1> QED  BY <1>1, <1>2, <1>3, <1>4, <1>5, <1>6, <1>7, <1>8, <1>9, <1>10 DEF Work

\* The group a writing handler is about has a row, or is not inserted.
LEMMA WriterGroup ==
  ASSUME NEW t, Steady(t), NEW x \in Thread, Writes(job[x])
  PROVE  LET p == pc[x]
             j == job[x] IN
         \/ j.gid = NoGid /\ j.op = "create" /\ p \in {"connect", "insert", "close"}
         \/ j.gid \in Gid /\ InTable(j.gid)
<1>1. PICK p, j : p = pc[x] /\ j = job[x]  OBVIOUS
<1>2. /\ j \in Jobs /\ p \in Places /\ p # "idle" /\ j.op \in {"create", "join"}
      /\ KnowsAt(p, j) /\ GroupThere(p, j) /\ KnowsApart(p, j)
  BY <1>1 DEF Steady, TypeInv, TypeOK, Knows, ListInv, ApartInv, KnowsApart, Writes
<1>3. CASE j.op = "join"
  BY <1>1, <1>2, <1>3 DEF KnowsAt, GroupThere
<1>4. CASE j.op = "create"
  <2>1. /\ CreateKnows(p, j) /\ j.gid \in Gid \union {NoGid}
        /\ p \notin {"lookup", "check", "reopen", "forward"}
    BY <1>2, <1>4 DEF KnowsApart, KnowsAt, Jobs
  <2>2. CASE p \in {"connect", "insert"}
    BY <1>1, <1>4, <2>1, <2>2 DEF CreateKnows
  <2>3. CASE p \in {"close", "reply"}
    <3>1. CASE j.gid = NoGid
      BY <1>1, <1>2, <1>4, <2>3, <3>1, GidAssumption DEF KnowsAt
    <3>2. CASE j.gid # NoGid
      <4>1. j.gid \in Gid /\ j.uid \in Row(j.gid)
        BY <2>1, <2>3, <3>2 DEF CreateKnows
      <4>2. InTable(j.gid)
        BY <4>1 DEF InTable, Row, ToSet
      <4> QED  BY <1>1, <2>3, <4>1, <4>2
    <3> QED  BY <3>1, <3>2
  <2>4. CASE p \in {"cache"} \union Filling
    BY <1>1, <1>2, <1>4, <2>4 DEF KnowsAt, GroupThere, Filling
  <2> QED  BY <1>2, <2>1, <2>2, <2>3, <2>4 DEF Places, Filling
<1> QED  BY <1>2, <1>3, <1>4

\* The handlers stay apart.
LEMMA StaysApart ==
  ASSUME NEW t, Steady(t), NEW x \in Thread, x # t
  PROVE  ~Overlaps(job'[t], job[x])
<1>0. ~Overlaps(job[t], job[x]) /\ t \in Thread /\ job \in [Thread -> Jobs]
  BY DEF Steady, ApartInv, TypeInv, TypeOK
<1>1. CASE Request(t)
  <2>1. PICK op, u, g, named, todo : Receive(t, op, u, g, named, todo)  BY <1>1, Received
  <2>2. PICK k : k = NewJob(op, u, g, named, todo)  OBVIOUS
  <2>3. job' = [job EXCEPT ![t] = k] /\ ~Overlaps(k, job[x])
    BY <2>1, <2>2 DEF Receive, Steady, Undisturbed
  <2> QED  BY <1>0, <2>3
<1>2. CASE Work(t) /\ ~InsertGroup(t)
  BY <1>0, <1>2, SameRequest DEF Overlaps, Users, Writes
<1>3. CASE InsertGroup(t)
  <2>1. CASE UNCHANGED job  BY <1>0, <2>1
  <2>2. ASSUME NEW g \in Gid, ~InTable(g), job' = [job EXCEPT ![t].gid = g]
        PROVE  ~Overlaps(job'[t], job[x])
    <3>1. PICK k : k = job'[t]  OBVIOUS
    <3>2. k = [job[t] EXCEPT !.gid = g]  BY <1>0, <2>2, <3>1
    <3>3. k.op = job[t].op /\ k.uid = job[t].uid /\ k.named = job[t].named /\ k.gid = g
      BY <1>0, <3>2 DEF Jobs
    <3>4. Writes(job[x]) => job[x].gid # g
      BY <2>2, WriterGroup, GidAssumption
    <3> QED  BY <1>0, <3>1, <3>3, <3>4 DEF Overlaps, Users, Writes
  <2> QED  BY <1>3, <2>1, <2>2 DEF InsertGroup
<1> QED  BY <1>1, <1>2, <1>3 DEF Steady

\* What a step leaves alone: the groups and the users it is not about.
LEMMA GroupsOfOthers ==
  ASSUME NEW t, Steady(t), NEW g \in Gid, InTable(g),
         ~(Writes(job[t]) /\ job[t].gid = g)
  PROVE  groupMember'[g] = groupMember[g] /\ groupInfo'[g] = groupInfo[g]
<1>0. /\ t \in Thread /\ KnowsAt(pc[t], job[t]) /\ Up'
      /\ groupMember \in [Gid -> Seq(Uid)] /\ groupInfo \in [Gid -> Seq(Uid)]
  BY DEF Steady, TypeInv, TypeOK, Knows
<1>1. groupMember'[g] = groupMember[g]
  <2>1. CASE InsertGroup(t)
    BY <1>0, <2>1 DEF InsertGroup
  <2>2. CASE WriteRow(t)
    <3>1. Writes(job[t])
      BY <1>0, <2>2 DEF WriteRow, At, KnowsAt, Writes
    <3> QED  BY <1>0, <2>2, <3>1 DEF WriteRow
  <2> QED  BY <1>0, <2>1, <2>2, OnlyWriters DEF Steady
<1>2. groupInfo'[g] = groupInfo[g]
  <2>1. CASE CacheGroup(t) \/ PushMember(t)
    <3>1. Writes(job[t])
      BY <1>0, <2>1 DEF CacheGroup, PushMember, At, KnowsAt, Writes
    <3> QED  BY <1>0, <2>1, <3>1 DEF CacheGroup, PushMember
  <2> QED  BY <1>0, <2>1, MapWriters DEF Steady
<1> QED  BY <1>1, <1>2

LEMMA ListsOfOthers ==
  ASSUME NEW t, Steady(t), NEW u \in Uid, ~(WriteList(t) /\ job[t].who = u)
  PROVE  groupList'[u] = groupList[u]
<1>1. CASE Request(t)
  BY <1>1, RequestFrame
<1>2. CASE WriteList(t)
  BY <1>2 DEF WriteList, Steady, TypeInv, TypeOK
<1>3. CASE Work(t) /\ ~WriteList(t)
  BY <1>3 DEF Work, OpenDb, OpenDbFails, LookUp, CloseDb, CheckMember, InsertGroup,
     CacheGroup, NextMember, ReadRow, WriteRow, PushMember, ReadList, ReplyCreate,
     Forward, EmptyMember, NoSuchGroup, NullHandle, LoseMemory
<1> QED  BY <1>1, <1>2, <1>3 DEF Steady

\* What the other handlers know stays true.
LEMMA OthersKnow ==
  ASSUME NEW t, Steady(t), NEW x \in Thread, x # t
  PROVE  KnowsApart(pc[x], job[x])'
<1>1. PICK p, j : p = pc[x] /\ j = job[x]  OBVIOUS
<1>2. /\ pc'[x] = p /\ job'[x] = j /\ t \in Thread
      /\ KnowsAt(p, j) /\ KnowsApart(p, j)
      /\ ~Overlaps(job[t], j) /\ KnowsApart(pc[t], job[t]) /\ KnowsAt(pc[t], job[t])
  BY <1>1, OthersStay DEF Steady, TypeInv, Knows, ApartInv
<1>3. CASE ~Writes(j)
  <2>1. p \notin {"row_write", "list_write"}
    BY <1>2, <1>3 DEF KnowsAt, Writes
  <2> QED
    BY <1>2, <1>3, <2>1 DEF KnowsApart, Writes
<1>4. CASE Writes(j)
  <2>1. p # "idle" /\ j.op \in {"create", "join"}
    BY <1>2, <1>4 DEF KnowsApart, Writes
  <2>2. p = "list_write" => j.list = groupList'[j.who]
    <3>1. ASSUME p = "list_write" PROVE j.who \in Uid /\ j.who \in Users(j)
      BY <1>2, <2>1, <3>1 DEF KnowsAt, KnowsApart, JoinKnows, CreateKnows, Filling, Users
    <3>2. ASSUME p = "list_write" PROVE ~(WriteList(t) /\ job[t].who = j.who)
      <4>1. ASSUME WriteList(t) PROVE Writes(job[t]) /\ job[t].who \in Users(job[t])
        BY <1>2, <4>1 DEF WriteList, At, KnowsAt, KnowsApart, JoinKnows, CreateKnows,
           Filling, Users, Writes
      <4> QED
        BY <1>2, <1>4, <3>1, <3>2, <4>1 DEF Overlaps
    <3>3. ASSUME p = "list_write" PROVE groupList'[j.who] = groupList[j.who]
      BY <3>1, <3>2, <3>3, ListsOfOthers
    <3> QED
      BY <1>2, <3>3 DEF KnowsApart
  <2>3. CASE j.gid = NoGid /\ j.op = "create" /\ p \in {"connect", "insert", "close"}
    <3>1. CreateKnows(p, j)
      BY <1>2, <2>3 DEF KnowsApart
    <3>2. CreateKnows(p, j)'
      BY <2>3, <3>1 DEF CreateKnows, Filling
    <3> QED
      BY <1>2, <2>3, <3>2 DEF KnowsApart
  <2>4. CASE j.gid \in Gid /\ InTable(j.gid)
    <3>1. groupMember'[j.gid] = groupMember[j.gid] /\ groupInfo'[j.gid] = groupInfo[j.gid]
      BY <1>2, <1>4, <2>4, GroupsOfOthers, GidAssumption DEF Overlaps
    <3>2. Row(j.gid)' = Row(j.gid) /\ InMap(j.gid)' = InMap(j.gid)
      BY <3>1 DEF Row, InMap
    <3>3. JoinKnows(p, j) => JoinKnows(p, j)'
      BY <3>2 DEF JoinKnows
    <3>4. CreateKnows(p, j) => CreateKnows(p, j)'
      BY <3>1, <3>2 DEF CreateKnows
    <3> QED
      BY <1>2, <2>1, <2>2, <3>1, <3>3, <3>4 DEF KnowsApart
  <2> QED
    BY <1>1, <1>4, <2>3, <2>4, WriterGroup
<1> QED
  BY <1>3, <1>4

\* So the whole holds after a step that has seen to its own.
LEMMA StepApart == ASSUME NEW t, Steady(t), Own(t)' PROVE ApartInv'
<1>0. t \in Thread /\ Up' /\ loaded' /\ TellsMembers'
  BY DEF Steady, Own
<1>1. \A x \in Thread : KnowsApart(pc[x], job[x])'
  BY OthersKnow DEF Own
<1>2. ASSUME NEW x \in Thread, NEW y \in Thread, x # y
      PROVE  ~Overlaps(job'[x], job'[y])
  <2>1. ASSUME NEW z \in Thread, z # t PROVE job'[z] = job[z]
    BY <1>0, <2>1, OthersStay DEF Steady
  <2>2. CASE x = t
    BY <1>2, <2>1, <2>2, StaysApart
  <2>3. CASE y = t
    <3>1. ~Overlaps(job'[t], job[x])
      BY <1>2, <2>3, StaysApart
    <3> QED
      BY <1>2, <2>1, <2>3, <3>1, OverlapsBoth
  <2>4. CASE x # t /\ y # t
    BY <1>2, <2>1, <2>4 DEF Steady, ApartInv
  <2> QED
    BY <2>2, <2>3, <2>4
<1>3. AllMapsAgree'
  <2>1. ASSUME NEW g \in Gid, NEW u \in Uid
        PROVE  (\E s \in Thread : BringsAt(pc'[s], job'[s], g, u)) <=>
                  BringsAt(pc'[t], job'[t], g, u) \/ <<g, u>> \in Bring(t)'
    BY <1>0 DEF Bring, BringsAt
  <2>2. MapAgrees(pc[t], job[t], Bring(t))'
    BY DEF Own
  <2>3. \A g \in Gid :
          /\ IsInjective(groupInfo'[g])
          /\ \A u \in Uid : u \in Cached(g)' <=>
                u \in Row(g)' /\ ~BringsAt(pc'[t], job'[t], g, u) /\ <<g, u>> \notin Bring(t)'
    BY <2>2 DEF MapAgrees, BringsAt
  <2>4. \A g \in Gid :
          /\ IsInjective(groupInfo'[g])
          /\ \A u \in Uid : u \in Cached(g)' <=>
                u \in Row(g)' /\ ~\E s \in Thread : BringsAt(pc'[s], job'[s], g, u)
    BY <2>1, <2>3
  <2> QED
    BY <2>4 DEF AllMapsAgree, BringsAt
<1>4. AllListsAgree'
  <2>1. ASSUME NEW g \in Gid, NEW u \in Uid
        PROVE  (\E s \in Thread : Lacks(pc'[s], job'[s], g, u)) <=>
                  Lacks(pc'[t], job'[t], g, u) \/ <<g, u>> \in Lack(t)'
    BY <1>0 DEF Lack, Lacks
  <2>2. ListsAgree(pc[t], job[t], Lack(t))'
    BY DEF Own
  <2>3. \A g \in Gid : \A u \in Registered : g \in Listed(u)' <=>
          u \in Row(g)' /\ ~Lacks(pc'[t], job'[t], g, u) /\ <<g, u>> \notin Lack(t)'
    BY <2>2 DEF ListsAgree, Lacks
  <2>4. \A g \in Gid : \A u \in Registered : g \in Listed(u)' <=>
          u \in Row(g)' /\ ~\E s \in Thread : Lacks(pc'[s], job'[s], g, u)
    BY <2>1, <2>3, UidAssumption
  <2> QED
    BY <2>4 DEF AllListsAgree, Lacks
<1>5. \A x, y \in Thread : x # y => ~Overlaps(job[x], job[y])'
  BY <1>2 DEF Overlaps, Writes, Users
<1> QED
  BY <1>0, <1>1, <1>3, <1>4, <1>5 DEF ApartInv

\* With no handler at work nothing is left to be done.
LEMMA IdleLate ==
  ASSUME NEW g \in Gid, NEW u \in Uid, NEW j
  PROVE  ~BringsAt("idle", j, g, u) /\ ~Lacks("idle", j, g, u)
BY DEF BringsAt, Lacks

\* A death that cuts nobody off leaves the tables in step.
LEMMA DeathKeeps ==
  ASSUME NEW t \in Thread, TypeInv, ApartInv, Work(t), Undisturbed', ~Up'
  PROVE  ApartInv'
<1>0. LoseMemory /\ loaded /\ AllListsAgree
  BY LivesOrDies DEF ApartInv
<1>1. EmptyMember(t)
  <2>1. EmptyMember(t) \/ NoSuchGroup(t) \/ NullHandle(t)
    BY <1>0, LivesOrDies DEF Work, OpenDb, OpenDbFails, LookUp, CloseDb, CheckMember,
       InsertGroup, CacheGroup, NextMember, ReadRow, WriteRow, PushMember, ReadList,
       WriteList, ReplyCreate, Forward, At, Up, dbVars, Connect, Disconnect, UseHandle
  <2>2. ~NoSuchGroup(t)
    BY DEF NoSuchGroup, Undisturbed
  <2>3. ~NullHandle(t)
    BY DEF NullHandle, Undisturbed
  <2> QED
    BY <2>1, <2>2, <2>3
<1>2. \A g \in Gid, u \in Uid, s \in Thread : ~Lacks(pc[s], job[s], g, u)
  <2>1. pc[t] = "next" /\ \A s \in Thread \ {t} : ~Writes(job[s])
    BY <1>1 DEF EmptyMember, At, OthersWrite, Undisturbed
  <2>2. \A s \in Thread : KnowsAt(pc[s], job[s])
    BY DEF TypeInv, Knows
  <2> QED
    BY <2>1, <2>2 DEF Lacks, KnowsAt, Writes
<1>3. /\ loaded' /\ told' = {} /\ groupMember' = groupMember /\ groupList' = groupList
      /\ \A s \in Thread : pc'[s] = "idle" /\ job'[s] = NoJob
  BY <1>0 DEF LoseMemory
<1>4. TellsMembers'
  BY <1>3 DEF TellsMembers
<1>5. \A s \in Thread : KnowsApart(pc[s], job[s])'
  BY <1>3, NoJobWritesNot DEF KnowsApart, Writes
<1>6. \A s, x \in Thread : s # x => ~Overlaps(job[s], job[x])'
  BY <1>3, NoJobWritesNot DEF Overlaps, Writes
<1>7. AllListsAgree'
  <2>1. \A g \in Gid : Row(g)' = Row(g) /\ \A u \in Registered : Listed(u)' = Listed(u)
    BY <1>3 DEF Row, Listed
  <2>2. \A g \in Gid, u \in Uid, s \in Thread : ~Lacks(pc'[s], job'[s], g, u)
    BY <1>3, IdleLate
  <2>3. \A g \in Gid, u \in Registered : g \in Listed(u) <=> u \in Row(g)
    BY <1>0, <1>2, UidAssumption DEF AllListsAgree
  <2>4. \A u \in Registered : u \in Uid
    BY UidAssumption
  <2> QED
    BY <2>1, <2>2, <2>3, <2>4 DEF AllListsAgree, Lacks
<1> QED
  BY <1>3, <1>4, <1>5, <1>6, <1>7 DEF ApartInv

\* The map is loaded from a table the lists agree with.
LEMMA RestartKeeps ==
  ASSUME TypeInv, RowInv, ApartInv, Restart, Undisturbed, Undisturbed'
  PROVE  ApartInv'
<1>0. /\ ~Fault /\ ~Up /\ Up' /\ told = {} /\ AllListsAgree
      /\ \A t \in Thread : pc[t] = "idle" /\ KnowsApart(pc[t], job[t])
      /\ \A t, x \in Thread : t # x => ~Overlaps(job[t], job[x])
  BY NoFault DEF Undisturbed, ApartInv, Restart, Reboot, Up
<1>1. /\ groupInfo' = groupMember /\ loaded'
      /\ UNCHANGED <<groupMember, groupList, pc, job, told>>
  BY <1>0 DEF Restart, AllGroups
<1>2. \A t \in Thread : KnowsApart(pc[t], job[t])'
  BY <1>0, <1>1 DEF KnowsApart
<1>3. AllMapsAgree'
  <2>1. \A g \in Gid : IsInjective(groupMember[g])
    BY DEF RowInv, DbMembersDistinct
  <2>2. \A g \in Gid, u \in Uid, s \in Thread : ~BringsAt(pc'[s], job'[s], g, u)
    BY <1>0, <1>1, IdleLate
  <2>3. \A g \in Gid : Cached(g)' = Row(g) /\ Row(g)' = Row(g)
    BY <1>1 DEF Cached, Row
  <2> QED
    BY <1>1, <2>1, <2>2, <2>3 DEF AllMapsAgree, BringsAt
<1>4. AllListsAgree'
  BY <1>0, <1>1 DEF AllListsAgree, Listed, Row, Lacks
<1>5. TellsMembers' /\ \A t, x \in Thread : t # x => ~Overlaps(job[t], job[x])'
  BY <1>0, <1>1 DEF TellsMembers, Overlaps
<1> QED
  BY <1>0, <1>1, <1>2, <1>3, <1>4, <1>5 DEF ApartInv

LEMMA InitApart == Init => ApartInv
<1> SUFFICES ASSUME Init PROVE ApartInv
  OBVIOUS
<1>1. /\ \A g \in Gid : groupInfo[g] = <<>> /\ groupMember[g] = <<>>
      /\ \A u \in Uid : groupList[u] = <<>>
      /\ \A t \in Thread : pc[t] = "idle" /\ job[t] = NoJob
      /\ loaded /\ told = {}
  BY DEF Init
<1>2. ToSet(<<>>) = {} /\ IsInjective(<<>>)
  BY DEF ToSet, IsInjective
<1>3. \A t \in Thread : KnowsApart(pc[t], job[t])
  BY <1>1, NoJobWritesNot DEF KnowsApart, Writes
<1>4. \A t, x \in Thread : t # x => ~Overlaps(job[t], job[x])
  BY <1>1, NoJobWritesNot DEF Overlaps
<1>5. AllMapsAgree
  BY <1>1, <1>2 DEF AllMapsAgree, Cached, Row
<1>6. AllListsAgree
  BY <1>1, <1>2, UidAssumption DEF AllListsAgree, Listed, Row
<1> QED
  BY <1>1, <1>3, <1>4, <1>5, <1>6 DEF ApartInv, TellsMembers

\* While undisturbed.
LEMMA NextApart ==
  ASSUME TypeInv, TypeInv', ListInv, RowInv, Undisturbed => ApartInv, [GroupNext]_vars
  PROVE  Undisturbed' => ApartInv'
<1> SUFFICES ASSUME Undisturbed' PROVE ApartInv'
  OBVIOUS
<1>0. Undisturbed /\ ApartInv
  BY NeverMended
<1>1. CASE UNCHANGED vars \/ Served
  <2>1. UNCHANGED vars
    BY <1>1 DEF Served
  <2>2. AllMapsAgree' <=> AllMapsAgree
    BY <2>1 DEF vars, AllMapsAgree, Cached, Row, BringsAt
  <2>3. AllListsAgree' <=> AllListsAgree
    BY <2>1 DEF vars, AllListsAgree, Listed, Row, Lacks
  <2>4. ASSUME NEW t \in Thread PROVE KnowsApart(pc[t], job[t])' <=> KnowsApart(pc[t], job[t])
    <3>1. JoinKnows(pc[t], job[t])' <=> JoinKnows(pc[t], job[t])
      BY <2>1 DEF vars, JoinKnows, InMap, Row
    <3>2. CreateKnows(pc[t], job[t])' <=> CreateKnows(pc[t], job[t])
      BY <2>1 DEF vars, CreateKnows, InMap, Row
    <3> QED
      BY <2>1, <3>1, <3>2 DEF vars, KnowsApart
  <2>5. TellsMembers' <=> TellsMembers
    BY <2>1 DEF vars, TellsMembers, Row
  <2>6. \A t, x \in Thread : Overlaps(job[t], job[x])' <=> Overlaps(job[t], job[x])
    BY <2>1 DEF vars, Overlaps, Users, Writes
  <2> QED
    BY <1>0, <2>1, <2>2, <2>3, <2>4, <2>5, <2>6 DEF vars, ApartInv, Up
<1>2. CASE Restart
  BY <1>0, <1>2, RestartKeeps
<1>3. ASSUME NEW t \in Thread, Request(t) \/ Work(t) PROVE ApartInv'
  <2>1. Up
    BY <1>3, LivesOrDies
  <2>2. CASE Up'
    <3>1. Steady(t)
      BY <1>0, <1>3, <2>1, <2>2 DEF Steady
    <3>2. ~OpenDbFails(t)
      BY <1>0, NoFault DEF OpenDbFails, Undisturbed
    <3>3. ~EmptyMember(t) /\ ~NoSuchGroup(t) /\ ~NullHandle(t)
      BY <2>2 DEF EmptyMember, NoSuchGroup, NullHandle, UseNull, Die, Up
    <3>4. Own(t)'
      BY <1>3, <3>1, <3>2, <3>3, RequestQuiet, OpenQuiet, LookUpQuiet, CloseQuiet,
         CheckQuiet, InsertKeeps, CacheKeeps, NextQuiet, ReadRowQuiet, WriteRowKeeps,
         PushKeeps, ReadListQuiet, WriteListKeeps, ReplyQuiet, ForwardQuiet DEF Work
    <3> QED
      BY <3>1, <3>4, StepApart
  <2>3. CASE ~Up'
    <3>1. ~Request(t)
      BY <2>3, RequestFrame
    <3> QED
      BY <1>0, <1>3, <2>3, <3>1, DeathKeeps
  <2> QED
    BY <2>2, <2>3
<1> QED
  BY <1>1, <1>2, <1>3 DEF GroupNext

LEMMA ApartInvHolds == GroupSpec => [](TypeInv /\ (Undisturbed => ApartInv))
<1>1. Init => (Undisturbed => ApartInv)
  BY InitApart
<1>2. TypeInv /\ TypeInv' /\ ListInv /\ RowInv /\ (Undisturbed => ApartInv) /\ [GroupNext]_vars
      => (Undisturbed => ApartInv)'
  BY NextApart
<1> QED
  BY <1>1, <1>2, InitTypeInv, NextTypeInv, InitRowInv, NextRowInv, InitListInv, NextListInv,
     PTL DEF GroupSpec

\* While the handlers that write keep apart and nothing fails, and as long as no
\* uid is taken for another, chat_group, the grouplists and group_info agree
\* whenever no handler runs, deaths and restarts included, and the map lists
\* nobody twice.
THEOREM PlacesAgreeApart == GroupSpec => []PlacesAgree
<1>1. TypeInv /\ (Undisturbed => ApartInv) => PlacesAgree
  <2> SUFFICES ASSUME TypeInv, ApartInv, Quiescent, NEW g \in Gid
               PROVE  /\ IsInjective(groupInfo[g]) /\ Cached(g) = Row(g)
                      /\ \A u \in Registered : g \in Listed(u) <=> u \in Row(g)
    BY DEF PlacesAgree, Cached, Row, Listed, Quiescent
  <2>1. AllMapsAgree /\ AllListsAgree /\ \A t \in Thread : pc[t] = "idle"
    BY DEF Quiescent, ApartInv
  <2>2. \A u \in Uid, t \in Thread : ~BringsAt(pc[t], job[t], g, u) /\ ~Lacks(pc[t], job[t], g, u)
    BY <2>1, IdleLate
  <2>3. Cached(g) \subseteq Uid /\ Row(g) \subseteq Uid
    BY ToSetType DEF TypeInv, TypeOK, Cached, Row
  <2>4. Cached(g) = Row(g) /\ IsInjective(groupInfo[g])
    BY <2>1, <2>2, <2>3 DEF AllMapsAgree
  <2> QED
    BY <2>1, <2>2, <2>4, UidAssumption DEF AllListsAgree
<1> QED
  BY <1>1, ApartInvHolds, PTL

\* The steps of such handlers are GroupDirectory's, or none: a new row and a
\* row written back enter a member, the answers tell members, a death resets.
LEMMA TableStep ==
  ASSUME TypeInv, Undisturbed => ApartInv, [GroupNext]_vars
  PROVE  [InDatabase!Next]_InDatabase!dirVars
<1> DEFINE m == [g \in Gid |-> ToSet(groupMember[g])]
           n == [g \in Gid |-> ToSet(groupMember'[g])]
<1>a. CASE ~Undisturbed'
  BY <1>a DEF InDatabase!Next
<1>b. CASE Undisturbed'
  <2>0. Undisturbed /\ ApartInv /\ ~Fault
    BY <1>b, NeverMended, NoFault DEF Undisturbed
  <2>1. n = m /\ told' = told => InDatabase!dirVars' = InDatabase!dirVars
    BY <1>b, <2>0 DEF InDatabase!dirVars
  <2>2. /\ \E g \in Gid, u \in Uid : n = [m EXCEPT ![g] = @ \union {u}]
        /\ told' = told
        => InDatabase!Enter
    BY DEF InDatabase!Enter
  <2>3. /\ \E g \in Gid : \E us \in SUBSET m[g] : told' = told \union ({g} \X us)
        /\ n = m
        => InDatabase!Tell
    BY DEF InDatabase!Tell
  <2>4. told' = {} /\ n = m => InDatabase!Reset
    BY DEF InDatabase!Reset
  <2>5. InDatabase!Enter \/ InDatabase!Tell \/ InDatabase!Reset => InDatabase!Next
    BY <1>b, <2>0 DEF InDatabase!Next
  <2>6. groupMember' = groupMember => n = m
    OBVIOUS
  <2>7. \A g \in Gid : m[g] = Row(g) /\ n[g] = Row(g)'
    BY DEF Row
  <2> HIDE DEF m, n
  <2>8. m = [g \in Gid |-> m[g]] /\ n = [g \in Gid |-> n[g]]
    BY DEF m, n
  <2>9. ASSUME NEW g \in Gid, NEW u \in Uid, UNCHANGED told, groupMember[g] \in Seq(Uid),
               \/ groupMember[g] = <<>> /\ groupMember' = [groupMember EXCEPT ![g] = <<u>>]
               \/ groupMember' = [groupMember EXCEPT ![g] = Append(groupMember[g], u)]
        PROVE  InDatabase!Next
    <3>1. /\ groupMember'[g] \in {<<u>>, Append(groupMember[g], u)}
          /\ groupMember'[g] = <<u>> => groupMember[g] = <<>> \/ <<u>> = Append(groupMember[g], u)
          /\ \A h \in Gid \ {g} : groupMember'[h] = groupMember[h]
      BY <2>9 DEF TypeInv, TypeOK
    <3>2. <<u>> = Append(<<>>, u)
      OBVIOUS
    <3>3. groupMember'[g] = Append(groupMember[g], u)
      BY <3>1, <3>2
    <3>4. ToSet(groupMember'[g]) = ToSet(groupMember[g]) \union {u}
      BY <2>9, <3>3, AppendToSet
    <3>5. n[g] = m[g] \union {u} /\ \A h \in Gid \ {g} : n[h] = m[h]
      BY <2>7, <3>1, <3>4 DEF Row
    <3>6. n = [m EXCEPT ![g] = @ \union {u}]
      BY <2>8, <3>5
    <3> QED
      BY <2>2, <2>5, <2>9, <3>6
  <2>10. CASE UNCHANGED vars \/ Served
    BY <2>1, <2>6, <2>10 DEF vars, Served
  <2>11. CASE Restart
    BY <2>1, <2>6, <2>11 DEF Restart
  <2>12. ASSUME NEW t \in Thread, Request(t) \/ Work(t)
         PROVE  InDatabase!Next \/ UNCHANGED InDatabase!dirVars
    <3>0. /\ KnowsAt(pc[t], job[t]) /\ KnowsApart(pc[t], job[t]) /\ ~Fault
          /\ groupMember \in [Gid -> Seq(Uid)]
      BY <2>0 DEF ApartInv, TypeInv, TypeOK, Knows
    <3>1. CASE LoseMemory
      BY <2>4, <2>5, <2>6, <3>1 DEF LoseMemory
    <3>2. CASE InsertGroup(t)
      <4>1. pc[t] = "insert" /\ job[t].uid \in Uid /\ UNCHANGED told
        BY <3>0, <3>2 DEF InsertGroup, At, KnowsAt
      <4>2. CASE UNCHANGED groupMember
        BY <2>1, <2>6, <4>1, <4>2
      <4>3. ASSUME NEW g \in Gid, ~InTable(g),
                   groupMember' = [groupMember EXCEPT ![g] = <<job[t].uid>>]
            PROVE  InDatabase!Next
        BY <2>9, <3>0, <4>1, <4>3 DEF InTable
      <4> QED
        BY <3>2, <4>2, <4>3 DEF InsertGroup
    <3>3. CASE WriteRow(t)
      <4>1. /\ job[t].gid \in Gid /\ job[t].who \in Uid /\ UNCHANGED told
            /\ job[t].row = groupMember[job[t].gid]
        BY <3>0, <3>3 DEF WriteRow, At, KnowsAt, KnowsApart
      <4>2. groupMember' = [groupMember EXCEPT ![job[t].gid] =
                               Append(groupMember[job[t].gid], job[t].who)]
        BY <3>0, <3>3, <4>1 DEF WriteRow
      <4> QED
        BY <2>9, <3>0, <4>1, <4>2
    <3>4. CASE ReplyCreate(t)
      <4>1. /\ pc[t] = "reply" /\ job[t].op = "create" /\ job[t].gid \in Gid
            /\ UNCHANGED groupMember
        BY <3>0, <3>4 DEF ReplyCreate, At, KnowsAt
      <4>2. ToSet(job[t].named) \subseteq m[job[t].gid]
        BY <2>7, <3>0, <4>1, GidAssumption DEF KnowsApart, CreateKnows
      <4>3. \E us \in SUBSET m[job[t].gid] : told' = told \union ({job[t].gid} \X us)
        BY <3>4, <4>2 DEF ReplyCreate
      <4> QED
        BY <2>3, <2>5, <2>6, <4>1, <4>3
    <3>5. CASE Forward(t) /\ job[t].op = "join"
      <4>1. pc[t] = "forward" /\ job[t].gid \in Gid /\ UNCHANGED groupMember
        BY <3>0, <3>5 DEF Forward, At, KnowsAt
      <4>2. job[t].uid \in m[job[t].gid]
        BY <2>7, <3>0, <3>5, <4>1 DEF KnowsApart, JoinKnows
      <4>3. told' = told \union ({job[t].gid} \X {job[t].uid})
        BY <3>5 DEF Forward
      <4>4. {job[t].uid} \in SUBSET m[job[t].gid]
        BY <4>2
      <4> QED
        BY <2>3, <2>5, <2>6, <4>1, <4>3, <4>4
    <3>6. CASE /\ Up' /\ ~InsertGroup(t) /\ ~WriteRow(t) /\ ~ReplyCreate(t)
               /\ ~(Forward(t) /\ job[t].op = "join")
      <4>1. UNCHANGED groupMember
        BY <2>12, <3>6, OnlyWriters
      <4>2. UNCHANGED told
        BY <2>12, <3>6, ToldWriters DEF Forward
      <4> QED
        BY <2>1, <2>6, <4>1, <4>2
    <3> QED
      BY <2>12, <3>1, <3>2, <3>3, <3>4, <3>5, <3>6, LivesOrDies
  <2> QED
    BY <2>10, <2>11, <2>12 DEF GroupNext
<1> QED
  BY <1>a, <1>b

\* They make chat_group a GroupDirectory that lasts across restarts: until
\* something fails or overlaps no written row loses a member, and only members
\* of the row are told.
THEOREM TableImplementsDirectory == GroupSpec => TableIsDirectory
<1>1. Init => InDatabase!Init
  <2>1. ToSet(<<>>) = {}
    BY DEF ToSet
  <2> QED
    BY <2>1 DEF Init, InDatabase!Init, Undisturbed
<1>2. TypeInv /\ (Undisturbed => ApartInv) /\ [GroupNext]_vars
      => [InDatabase!Next]_InDatabase!dirVars
  BY TableStep
<1> QED
  BY <1>1, <1>2, ApartInvHolds, PTL DEF GroupSpec, TableIsDirectory, InDatabase!Spec
=============================================================================
