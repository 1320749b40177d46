------------------------- MODULE OnlineUsersProofs --------------------------
(***************************************************************************)
(* The list of online users follows the logins, for any number of threads, *)
(* users and connections and any friendlists, and with users who log in    *)
(* over several connections at once: until a user with two entries says    *)
(* that he goes offline, or a connection is logged in over again.          *)
(*                                                                         *)
(* The inductive invariant says of every thread what its place knows of    *)
(* its callback, the callback's connection, the user logged in over it,    *)
(* its entry and the target of its message (ThreadInv); that every entry   *)
(* is of an open connection and the user logged in over it (EntryInv); and *)
(* that whoever was told "success" has an entry, unless a callback is      *)
(* between the two halves of a login or a leave (PresentInv).  It holds    *)
(* while single does (NextKeeps, InvHolds); the types alone always hold    *)
(* (TypeInv).                                                              *)
(***************************************************************************)
EXTENDS OnlineUsers, SequenceTheorems, WellFoundedInduction, TLAPS

Entry == [uid : Uid, bev : Bev]
Job == [op : {"none", "login", "chat", "offline", "event"},
        bev : Bev \union {NoBev}, uid : Uid \union {NoUid},
        todo : Seq(Uid), target : Bev \union {NoBev}]

\* What each place of a callback knows of its job.
StageOf(p, j) ==
    /\ p = "idle" => j.op # "login"
    /\ p # "idle" => j.op # "none" /\ j.bev \in Bev
    /\ p \in {"connect", "check", "close"} => j.op \in {"login", "offline"}
    /\ p \in {"welcome", "enlist"} => j.op = "login"
    /\ p \in {"seek", "missed", "send"} =>
          j.op \in {"login", "chat", "offline"} /\ j.todo # <<>>
    /\ p \in {"unlist", "free"} => j.op \in {"offline", "event"}
    /\ j.op \in {"login", "chat", "offline"} => j.uid \in Uid

\* A callback's connection is open and its thread's own, until the callback
\* itself frees it.
OwnOf(t, p, j) ==
    p # "idle" /\ (j.op # "offline" \/ p \in {"unlist", "free"}) =>
        j.bev \in open /\ owner[j.bev] = t

\* Nobody is logged in over the connection of a login until "success" is sent,
\* and an offline request is the user's own.
UserOf(p, j) ==
    /\ j.op = "login" /\ p \in {"connect", "check", "welcome"} => user[j.bev] = NoUid
    /\ p = "enlist" \/ (p = "unlist" /\ j.op = "offline") => user[j.bev] = j.uid

\* Between the two halves of a login or a leave the list lags behind: its
\* connection has no entry.
Lags(p) == p \in {"enlist", "free"}
LagOf(p, j) == Lags(p) => \A k \in DOMAIN online : online[k].bev # j.bev

TargetOf(p, j) ==
    apart /\ p = "send" => j.target \in open /\ user[j.target] = Head(j.todo)

Local(t, p, j) ==
    StageOf(p, j) /\ OwnOf(t, p, j) /\ UserOf(p, j) /\ LagOf(p, j) /\ TargetOf(p, j)

ThreadInv == \A t \in Thread : Local(t, pc[t], job[t])

\* Every entry is of an open connection and the user logged in over it, and no
\* connection has two.
EntryInv ==
    /\ \A k \in DOMAIN online :
          online[k].bev \in open /\ user[online[k].bev] = online[k].uid
    /\ \A j, k \in DOMAIN online : online[j].bev = online[k].bev => j = k

Listed(b) == \E k \in DOMAIN online : online[k].bev = b

\* Whoever was told "success" has an entry, unless his callback is between the
\* two halves.
PresentInv ==
    \A b \in open : user[b] # NoUid =>
        Listed(b) \/ \E t \in Thread : Lags(pc[t]) /\ job[t].bev = b

IInv == TypeOK /\ ThreadInv /\ EntryInv /\ PresentInv

------------------------------------------------------------------------------
\* The members of a list without its k-th.
LEMMA RemoveAtIs ==
    ASSUME NEW S, NEW s \in Seq(S), NEW k \in 1..Len(s)
    PROVE  /\ RemoveAt(s, k) \in Seq(S)
           /\ Len(RemoveAt(s, k)) = Len(s) - 1
           /\ \A i \in 1..(Len(s) - 1) :
                 RemoveAt(s, k)[i] = IF i < k THEN s[i] ELSE s[i + 1]
<1> DEFINE n == Len(s)
           a == SubSeq(s, 1, k - 1)
           b == SubSeq(s, k + 1, n)
<1>1. n \in Nat /\ k \in 1..n /\ DOMAIN s = 1..n
  BY LenProperties
<1>2. \A i \in 1..n : s[i] \in S
  BY ElementOfSeq
<1>3. /\ a \in Seq(S) /\ Len(a) = k - 1 /\ \A i \in 1..(k - 1) : a[i] = s[i]
  <2>1. \A i \in 1..(k - 1) : s[i] \in S
    BY <1>1, <1>2
  <2> QED
    BY <1>1, <2>1, SubSeqProperties
<1>4. /\ b \in Seq(S) /\ Len(b) = n - k /\ \A i \in 1..(n - k) : b[i] = s[k + i]
  <2>1. \A i \in (k + 1)..n : s[i] \in S
    BY <1>1, <1>2
  <2>2. /\ b \in Seq(S) /\ Len(b) = IF k + 1 <= n THEN n - (k + 1) + 1 ELSE 0
        /\ \A i \in 1..(n - (k + 1) + 1) : b[i] = s[k + 1 + i - 1]
    <3>1. k + 1 \in Int /\ n \in Int
      BY <1>1
    <3> HIDE DEF n
    <3> QED
      BY <2>1, <3>1, SubSeqProperties
  <2> HIDE DEF b
  <2> HIDE DEF n
  <2>3. n - (k + 1) + 1 = n - k /\ (IF k + 1 <= n THEN n - (k + 1) + 1 ELSE 0) = n - k
    BY <1>1
  <2>4. \A i \in 1..(n - k) : k + 1 + i - 1 = k + i
    BY <1>1
  <2> QED
    BY <2>2, <2>3, <2>4
<1>5. RemoveAt(s, k) = a \o b
  BY DEF RemoveAt
<1> HIDE DEF a, b
<1>6. /\ a \o b \in Seq(S) /\ Len(a \o b) = n - 1
      /\ \A i \in 1..(n - 1) : (a \o b)[i] = IF i <= k - 1 THEN a[i] ELSE b[i - (k - 1)]
  <2>1. Len(a) + Len(b) = n - 1
    BY <1>1, <1>3, <1>4
  <2>2. /\ a \o b \in Seq(S) /\ Len(a \o b) = Len(a) + Len(b)
        /\ \A i \in 1..(Len(a) + Len(b)) :
              (a \o b)[i] = IF i <= Len(a) THEN a[i] ELSE b[i - Len(a)]
    <3>1. a \in Seq(S) /\ b \in Seq(S)
      BY <1>3, <1>4
    <3> QED
      BY <3>1, ConcatProperties
  <2> QED
    BY <1>3, <2>1, <2>2
<1>7. ASSUME NEW i \in 1..(n - 1)
      PROVE  (a \o b)[i] = IF i < k THEN s[i] ELSE s[i + 1]
  <2>1. CASE i < k
    <3>1. i \in 1..(k - 1) /\ i <= k - 1
      BY <1>1, <2>1
    <3> QED
      BY <1>3, <1>6, <2>1, <3>1
  <2>2. CASE ~(i < k)
    <3>1. i - (k - 1) \in 1..(n - k) /\ ~(i <= k - 1) /\ k + (i - (k - 1)) = i + 1
      BY <1>1, <2>2
    <3> QED
      BY <1>4, <1>6, <2>2, <3>1
  <2> QED
    BY <2>1, <2>2
<1> QED
  BY <1>5, <1>6, <1>7

\* Every set of numbers has a least one.
LEMMA Least ==
    ASSUME NEW S, S \subseteq Nat, S # {}
    PROVE  Min(S) \in S /\ \A y \in S : Min(S) <= y
<1> DEFINE R == OpToRel(<, Nat)
<1>1. \A a, b \in Nat : <<a, b>> \in R <=> a < b
  BY DEF OpToRel
<1>2. IsWellFoundedOn(R, Nat)
  BY NatLessThanWellFounded
<1> HIDE DEF R
<1>3. PICK x \in S : \A y \in S : ~(<<y, x>> \in R)
  BY <1>2, WFMin
<1>4. \A y \in S : x \in Nat /\ y \in Nat /\ ~(y < x)
  BY <1>1, <1>3
<1>5. \A y \in S : x <= y
  BY <1>4
<1> QED
  BY <1>5 DEF Min

\* The look-up finds an entry of the user, or there is none.
LEMMA EntryOfIs ==
    ASSUME NEW u
    PROVE  \/ EntryOf(u) = 0 /\ \A i \in 1..Len(online) : online[i].uid # u
           \/ EntryOf(u) \in 1..Len(online) /\ online[EntryOf(u)].uid = u
<1> DEFINE I == {i \in 1..Len(online) : online[i].uid = u}
<1>1. EntryOf(u) = IF I # {} THEN Min(I) ELSE 0
  BY DEF EntryOf, SelectInSeq, IsOf
<1>2. I \subseteq Nat
  OBVIOUS
<1>3. I # {} => Min(I) \in I
  BY <1>2, Least
<1> QED
  BY <1>1, <1>3

\* Deleting by user or by connection takes one entry out, if there is one.
LEMMA WithoutUserIs ==
    ASSUME NEW u
    PROVE  \/ WithoutUser(u) = online /\ \A i \in 1..Len(online) : online[i].uid # u
           \/ \E k \in 1..Len(online) : online[k].uid = u /\ WithoutUser(u) = RemoveAt(online, k)
<1> DEFINE I == {i \in 1..Len(online) : online[i].uid = u}
<1>1. WithoutUser(u) = IF \E i \in 1..Len(online) : online[i].uid = u
                       THEN RemoveAt(online, IF I # {} THEN Min(I) ELSE 0)
                       ELSE online
  BY DEF WithoutUser, RemoveFirstMatch, SelectInSeq, IsOf
<1>2. I \subseteq Nat
  OBVIOUS
<1>3. I # {} => Min(I) \in I
  BY <1>2, Least
<1> QED
  BY <1>1, <1>3

LEMMA WithoutBevIs ==
    ASSUME NEW b
    PROVE  \/ WithoutBev(b) = online /\ \A i \in 1..Len(online) : online[i].bev # b
           \/ \E k \in 1..Len(online) : online[k].bev = b /\ WithoutBev(b) = RemoveAt(online, k)
<1> DEFINE I == {i \in 1..Len(online) : online[i].bev = b}
<1>1. WithoutBev(b) = IF \E i \in 1..Len(online) : online[i].bev = b
                      THEN RemoveAt(online, IF I # {} THEN Min(I) ELSE 0)
                      ELSE online
  BY DEF WithoutBev, RemoveFirstMatch, SelectInSeq, IsOn
<1>2. I \subseteq Nat
  OBVIOUS
<1>3. I # {} => Min(I) \in I
  BY <1>2, Least
<1> QED
  BY <1>1, <1>3

------------------------------------------------------------------------------
\* The places and the jobs of the threads that do not move stay as they were.
LEMMA Moved ==
    ASSUME TypeOK, NEW t \in Thread, NEW p \in Places, NEW j \in Job,
           pc' = [pc EXCEPT ![t] = p], job' = [job EXCEPT ![t] = j]
    PROVE  /\ pc'[t] = p /\ job'[t] = j
           /\ \A s \in Thread : s # t => pc'[s] = pc[s] /\ job'[s] = job[s]
           /\ pc' \in [Thread -> Places] /\ job' \in [Thread -> Job]
  BY DEF TypeOK, Job

\* A step of one callback that leaves the connections and the list alone.
LEMMA Frame ==
    ASSUME IInv, NEW t \in Thread, NEW p \in Places, NEW j \in Job,
           pc' = [pc EXCEPT ![t] = p], job' = [job EXCEPT ![t] = j],
           UNCHANGED <<open, hungUp, owner, user, turn, online, apart>>,
           conns' \in 0..MaxConns, requests' \in 0..MaxRequests, DbTypeOK',
           single' \in BOOLEAN, Local(t, p, j), ~Lags(pc[t])
    PROVE  IInv'
<1>1. /\ pc'[t] = p /\ job'[t] = j
      /\ \A s \in Thread : s # t => pc'[s] = pc[s] /\ job'[s] = job[s]
      /\ pc' \in [Thread -> Places] /\ job' \in [Thread -> Job]
  BY Moved DEF IInv
<1>2. TypeOK'
  BY <1>1 DEF IInv, TypeOK, Job
<1>3. ASSUME NEW s \in Thread, NEW q, NEW k, Local(s, q, k) PROVE Local(s, q, k)'
  BY <1>3 DEF Local, StageOf, OwnOf, UserOf, LagOf, TargetOf
<1>4. ThreadInv'
  <2>1. ASSUME NEW s \in Thread PROVE \E q, k : q = pc'[s] /\ k = job'[s] /\ Local(s, q, k)
    BY <1>1 DEF IInv, ThreadInv
  <2> QED
    BY <1>3, <2>1 DEF ThreadInv
<1>5. EntryInv'
  BY DEF IInv, EntryInv
<1>6. PresentInv'
  <2>1. \A s \in Thread : Lags(pc[s]) => Lags(pc'[s]) /\ job'[s].bev = job[s].bev
    BY <1>1
  <2>2. \A b : Listed(b)' = Listed(b)
    BY DEF Listed
  <2> QED
    BY <2>1, <2>2 DEF IInv, PresentInv, Lags
<1> QED
  BY <1>2, <1>4, <1>5, <1>6 DEF IInv

\* The job and the place of a thread, and what its place says of them.
LEMMA JobIs ==
    ASSUME IInv, NEW t \in Thread
    PROVE  pc[t] \in Places /\ job[t] \in Job /\ Local(t, pc[t], job[t])
  BY DEF IInv, TypeOK, ThreadInv, Job

------------------------------------------------------------------------------
\* A request or an event begins a callback.
LEMMA BeginIs ==
    ASSUME NEW t \in Thread, NEW op \in {"login", "chat", "offline", "event"}, NEW b \in Bev,
           NEW u \in Uid \union {NoUid}, NEW todo \in Seq(Uid), NEW place \in Places,
           Begin(t, op, b, u, todo, place)
    PROVE  /\ pc[t] = "idle" /\ pc' = [pc EXCEPT ![t] = place]
           /\ \E j \in Job :
                 /\ job' = [job EXCEPT ![t] = j]
                 /\ j.op = op /\ j.bev = b /\ j.uid = u /\ j.todo = todo /\ j.target = NoBev
<1> DEFINE j1 == [NoJob EXCEPT !.op = op]
           j2 == [j1 EXCEPT !.bev = b]
           j3 == [j2 EXCEPT !.uid = u]
           j4 == [j3 EXCEPT !.todo = todo]
<1>1. NoJob \in Job /\ NoJob.target = NoBev
  BY DEF NoJob, Job
<1>2. j1 \in Job /\ j1.op = op /\ j1.target = NoBev
  BY <1>1 DEF Job
<1> HIDE DEF j1
<1>3. j2 \in Job /\ j2.op = op /\ j2.bev = b /\ j2.target = NoBev
  BY <1>2 DEF Job
<1> HIDE DEF j2
<1>4. j3 \in Job /\ j3.op = op /\ j3.bev = b /\ j3.uid = u /\ j3.target = NoBev
  BY <1>3 DEF Job
<1> HIDE DEF j3
<1>5. j4 \in Job /\ j4.op = op /\ j4.bev = b /\ j4.uid = u /\ j4.todo = todo /\ j4.target = NoBev
  BY <1>4 DEF Job
<1>6. j4 = [NoJob EXCEPT !.op = op, !.bev = b, !.uid = u, !.todo = todo]
  BY DEF j1, j2, j3
<1> HIDE DEF j4
<1>7. job' = [job EXCEPT ![t] = j4] /\ pc' = [pc EXCEPT ![t] = place] /\ pc[t] = "idle"
  BY <1>6 DEF Begin, Goto, At
<1> QED
  BY <1>5, <1>7

\* A request of a user who may send it.
LEMMA ReceiveKeeps ==
    ASSUME IInv, single', NEW t \in Thread, Request(t)
    PROVE  IInv'
<1>1. ASSUME NEW op \in {"login", "chat", "offline"}, NEW b \in open, NEW u \in Uid,
             NEW todo \in Seq(Uid), NEW place \in {"connect", "seek", "unlist"},
             Receive(t, op, b, u, todo, place),
             op = "login" => place = "connect",
             op = "chat" => place = "seek" /\ todo # <<>>,
             op = "offline" => place = "unlist" /\ user[b] = u
      PROVE  IInv'
  <2>1. /\ owner[b] = t /\ Begin(t, op, b, u, todo, place)
        /\ requests < MaxRequests /\ requests' = requests + 1
        /\ UNCHANGED <<dbVars, connVars, online, apart>>
    BY <1>1 DEF Receive
  <2>2. b \in Bev /\ place \in Places
    BY DEF IInv, TypeOK, Places
  <2>3. pc[t] = "idle" /\ pc' = [pc EXCEPT ![t] = place]
    BY <2>1, <2>2, BeginIs
  <2>4. PICK j \in Job : /\ job' = [job EXCEPT ![t] = j]
                         /\ j.op = op /\ j.bev = b /\ j.uid = u /\ j.todo = todo /\ j.target = NoBev
    BY <2>1, <2>2, BeginIs
  <2>5. op = "login" => user[b] = NoUid
    BY <1>1 DEF Receive
  <2>6. StageOf(place, j)
    BY <1>1, <2>2, <2>4 DEF StageOf
  <2>7. OwnOf(t, place, j) /\ LagOf(place, j) /\ TargetOf(place, j)
    BY <1>1, <2>1, <2>4 DEF OwnOf, LagOf, Lags, TargetOf
  <2>8. UserOf(place, j)
    BY <1>1, <2>4, <2>5 DEF UserOf
  <2>9. requests' \in 0..MaxRequests
    BY <2>1, BoundAssumption DEF IInv, TypeOK
  <2>10. /\ UNCHANGED <<open, hungUp, owner, user, turn, online, apart>>
         /\ conns' \in 0..MaxConns /\ DbTypeOK' /\ single' \in BOOLEAN /\ ~Lags(pc[t])
    BY <1>1, <2>1, <2>3 DEF Receive, dbVars, connVars, IInv, TypeOK, DbTypeOK, Lags
  <2> QED
    BY <2>2, <2>3, <2>4, <2>6, <2>7, <2>8, <2>9, <2>10, Frame DEF Local
<1>2. <<>> \in Seq(Uid) /\ \A f \in Uid : <<f>> \in Seq(Uid) /\ <<f>> # <<>>
  OBVIOUS
<1>3. ReceiveLogin(t) => IInv'
  BY <1>1, <1>2 DEF ReceiveLogin
<1>4. \A b \in open : user[b] # NoUid => user[b] \in Uid
  BY DEF IInv, TypeOK
<1>5. ASSUME ReceiveChat(t) PROVE IInv'
  <2>1. PICK b \in open, f \in Uid : user[b] # NoUid /\ Receive(t, "chat", b, user[b], <<f>>, "seek")
    BY <1>5 DEF ReceiveChat
  <2> QED
    BY <1>1, <1>2, <1>4, <2>1
<1>6. ASSUME ReceiveOffline(t) PROVE IInv'
  <2>1. PICK b \in open : user[b] # NoUid /\ Receive(t, "offline", b, user[b], <<>>, "unlist")
    BY <1>6 DEF ReceiveOffline
  <2> QED
    BY <1>1, <1>2, <1>4, <2>1
<1> QED
  BY <1>3, <1>5, <1>6 DEF Request

\* The end of a connection.
LEMMA EndsKeeps ==
    ASSUME IInv, NEW t \in Thread, NEW b \in Bev, ConnectionEnds(t, b)
    PROVE  IInv'
<1>1. /\ b \in open /\ owner[b] = t /\ Begin(t, "event", b, NoUid, <<>>, "unlist")
      /\ UNCHANGED <<dbVars, connVars, online, requests, ghosts>>
  BY DEF ConnectionEnds, IInv, TypeOK
<1>2. /\ "unlist" \in Places /\ <<>> \in Seq(Uid) /\ NoUid \in Uid \union {NoUid}
      /\ "event" \in {"login", "chat", "offline", "event"}
  BY DEF Places
<1>3. pc[t] = "idle" /\ pc' = [pc EXCEPT ![t] = "unlist"]
  BY <1>1 DEF Begin, At, Goto
<1>4. PICK j \in Job : job' = [job EXCEPT ![t] = j] /\ j.op = "event" /\ j.bev = b
  <2> DEFINE op == "event"
             place == "unlist"
             todo == <<>>
  <2>1. /\ op \in {"login", "chat", "offline", "event"} /\ place \in Places /\ todo \in Seq(Uid)
        /\ Begin(t, op, b, NoUid, todo, place)
    BY <1>1, <1>2
  <2> HIDE DEF op, place, todo
  <2>2. NoUid \in Uid \union {NoUid}
    BY <1>2
  <2> DEFINE u == NoUid
  <2> HIDE DEF u
  <2>3. Begin(t, op, b, u, todo, place) /\ u \in Uid \union {NoUid}
    BY <2>1, <2>2 DEF u
  <2>4. PICK j \in Job : job' = [job EXCEPT ![t] = j] /\ j.op = op /\ j.bev = b
    BY <2>1, <2>3, BeginIs
  <2> QED
    BY <2>4 DEF op
<1>5. Local(t, "unlist", j)
  BY <1>1, <1>4 DEF Local, StageOf, OwnOf, UserOf, LagOf, Lags, TargetOf
<1>6. /\ UNCHANGED <<open, hungUp, owner, user, turn, online, apart>>
      /\ conns' \in 0..MaxConns /\ requests' \in 0..MaxRequests /\ DbTypeOK' /\ single' \in BOOLEAN
      /\ ~Lags(pc[t])
  BY <1>1, <1>3 DEF ghosts, dbVars, connVars, IInv, TypeOK, DbTypeOK, Lags
<1> QED
  BY <1>2, <1>3, <1>4, <1>5, <1>6, Frame

------------------------------------------------------------------------------
\* A callback that is over.
LEMMA IdleIs ==
    NoJob \in Job /\ NoJob.op = "none" /\ "idle" \in Places /\ \A t \in Thread : Local(t, "idle", NoJob)
<1>1. NoJob \in Job /\ NoJob.op = "none"
  BY DEF NoJob, Job
<1> QED
  BY <1>1 DEF Places, Local, StageOf, OwnOf, UserOf, LagOf, Lags, TargetOf

\* The database is opened, asked and closed.
LEMMA DatabaseKeeps ==
    ASSUME IInv, NEW t \in Thread, OpenDb(t) \/ OpenDbFails(t) \/ Check(t) \/ CloseDb(t)
    PROVE  IInv'
<1> DEFINE o == job[t]
<1>1. /\ UNCHANGED <<open, hungUp, owner, user, turn, online, apart>>
      /\ conns' \in 0..MaxConns /\ requests' \in 0..MaxRequests /\ DbTypeOK' /\ single' \in BOOLEAN
  <2>1. UNCHANGED <<connVars, online, requests, ghosts>>
    BY DEF OpenDb, OpenDbFails, Check, CloseDb
  <2>2. DbTypeOK'
    BY DEF OpenDb, OpenDbFails, Check, CloseDb, Connect, Disconnect, UseHandle, dbVars, IInv, TypeOK, DbTypeOK
  <2> QED
    BY <2>1, <2>2 DEF ghosts, connVars, IInv, TypeOK
<1>2. o \in Job /\ pc[t] \in {"connect", "check", "close"} /\ Local(t, pc[t], o)
  BY JobIs DEF OpenDb, OpenDbFails, Check, CloseDb, At
<1>3. o.op \in {"login", "offline"} /\ o.uid \in Uid /\ o.bev \in Bev
  BY <1>2 DEF Local, StageOf
<1>4. ~Lags(pc[t])
  BY <1>2 DEF Lags
<1>5. ASSUME Return(t) PROVE IInv'
  <2>1. pc' = [pc EXCEPT ![t] = "idle"] /\ job' = [job EXCEPT ![t] = NoJob]
    BY <1>5 DEF Return, Goto
  <2> QED
    BY <1>1, <1>4, <2>1, IdleIs, Frame
<1>6. job = [job EXCEPT ![t] = o]
  BY DEF IInv, TypeOK
<1>7. ASSUME NEW p \in {"check", "close", "welcome"}, pc' = [pc EXCEPT ![t] = p],
             NEW todo \in Seq(Uid), job' = [job EXCEPT ![t] = [o EXCEPT !.todo = todo]],
             p \in {"check", "welcome"} => pc[t] \in {"connect", "check"},
             p = "welcome" => o.op = "login"
      PROVE  IInv'
  <2> DEFINE j == [o EXCEPT !.todo = todo]
  <2>1. /\ j \in Job /\ j.op = o.op /\ j.bev = o.bev /\ j.uid = o.uid /\ j.target = o.target
        /\ p \in Places
    BY <1>2, <1>7 DEF Job, Places
  <2>3. job' = [job EXCEPT ![t] = j]
    BY <1>7
  <2> HIDE DEF j, o
  <2>4. StageOf(p, j) /\ LagOf(p, j) /\ TargetOf(p, j)
    BY <1>3, <1>7, <2>1 DEF StageOf, LagOf, Lags, TargetOf
  <2>5. OwnOf(t, p, j)
    BY <1>2, <1>7, <2>1 DEF Local, OwnOf
  <2>6. UserOf(p, j)
    BY <1>2, <1>7, <2>1 DEF Local, UserOf
  <2> QED
    BY <1>1, <1>4, <1>7, <2>1, <2>3, <2>4, <2>5, <2>6, Frame DEF Local
<1>8. o.todo \in Seq(Uid) /\ [o EXCEPT !.todo = o.todo] = o
  BY <1>2 DEF Job
<1>9. CASE OpenDb(t)
  <2>1. pc[t] = "connect" /\ pc' = [pc EXCEPT ![t] = "check"] /\ job' = job
    BY <1>9 DEF OpenDb, At, Goto
  <2> QED
    BY <1>6, <1>7, <1>8, <2>1
<1>10. CASE OpenDbFails(t)
  <2>1. pc[t] = "connect" /\ (Return(t) \/ (Goto(t, "check") /\ UNCHANGED job))
    BY <1>10 DEF OpenDbFails, At
  <2> QED
    BY <1>5, <1>6, <1>7, <1>8, <2>1 DEF Goto
<1>11. CASE Check(t)
  <2>1. pc[t] = "check"
    BY <1>11 DEF Check, At
  <2>2. CASE Goto(t, "close") /\ UNCHANGED job
    BY <1>6, <1>7, <1>8, <2>1, <2>2 DEF Goto
  <2>3. CASE /\ Goto(t, IF o.op = "login" THEN "welcome" ELSE "close")
             /\ job' = [job EXCEPT ![t].todo = Friends[job[t].uid]]
    <3>1. Friends[o.uid] \in Seq(Uid)
      BY <1>3, UserAssumption
    <3>2. job' = [job EXCEPT ![t] = [o EXCEPT !.todo = Friends[o.uid]]]
      BY <2>3
    <3> QED
      BY <1>7, <2>1, <2>3, <3>1, <3>2 DEF Goto
  <2> QED
    BY <1>11, <2>2, <2>3 DEF Check
<1>12. CASE CloseDb(t)
  <2>1. pc[t] = "close"
    BY <1>12 DEF CloseDb, At
  <2>2. ASSUME o.op = "offline", o.todo # <<>>, Goto(t, "seek"), UNCHANGED job PROVE IInv'
    <3>1. "seek" \in Places /\ pc' = [pc EXCEPT ![t] = "seek"] /\ job' = [job EXCEPT ![t] = o]
      BY <1>6, <2>2 DEF Places, Goto
    <3> HIDE DEF o
    <3>3. Local(t, "seek", o)
      BY <1>3, <2>2 DEF Local, StageOf, OwnOf, UserOf, LagOf, Lags, TargetOf
    <3> QED
      BY <1>1, <1>2, <1>4, <3>1, <3>3, Frame
  <2> QED
    BY <1>5, <1>12, <2>2 DEF CloseDb
<1> QED
  BY <1>9, <1>10, <1>11, <1>12

\* What is left of the users a message is for.
LEMMA TailIsMore ==
    ASSUME NEW s \in Seq(Uid), s # <<>>
    PROVE  Tail(s) \in Seq(Uid) /\ (Len(s) > 1 => Tail(s) # <<>>)
<1>1. Tail(s) \in Seq(Uid) /\ Len(Tail(s)) = Len(s) - 1 /\ Len(s) \in Nat
  BY HeadTailProperties, LenProperties
<1>2. ASSUME Len(s) > 1, Tail(s) = <<>> PROVE FALSE
  <2> DEFINE n == Len(s)
  <2>1. Len(Tail(s)) = 0
    BY <1>2, EmptySeq
  <2>2. n - 1 = 0 /\ n > 1 /\ n \in Nat
    BY <1>1, <1>2, <2>1
  <2> HIDE DEF n
  <2> QED
    BY <2>2
<1> QED
  BY <1>1, <1>2

\* The look-up of the next user's connection, and what is done with it.
LEMMA MessageKeeps ==
    ASSUME IInv, NEW t \in Thread, Seek(t) \/ Missed(t) \/ Send(t)
    PROVE  IInv'
<1> DEFINE o == job[t]
<1>1. /\ UNCHANGED <<open, hungUp, owner, user, turn, online, apart>>
      /\ conns' \in 0..MaxConns /\ requests' \in 0..MaxRequests /\ DbTypeOK' /\ single' \in BOOLEAN
  <2>1. UNCHANGED <<connVars, online, requests, ghosts>>
    BY DEF Seek, Missed, Send
  <2>2. DbTypeOK'
    BY DEF Seek, Missed, Send, Disconnect, dbVars, IInv, TypeOK, DbTypeOK
  <2> QED
    BY <2>1, <2>2 DEF ghosts, connVars, IInv, TypeOK
<1>2. o \in Job /\ pc[t] \in {"seek", "missed", "send"} /\ Local(t, pc[t], o)
  BY JobIs DEF Seek, Missed, Send, At
<1>3. /\ o.op \in {"login", "chat", "offline"} /\ o.uid \in Uid /\ o.bev \in Bev
      /\ o.todo # <<>> /\ o.todo \in Seq(Uid) /\ Head(o.todo) \in Uid
  <2>1. o.op \in {"login", "chat", "offline"} /\ o.uid \in Uid /\ o.bev \in Bev /\ o.todo # <<>>
    BY <1>2 DEF Local, StageOf
  <2>2. o.todo \in Seq(Uid)
    BY <1>2 DEF Job
  <2> QED
    BY <2>1, <2>2, HeadTailProperties
<1>4. ~Lags(pc[t])
  BY <1>2 DEF Lags
<1>5. ASSUME Seek(t) PROVE IInv'
  <2> DEFINE b == FriendOnline(Head(o.todo))
             p == IF b = NoBev THEN "missed" ELSE "send"
             j == [o EXCEPT !.target = b]
  <2>1. b = NoBev \/ (b \in open /\ user[b] = Head(o.todo))
    <3>1. \/ EntryOf(Head(o.todo)) = 0
          \/ /\ EntryOf(Head(o.todo)) \in 1..Len(online)
             /\ online[EntryOf(Head(o.todo))].uid = Head(o.todo)
      BY EntryOfIs
    <3>2. DOMAIN online = 1..Len(online)
      BY LenProperties DEF IInv, TypeOK
    <3> QED
      BY <3>1, <3>2 DEF FriendOnline, IInv, EntryInv
  <2>2. b \in Bev \union {NoBev}
    BY <2>1 DEF IInv, TypeOK
  <2>3. pc' = [pc EXCEPT ![t] = p] /\ job' = [job EXCEPT ![t] = [o EXCEPT !.target = b]]
    BY <1>5 DEF Seek, Goto
  <2> HIDE DEF b
  <2>4. /\ j \in Job /\ j.op = o.op /\ j.bev = o.bev /\ j.uid = o.uid /\ j.target = b /\ j.todo = o.todo
        /\ p \in {"missed", "send"} /\ p \in Places /\ (p = "send" => b # NoBev)
    BY <1>2, <2>2 DEF Job, Places
  <2>6. job' = [job EXCEPT ![t] = j]
    BY <2>3
  <2> HIDE DEF j, o, p
  <2>7. StageOf(p, j) /\ LagOf(p, j) /\ UserOf(p, j) /\ TargetOf(p, j)
    BY <1>3, <2>1, <2>4 DEF StageOf, LagOf, Lags, UserOf, TargetOf
  <2>8. OwnOf(t, p, j)
    BY <1>2, <2>4 DEF Local, OwnOf
  <2> QED
    BY <1>1, <1>4, <2>3, <2>4, <2>6, <2>7, <2>8, Frame DEF Local
<1>6. ASSUME Proceed(t) PROVE IInv'
  <2> DEFINE j == [o EXCEPT !.todo = Tail(o.todo), !.target = NoBev]
             p == IF Len(o.todo) > 1 THEN "seek" ELSE IF o.op = "login" THEN "close" ELSE "idle"
  <2>1. pc' = [pc EXCEPT ![t] = p]
    BY <1>6 DEF Proceed, Goto
  <2>2. job' = [job EXCEPT ![t] = j]
    BY <1>6 DEF Proceed
  <2>3. Tail(o.todo) \in Seq(Uid) /\ (Len(o.todo) > 1 => Tail(o.todo) # <<>>)
    BY <1>3, TailIsMore
  <2>4. /\ j \in Job /\ j.op = o.op /\ j.bev = o.bev /\ j.uid = o.uid /\ j.target = NoBev
        /\ j.todo = Tail(o.todo)
    BY <1>2, <2>3 DEF Job
  <2>5. /\ p \in {"seek", "close", "idle"} /\ p \in Places /\ (p = "seek" => j.todo # <<>>)
        /\ (p = "close" => o.op = "login") /\ (p = "idle" => o.op # "login")
    BY <2>3, <2>4 DEF Places
  <2> HIDE DEF j, o, p
  <2>7. StageOf(p, j) /\ LagOf(p, j) /\ UserOf(p, j) /\ TargetOf(p, j)
    BY <1>3, <2>4, <2>5 DEF StageOf, LagOf, Lags, UserOf, TargetOf
  <2>8. OwnOf(t, p, j)
    BY <1>2, <2>4, <2>5 DEF Local, OwnOf
  <2> QED
    BY <1>1, <1>4, <2>1, <2>2, <2>4, <2>5, <2>7, <2>8, Frame DEF Local
<1> QED
  BY <1>5, <1>6 DEF Missed, Send

------------------------------------------------------------------------------
\* The connections come: one more, of nobody, with its turn's thread.
LEMMA AcceptKeeps ==
    ASSUME IInv, Accept
    PROVE  IInv'
<1>1. PICK b \in Bev \ open :
         /\ open' = open \union {b}
         /\ owner' = [owner EXCEPT ![b] = turn]
         /\ user' = [user EXCEPT ![b] = NoUid]
  BY DEF Accept
<1>2. /\ turn' = NextTurn(turn) /\ conns < MaxConns /\ conns' = conns + 1
      /\ UNCHANGED <<dbVars, hungUp, online, pc, job, requests, ghosts>>
  BY DEF Accept
<1>3. turn' \in Thread
  BY <1>2, ThreadAssumption DEF NextTurn, Thread, IInv, TypeOK
<1>4. conns' \in 0..MaxConns
  BY <1>2, BoundAssumption DEF IInv, TypeOK
<1>5. /\ owner' \in [Bev -> Thread] /\ user' \in [Bev -> Uid \union {NoUid}]
      /\ \A c \in Bev : c # b => owner'[c] = owner[c] /\ user'[c] = user[c]
      /\ user'[b] = NoUid
  BY <1>1 DEF IInv, TypeOK
<1>6. TypeOK'
  BY <1>1, <1>2, <1>3, <1>4, <1>5 DEF IInv, TypeOK, ghosts, dbVars, DbTypeOK
<1>7. open \subseteq Bev /\ b \notin open
  BY <1>1 DEF IInv, TypeOK
<1>8. ASSUME NEW s \in Thread, NEW q, NEW k, Local(s, q, k) PROVE Local(s, q, k)'
  <2>1. StageOf(q, k)' /\ LagOf(q, k)'
    BY <1>2, <1>8 DEF Local, StageOf, LagOf
  <2>2. OwnOf(s, q, k)'
    BY <1>1, <1>5, <1>7, <1>8 DEF Local, OwnOf
  <2>3. TargetOf(q, k)'
    BY <1>1, <1>2, <1>5, <1>7, <1>8 DEF Local, TargetOf, ghosts
  <2>4. UserOf(q, k)'
    <3>1. k.op = "login" /\ q \in {"connect", "check", "welcome", "enlist"} => k.bev \in open /\ k.uid \in Uid
      BY <1>8 DEF Local, StageOf, OwnOf
    <3>2. q \in {"enlist", "unlist"} => k.bev \in open
      BY <1>8 DEF Local, StageOf, OwnOf
    <3> QED
      BY <1>1, <1>5, <1>7, <1>8, <3>1, <3>2, UserAssumption DEF Local, UserOf
  <2> QED
    BY <2>1, <2>2, <2>3, <2>4 DEF Local
<1>9. ThreadInv'
  <2>1. ASSUME NEW s \in Thread PROVE \E q, k : q = pc'[s] /\ k = job'[s] /\ Local(s, q, k)
    BY <1>2 DEF IInv, ThreadInv
  <2> QED
    BY <1>8, <2>1 DEF ThreadInv
<1>12. EntryInv'
  BY <1>1, <1>2, <1>5, <1>7 DEF IInv, EntryInv
<1>13. PresentInv'
  <2>1. \A c : Listed(c)' = Listed(c)
    BY <1>2 DEF Listed
  <2>2. pc' = pc /\ job' = job
    BY <1>2
  <2> QED
    BY <1>1, <1>5, <1>7, <2>1, <2>2 DEF IInv, PresentInv
<1> QED
  BY <1>6, <1>9, <1>12, <1>13 DEF IInv

\* A peer that goes away is only remembered.
LEMMA HangUpKeeps ==
    ASSUME IInv, NEW b \in Bev, HangUp(b)
    PROVE  IInv'
<1>1. /\ b \in open /\ hungUp' = hungUp \union {b}
      /\ UNCHANGED <<dbVars, open, owner, user, turn, conns, online, pc, job, requests, ghosts>>
  BY DEF HangUp
<1>2. TypeOK'
  BY <1>1 DEF IInv, TypeOK, ghosts, dbVars, DbTypeOK
<1>3. ThreadInv'
  BY <1>1 DEF IInv, ThreadInv, Local, StageOf, OwnOf, UserOf, LagOf, TargetOf, ghosts
<1>4. EntryInv' /\ PresentInv'
  BY <1>1 DEF IInv, EntryInv, PresentInv, Listed
<1> QED
  BY <1>2, <1>3, <1>4 DEF IInv

\* The server starts with no connection and no callback.
Nothing ==
    /\ TypeOK
    /\ open = {} /\ online = <<>>
    /\ pc = [t \in Thread |-> "idle"] /\ job = [t \in Thread |-> NoJob]

LEMMA NothingIs == Nothing => IInv
<1> SUFFICES ASSUME Nothing PROVE IInv
  OBVIOUS
<1>1. \A t \in Thread : pc[t] = "idle" /\ job[t] = NoJob
  BY DEF Nothing
<1>2. ThreadInv
  BY <1>1, IdleIs DEF ThreadInv
<1>3. EntryInv /\ PresentInv
  BY DEF Nothing, EntryInv, PresentInv
<1> QED
  BY <1>2, <1>3 DEF Nothing, IInv

LEMMA NothingAgain == Nothing' => IInv'
  BY NothingIs, PTL

LEMMA DeathKeeps ==
    ASSUME IInv, NEW t \in Thread, NullHandle(t)
    PROVE  IInv'
<1>1. LoseMemory /\ mysql' = FALSE /\ status' = "null_handle"
  BY DEF NullHandle, UseNull, Die
<1>2. 0 \in Thread
  BY ThreadAssumption DEF Thread
<1>3. /\ [b \in Bev |-> 0] \in [Bev -> Thread] /\ [b \in Bev |-> NoUid] \in [Bev -> Uid \union {NoUid}]
      /\ [s \in Thread |-> "idle"] \in [Thread -> Places] /\ [s \in Thread |-> NoJob] \in [Thread -> Job]
      /\ <<>> \in Seq([uid : Uid, bev : Bev])
  BY <1>2, IdleIs
<1>4. TypeOK'
  BY <1>1, <1>2, <1>3 DEF LoseMemory, ghosts, IInv, TypeOK, DbTypeOK, Deaths, Job
<1>5. Nothing'
  BY <1>1, <1>4 DEF LoseMemory, Nothing
<1> QED
  BY <1>5, NothingAgain

------------------------------------------------------------------------------
\* The list without the entry of a connection.
Gone(new, b) ==
    /\ new \in Seq(Entry)
    /\ \A i \in DOMAIN new : \E k \in DOMAIN online : new[i] = online[k] /\ online[k].bev # b
    /\ \A i, j \in DOMAIN new : new[i].bev = new[j].bev => i = j
    /\ \A k \in DOMAIN online : online[k].bev # b => \E i \in DOMAIN new : new[i] = online[k]

LEMMA RemovedIsGone ==
    ASSUME EntryInv, online \in Seq(Entry), NEW k \in 1..Len(online)
    PROVE  Gone(RemoveAt(online, k), online[k].bev)
<1> DEFINE n == Len(online)
           new == RemoveAt(online, k)
<1>1. n \in Nat /\ DOMAIN online = 1..n
  BY LenProperties
<1>2. /\ new \in Seq(Entry) /\ Len(new) = n - 1
      /\ \A i \in 1..(n - 1) : new[i] = IF i < k THEN online[i] ELSE online[i + 1]
  BY RemoveAtIs
<1>3. DOMAIN new = 1..(n - 1)
  BY <1>2, LenProperties
<1> HIDE DEF new, n
<1>4. k \in 1..n
  BY DEF n
<1> DEFINE at(i) == IF i < k THEN i ELSE i + 1
<1>5. ASSUME NEW i \in DOMAIN new
      PROVE  at(i) \in DOMAIN online /\ at(i) # k /\ new[i] = online[at(i)] /\ i \in Nat
  BY <1>1, <1>2, <1>3, <1>4
<1>6. ASSUME NEW i \in DOMAIN new, NEW j \in DOMAIN new, new[i].bev = new[j].bev PROVE i = j
  <2>1. at(i) = at(j)
    BY <1>5, <1>6 DEF EntryInv
  <2> QED
    BY <1>4, <1>5, <2>1
<1>7. ASSUME NEW m \in DOMAIN online, online[m].bev # online[k].bev
      PROVE  \E i \in DOMAIN new : new[i] = online[m]
  <2>1. CASE m < k
    <3>1. m \in 1..(n - 1)
      BY <1>1, <1>4, <2>1
    <3> QED
      BY <1>2, <1>3, <2>1, <3>1
  <2>2. CASE ~(m < k)
    <3>1. m - 1 \in 1..(n - 1) /\ ~(m - 1 < k) /\ (m - 1) + 1 = m
      BY <1>1, <1>4, <1>7, <2>2
    <3>2. new[m - 1] = online[m]
      BY <1>2, <3>1
    <3> QED
      BY <1>3, <3>1, <3>2
  <2> QED
    BY <2>1, <2>2
<1>8. \A i \in DOMAIN new : \E m \in DOMAIN online : new[i] = online[m] /\ online[m].bev # online[k].bev
  <2>1. k \in DOMAIN online
    BY <1>1, <1>4
  <2> QED
    BY <1>5, <2>1 DEF EntryInv
<1> QED
  BY <1>2, <1>6, <1>7, <1>8 DEF Gone, new

LEMMA NoneIsGone ==
    ASSUME EntryInv, online \in Seq(Entry), NEW b, \A i \in 1..Len(online) : online[i].bev # b
    PROVE  Gone(online, b)
<1>1. DOMAIN online = 1..Len(online)
  BY LenProperties
<1> QED
  BY <1>1 DEF Gone, EntryInv

\* Whichever way a connection is taken off the list, its entry is gone and the
\* others are there: the only entry of a user is that of his connection.
LEMMA UnlistIs ==
    ASSUME IInv, NEW t \in Thread, pc[t] = "unlist",
           job[t].op = "offline" => SoleEntry(job[t].uid)
    PROVE  Gone(IF job[t].op = "offline" THEN WithoutUser(job[t].uid) ELSE WithoutBev(job[t].bev),
                job[t].bev)
<1> DEFINE o == job[t]
<1>1. /\ Local(t, "unlist", o) /\ EntryInv /\ online \in Seq(Entry)
      /\ DOMAIN online = 1..Len(online)
  BY JobIs, LenProperties DEF IInv, TypeOK, Entry
<1>2. o.bev \in open /\ owner[o.bev] = t
  BY <1>1 DEF Local, OwnOf
<1>3. CASE o.op = "offline"
  <2>1. user[o.bev] = o.uid /\ o.uid # NoUid
    BY <1>1, <1>3, UserAssumption DEF Local, UserOf, StageOf
  <2>2. ASSUME NEW s \in Thread, Lags(pc[s]), job[s].bev = o.bev PROVE FALSE
    <3>1. owner[o.bev] = s
      BY <2>2, JobIs DEF Local, StageOf, OwnOf, Lags
    <3> QED
      BY <1>2, <2>2, <3>1 DEF Lags
  <2>3. PICK m \in DOMAIN online : online[m].bev = o.bev
    BY <1>2, <2>1, <2>2 DEF IInv, PresentInv, Listed
  <2>4. online[m].uid = o.uid
    BY <1>1, <2>1, <2>3 DEF EntryInv
  <2>5. PICK k \in 1..Len(online) : online[k].uid = o.uid /\ WithoutUser(o.uid) = RemoveAt(online, k)
    BY <1>1, <2>3, <2>4, WithoutUserIs
  <2>6. k = m
    BY <1>1, <1>3, <2>3, <2>4, <2>5 DEF SoleEntry, IsOf
  <2> QED
    BY <1>1, <1>3, <2>3, <2>5, <2>6, RemovedIsGone
<1>4. CASE o.op # "offline"
  <2>1. CASE WithoutBev(o.bev) = online /\ \A i \in 1..Len(online) : online[i].bev # o.bev
    BY <1>1, <1>4, <2>1, NoneIsGone
  <2>2. ASSUME NEW k \in 1..Len(online), online[k].bev = o.bev, WithoutBev(o.bev) = RemoveAt(online, k)
        PROVE  Gone(WithoutBev(o.bev), o.bev)
    BY <1>1, <2>2, RemovedIsGone
  <2> QED
    BY <1>4, <2>1, <2>2, WithoutBevIs
<1> QED
  BY <1>3, <1>4

LEMMA UnlistKeeps ==
    ASSUME IInv, single', NEW t \in Thread, Unlist(t)
    PROVE  IInv'
<1> DEFINE o == job[t]
<1>1. /\ pc[t] = "unlist" /\ pc' = [pc EXCEPT ![t] = "free"] /\ job' = job
      /\ UNCHANGED <<dbVars, connVars, requests, apart>>
  BY DEF Unlist, At, Goto
<1>2. Gone(online', o.bev)
  BY <1>1, UnlistIs DEF Unlist
<1>3. /\ pc'[t] = "free" /\ \A s \in Thread : s # t => pc'[s] = pc[s]
      /\ pc' \in [Thread -> Places]
  BY <1>1 DEF IInv, TypeOK, Places
<1>4. TypeOK'
  <2>1. single' \in BOOLEAN
    BY DEF Unlist
  <2> QED
    BY <1>1, <1>2, <1>3, <2>1 DEF IInv, TypeOK, dbVars, connVars, DbTypeOK, Gone, Entry
<1>5. ASSUME NEW s \in Thread, NEW q, NEW k, Local(s, q, k) PROVE Local(s, q, k)'
  <2>1. LagOf(q, k)'
    BY <1>2, <1>5 DEF Local, LagOf, Gone
  <2> QED
    BY <1>1, <1>5, <2>1 DEF Local, StageOf, OwnOf, UserOf, TargetOf, connVars
<1>6. ASSUME NEW k, k = job[t] PROVE Local(t, "free", k)'
  <2>1. Local(t, "unlist", k)
    BY <1>1, <1>6, JobIs
  <2>2. LagOf("free", k)'
    BY <1>2, <1>6 DEF LagOf, Gone
  <2> QED
    BY <1>1, <2>1, <2>2 DEF Local, StageOf, OwnOf, UserOf, TargetOf, connVars
<1>7. ThreadInv'
  <2>1. ASSUME NEW s \in Thread PROVE Local(s, pc[s], job[s])
    BY JobIs
  <2>2. ASSUME NEW s \in Thread PROVE \E q, k : q = pc'[s] /\ k = job'[s] /\ Local(s, q, k)'
    <3>1. CASE s = t
      BY <1>1, <1>3, <1>6, <3>1
    <3>2. CASE s # t
      BY <1>1, <1>3, <1>5, <2>1, <3>2
    <3> QED
      BY <3>1, <3>2
  <2> QED
    BY <2>2 DEF ThreadInv
<1>9. EntryInv'
  BY <1>1, <1>2 DEF IInv, EntryInv, Gone, connVars
<1>10. PresentInv'
  <2>1. ASSUME NEW c \in open, user[c] # NoUid
        PROVE  Listed(c)' \/ \E s \in Thread : Lags(pc'[s]) /\ job'[s].bev = c
    <3>1. CASE c = o.bev
      BY <1>1, <1>3, <3>1 DEF Lags
    <3>2. CASE c # o.bev /\ Listed(c)
      BY <1>2, <3>2 DEF Listed, Gone
    <3>3. ASSUME NEW s \in Thread, Lags(pc[s]), job[s].bev = c
          PROVE  Lags(pc'[s]) /\ job'[s].bev = c
      BY <1>1, <1>3, <3>3 DEF Lags
    <3> QED
      BY <2>1, <3>1, <3>2, <3>3 DEF IInv, PresentInv
  <2> QED
    BY <1>1, <2>1 DEF PresentInv, connVars
<1> QED
  BY <1>4, <1>7, <1>9, <1>10 DEF IInv

\* The list's entries are pairs of a user and a connection.
LEMMA EntryTyped == ASSUME IInv, NEW k \in DOMAIN online PROVE online[k] \in Entry
<1>1. online \in Seq(Entry)
  BY DEF IInv, TypeOK, Entry
<1>2. DOMAIN online = 1..Len(online)
  BY <1>1, LenProperties
<1> QED
  BY <1>1, <1>2, ElementOfSeq

\* A connection is freed by the callback that took it off the list.
LEMMA FreeKeeps ==
    ASSUME IInv, NEW t \in Thread, Free(t)
    PROVE  IInv'
<1> DEFINE o == job[t]
           b == o.bev
<1>1. /\ pc[t] = "free" /\ open' = open \ {b} /\ hungUp' = hungUp \ {b}
      /\ user' = [c \in Bev |-> IF c \in {b} THEN NoUid ELSE user[c]]
      /\ apart' = (apart /\ \A s \in Thread : job[s].target \notin {b})
      /\ UNCHANGED <<dbVars, owner, turn, conns, online, requests, single>>
  BY DEF Free, At, Freed
<1>2. Local(t, "free", o) /\ o \in Job /\ job \in [Thread -> Job]
  BY <1>1, JobIs DEF IInv, TypeOK, Job
<1>3. b \in open /\ owner[b] = t /\ \A k \in DOMAIN online : online[k].bev # b
  BY <1>2 DEF Local, OwnOf, LagOf, Lags
<1>4. PICK p \in Places, j \in Job :
         /\ pc' = [pc EXCEPT ![t] = p] /\ job' = [job EXCEPT ![t] = j]
         /\ \/ p = "connect" /\ j = o /\ o.op = "offline"
            \/ p = "idle" /\ j = NoJob
  <2>1. CASE o.op = "offline"
    <3>1. pc' = [pc EXCEPT ![t] = "connect"] /\ job' = job
      BY <2>1 DEF Free, Goto
    <3>2. job' = [job EXCEPT ![t] = o] /\ "connect" \in Places
      BY <1>2, <3>1 DEF Places
    <3> QED
      BY <1>2, <2>1, <3>1, <3>2
  <2>2. CASE o.op # "offline"
    <3>1. pc' = [pc EXCEPT ![t] = "idle"] /\ job' = [job EXCEPT ![t] = NoJob]
      BY <2>2 DEF Free, Return, Goto
    <3> QED
      BY <3>1, IdleIs
  <2> QED
    BY <2>1, <2>2
<1>5. /\ pc'[t] = p /\ job'[t] = j
      /\ \A s \in Thread : s # t => pc'[s] = pc[s] /\ job'[s] = job[s]
      /\ pc' \in [Thread -> Places] /\ job' \in [Thread -> Job]
  BY <1>4, Moved DEF IInv
<1>6. /\ open \subseteq Bev /\ user' \in [Bev -> Uid \union {NoUid}]
      /\ \A c \in open' : c \in open /\ c # b /\ user'[c] = user[c]
  BY <1>1 DEF IInv, TypeOK
<1>7. TypeOK'
  <2>1. apart' \in BOOLEAN
    BY <1>1 DEF IInv, TypeOK
  <2> QED
    BY <1>1, <1>5, <1>6, <2>1 DEF IInv, TypeOK, dbVars, DbTypeOK, Job
<1> HIDE DEF b, o
<1>8. ASSUME NEW s \in Thread, s # t, NEW q, NEW k, k = job[s], Local(s, q, k) PROVE Local(s, q, k)'
  <2>1. StageOf(q, k)' /\ LagOf(q, k)'
    BY <1>1, <1>8 DEF Local, StageOf, LagOf
  <2>2. OwnOf(s, q, k)'
    BY <1>1, <1>3, <1>8 DEF Local, OwnOf
  <2>3. TargetOf(q, k)'
    <3>1. apart' => apart /\ k.target # b
      BY <1>1, <1>8
    <3> QED
      BY <1>1, <1>6, <1>8, <3>1 DEF Local, TargetOf
  <2>4. UserOf(q, k)'
    <3>1. (k.op = "login" /\ q \in {"connect", "check", "welcome"}) \/ q \in {"enlist", "unlist"}
             => k.bev \in open'
      BY <1>1, <1>3, <1>8 DEF Local, StageOf, OwnOf
    <3> QED
      BY <1>6, <1>8, <3>1 DEF Local, UserOf
  <2> QED
    BY <2>1, <2>2, <2>3, <2>4 DEF Local
<1>9. Local(t, p, j)'
  <2>1. CASE p = "connect" /\ j = o /\ o.op = "offline"
    BY <1>2, <2>1 DEF Local, StageOf, OwnOf, UserOf, LagOf, Lags, TargetOf
  <2>2. CASE p = "idle" /\ j = NoJob
    BY <2>2, IdleIs DEF Local, StageOf, OwnOf, UserOf, LagOf, Lags, TargetOf
  <2> QED
    BY <1>4, <2>1, <2>2
<1>10. ThreadInv'
  <2>1. ASSUME NEW s \in Thread PROVE \E q, k : q = pc'[s] /\ k = job'[s] /\ Local(s, q, k)'
    <3>1. CASE s = t
      BY <1>5, <1>9, <3>1
    <3>2. CASE s # t
      <4>1. Local(s, pc[s], job[s])
        BY JobIs
      <4> QED
        BY <1>5, <1>8, <3>2, <4>1
    <3> QED
      BY <3>1, <3>2
  <2> QED
    BY <2>1 DEF ThreadInv
<1>13. EntryInv'
  <2>1. \A k \in DOMAIN online : online[k].bev \in open'
    BY <1>1, <1>3 DEF IInv, EntryInv
  <2> QED
    BY <1>1, <1>6, <2>1 DEF IInv, EntryInv
<1>14. PresentInv'
  <2>1. \A c : Listed(c)' = Listed(c)
    BY <1>1 DEF Listed
  <2>2. ASSUME NEW s \in Thread, Lags(pc[s]), job[s].bev # b PROVE Lags(pc'[s]) /\ job'[s].bev = job[s].bev
    BY <1>5, <2>2 DEF b, o
  <2> QED
    BY <1>6, <2>1, <2>2 DEF IInv, PresentInv
<1> QED
  BY <1>7, <1>10, <1>13, <1>14 DEF IInv

\* "login success" is sent: the user is logged in, and not yet in the list.
LEMMA WelcomeKeeps ==
    ASSUME IInv, NEW t \in Thread, Welcome(t)
    PROVE  IInv'
<1> DEFINE o == job[t]
           b == o.bev
<1>1. /\ pc[t] = "welcome" /\ pc' = [pc EXCEPT ![t] = "enlist"] /\ job' = job
      /\ user' = [user EXCEPT ![b] = o.uid]
      /\ UNCHANGED <<dbVars, open, hungUp, owner, turn, conns, online, requests, ghosts>>
  BY DEF Welcome, At, Goto
<1>2. Local(t, "welcome", o) /\ o \in Job
  BY <1>1, JobIs
<1>3. /\ b \in open /\ owner[b] = t /\ o.op = "login" /\ o.uid \in Uid /\ o.uid # NoUid
      /\ user[b] = NoUid
  BY <1>2, UserAssumption DEF Local, StageOf, OwnOf, UserOf
<1>4. /\ pc'[t] = "enlist" /\ \A s \in Thread : s # t => pc'[s] = pc[s]
      /\ pc' \in [Thread -> Places]
  BY <1>1 DEF IInv, TypeOK, Places
<1>5. /\ b \in Bev /\ user' \in [Bev -> Uid \union {NoUid}] /\ user'[b] = o.uid
      /\ \A c \in open : c # b => user'[c] = user[c]
  BY <1>1, <1>3 DEF IInv, TypeOK
<1>6. TypeOK'
  BY <1>1, <1>4, <1>5 DEF IInv, TypeOK, ghosts, dbVars, DbTypeOK
<1>7. \A k \in DOMAIN online : online[k].bev # b /\ online[k].bev \in open
  <2>1. ASSUME NEW k \in DOMAIN online PROVE online[k].uid \in Uid
    BY EntryTyped DEF Entry
  <2> QED
    BY <1>3, <2>1, UserAssumption DEF IInv, EntryInv
<1> HIDE DEF b
<1>9. ASSUME NEW s \in Thread, s # t, NEW q, NEW k, k = job[s], k \in Job, Local(s, q, k)
      PROVE  Local(s, q, k)'
  <2>1. StageOf(q, k)' /\ LagOf(q, k)' /\ OwnOf(s, q, k)'
    BY <1>1, <1>9 DEF Local, StageOf, LagOf, OwnOf
  <2>2. TargetOf(q, k)'
    <3>1. q = "send" => k.todo # <<>> /\ Head(k.todo) \in Uid
      <4>1. k.todo \in Seq(Uid)
        BY <1>9 DEF Job
      <4> QED
        BY <1>9, <4>1, HeadTailProperties DEF Local, StageOf
    <3>2. apart /\ q = "send" => k.target \in open /\ k.target # b
      BY <1>3, <1>9, <3>1, UserAssumption DEF Local, TargetOf
    <3> QED
      BY <1>1, <1>5, <1>9, <3>2 DEF Local, TargetOf, ghosts
  <2>3. UserOf(q, k)'
    <3>1. (k.op = "login" /\ q \in {"connect", "check", "welcome"}) \/ q \in {"enlist", "unlist"}
             => k.bev \in open /\ k.bev # b
      BY <1>3, <1>9 DEF Local, StageOf, OwnOf
    <3> QED
      BY <1>1, <1>5, <1>9, <3>1 DEF Local, UserOf
  <2> QED
    BY <2>1, <2>2, <2>3 DEF Local
<1>10. ASSUME NEW k, k = o PROVE Local(t, "enlist", k)'
  <2>1. StageOf("enlist", k)' /\ TargetOf("enlist", k)'
    BY <1>2, <1>3, <1>10 DEF Local, StageOf, TargetOf
  <2>2. OwnOf(t, "enlist", k)' /\ UserOf("enlist", k)'
    BY <1>1, <1>3, <1>5, <1>10 DEF OwnOf, UserOf, b
  <2>3. LagOf("enlist", k)'
    BY <1>1, <1>7, <1>10 DEF LagOf, b
  <2> QED
    BY <2>1, <2>2, <2>3 DEF Local
<1>11. ThreadInv'
  <2>1. ASSUME NEW s \in Thread PROVE \E q, k : q = pc'[s] /\ k = job'[s] /\ Local(s, q, k)'
    <3>1. CASE s = t
      BY <1>1, <1>4, <1>10, <3>1
    <3>2. CASE s # t
      <4>1. Local(s, pc[s], job[s]) /\ job[s] \in Job
        BY JobIs
      <4> QED
        BY <1>1, <1>4, <1>9, <3>2, <4>1
    <3> QED
      BY <3>1, <3>2
  <2> QED
    BY <2>1 DEF ThreadInv
<1>14. EntryInv'
  BY <1>1, <1>5, <1>7 DEF IInv, EntryInv
<1>15. PresentInv'
  <2>1. \A c : Listed(c)' = Listed(c)
    BY <1>1 DEF Listed
  <2>2. Lags(pc'[t]) /\ job'[t].bev = b
    BY <1>1, <1>4 DEF Lags, b
  <2>3. \A s \in Thread : Lags(pc[s]) => Lags(pc'[s]) /\ job'[s].bev = job[s].bev
    BY <1>1, <1>4 DEF Lags
  <2> QED
    BY <1>1, <1>5, <2>1, <2>2, <2>3 DEF IInv, PresentInv
<1> QED
  BY <1>6, <1>11, <1>14, <1>15 DEF IInv

\* The entry is appended.
LEMMA EnlistKeeps ==
    ASSUME IInv, NEW t \in Thread, Enlist(t)
    PROVE  IInv'
<1> DEFINE o == job[t]
           b == o.bev
           e == [uid |-> o.uid, bev |-> b]
           n == Len(online)
<1>1. /\ pc[t] = "enlist" /\ online' = Append(online, e) /\ job' = job
      /\ UNCHANGED <<dbVars, connVars, requests, ghosts>>
  BY DEF Enlist, At
<1>2. PICK p \in {"close", "seek"} : pc' = [pc EXCEPT ![t] = p] /\ (p = "seek" => o.todo # <<>>)
  BY DEF Enlist, Goto
<1>3. Local(t, "enlist", o) /\ o \in Job
  BY <1>1, JobIs
<1>4. /\ b \in open /\ owner[b] = t /\ o.op = "login" /\ o.uid \in Uid /\ user[b] = o.uid
      /\ \A k \in DOMAIN online : online[k].bev # b
  BY <1>3 DEF Local, StageOf, OwnOf, UserOf, LagOf, Lags
<1>5. /\ pc'[t] = p /\ \A s \in Thread : s # t => pc'[s] = pc[s]
      /\ pc' \in [Thread -> Places]
  BY <1>2 DEF IInv, TypeOK, Places
<1>6. b \in Bev /\ e \in Entry /\ online \in Seq(Entry)
  BY <1>4 DEF IInv, TypeOK, Entry
<1>7. /\ online' \in Seq(Entry) /\ n \in Nat /\ DOMAIN online = 1..n /\ DOMAIN online' = 1..(n + 1)
      /\ online'[n + 1] = e /\ \A k \in 1..n : online'[k] = online[k]
  BY <1>1, <1>6, AppendProperties, LenProperties
<1>8. TypeOK'
  BY <1>1, <1>5, <1>7 DEF IInv, TypeOK, ghosts, dbVars, connVars, DbTypeOK, Entry
<1>9. e.bev = b /\ e.uid = o.uid
  OBVIOUS
<1> HIDE DEF b, e, n
<1>10. ASSUME NEW s \in Thread, s # t, NEW q, NEW k, Local(s, q, k) PROVE Local(s, q, k)'
  <2>1. LagOf(q, k)'
    <3>1. Lags(q) => k.bev # b
      BY <1>4, <1>10 DEF Local, OwnOf, StageOf, Lags
    <3>2. \A m \in DOMAIN online' : (m \in DOMAIN online /\ online'[m] = online[m]) \/ online'[m] = e
      BY <1>7
    <3> QED
      BY <1>9, <1>10, <3>1, <3>2 DEF Local, LagOf
  <2> QED
    BY <1>1, <1>10, <2>1 DEF Local, StageOf, OwnOf, UserOf, TargetOf, connVars, ghosts
<1>11. ASSUME NEW k, k = o PROVE Local(t, p, k)'
  <2>1. Local(t, "enlist", k)
    BY <1>3, <1>11
  <2> QED
    BY <1>1, <1>2, <1>4, <1>11, <2>1 DEF Local, StageOf, OwnOf, UserOf, LagOf, Lags, TargetOf, connVars, ghosts, b
<1>12. ThreadInv'
  <2>1. ASSUME NEW s \in Thread PROVE \E q, k : q = pc'[s] /\ k = job'[s] /\ Local(s, q, k)'
    <3>1. CASE s = t
      BY <1>1, <1>5, <1>11, <3>1
    <3>2. CASE s # t
      <4>1. Local(s, pc[s], job[s])
        BY JobIs
      <4> QED
        BY <1>1, <1>5, <1>10, <3>2, <4>1
    <3> QED
      BY <3>1, <3>2
  <2> QED
    BY <2>1 DEF ThreadInv
<1>14. EntryInv'
  <2>1. \A k \in DOMAIN online' : (k \in DOMAIN online /\ online'[k] = online[k]) \/ (k = n + 1 /\ online'[k] = e)
    BY <1>7
  <2>2. n + 1 \notin DOMAIN online
    BY <1>7
  <2>3. open' = open /\ user' = user
    BY <1>1 DEF connVars
  <2> QED
    BY <1>4, <1>9, <2>1, <2>2, <2>3 DEF IInv, EntryInv
<1>15. PresentInv'
  <2>1. ASSUME NEW c, c = b PROVE Listed(c)'
    <3>1. n + 1 \in DOMAIN online' /\ online'[n + 1].bev = c
      BY <1>7, <1>9, <2>1
    <3> QED
      BY <3>1 DEF Listed
  <2>2. ASSUME NEW c, Listed(c) PROVE Listed(c)'
    <3>1. PICK k \in DOMAIN online : online[k].bev = c
      BY <2>2 DEF Listed
    <3>2. k \in DOMAIN online' /\ online'[k].bev = c
      BY <1>7, <3>1
    <3> QED
      BY <3>2 DEF Listed
  <2>3. ASSUME NEW s \in Thread, Lags(pc[s]), job[s].bev # b
        PROVE  Lags(pc'[s]) /\ job'[s].bev = job[s].bev
    BY <1>1, <1>5, <2>3 DEF b
  <2>4. open' = open /\ user' = user
    BY <1>1 DEF connVars
  <2>5. ASSUME NEW c \in open, user[c] # NoUid
        PROVE  Listed(c)' \/ \E s \in Thread : Lags(pc'[s]) /\ job'[s].bev = c
    <3>1. CASE c = b
      BY <2>1, <3>1
    <3>2. CASE c # b
      <4>1. Listed(c) \/ \E s \in Thread : Lags(pc[s]) /\ job[s].bev = c
        BY <2>5 DEF IInv, PresentInv
      <4> QED
        BY <2>2, <2>3, <3>2, <4>1
    <3> QED
      BY <3>1, <3>2
  <2> QED
    BY <2>4, <2>5 DEF PresentInv
<1> QED
  BY <1>8, <1>12, <1>14, <1>15 DEF IInv

------------------------------------------------------------------------------
LEMMA InitIsNothing == Init => Nothing
<1> SUFFICES ASSUME Init PROVE Nothing
  OBVIOUS
<1>1. 0 \in Thread
  BY ThreadAssumption DEF Thread
<1>2. /\ [b \in Bev |-> 0] \in [Bev -> Thread] /\ [b \in Bev |-> NoUid] \in [Bev -> Uid \union {NoUid}]
      /\ [s \in Thread |-> "idle"] \in [Thread -> Places] /\ [s \in Thread |-> NoJob] \in [Thread -> Job]
      /\ <<>> \in Seq([uid : Uid, bev : Bev]) /\ 0 \in 0..MaxConns /\ 0 \in 0..MaxRequests
  BY <1>1, IdleIs, BoundAssumption
<1>3. TypeOK
  BY <1>1, <1>2 DEF Init, DbInit, Up, TypeOK, DbTypeOK, Job
<1> QED
  BY <1>3 DEF Init, Nothing

LEMMA InitIs == Init => IInv
  BY InitIsNothing, NothingIs

\* Every step keeps the list in step with the connections, but for the two that
\* end single.
LEMMA NextKeeps == ASSUME single', IInv, [OnlineNext]_vars PROVE IInv'
<1>1. ASSUME UNCHANGED <<connVars, online, pc, job, requests, ghosts>>, DbTypeOK' PROVE IInv'
  <2>1. TypeOK'
    BY <1>1 DEF IInv, TypeOK, connVars, ghosts
  <2>2. ThreadInv'
    BY <1>1 DEF connVars, ghosts, IInv, ThreadInv, Local, StageOf, OwnOf, UserOf, LagOf, TargetOf
  <2>3. EntryInv' /\ PresentInv'
    BY <1>1 DEF connVars, IInv, EntryInv, PresentInv, Listed
  <2> QED
    BY <2>1, <2>2, <2>3 DEF IInv
<1>2. CASE Restart
  BY <1>1, <1>2 DEF Restart, Reboot, DbTypeOK
<1>3. CASE UNCHANGED vars
  BY <1>1, <1>3 DEF vars, DbTypeOK, IInv, TypeOK
<1>4. CASE Rest
  BY <1>3, <1>4 DEF Rest
<1>5. CASE Accept \/ \E b \in Bev : HangUp(b)
  BY <1>5, AcceptKeeps, HangUpKeeps
<1>6. ASSUME NEW t \in Thread, Request(t) \/ \E b \in Bev : ConnectionEnds(t, b) PROVE IInv'
  BY <1>6, ReceiveKeeps, EndsKeeps
<1>7. ASSUME NEW t \in Thread, Work(t) PROVE IInv'
  BY <1>7, UnlistKeeps, FreeKeeps, DatabaseKeeps, WelcomeKeeps, EnlistKeeps, MessageKeeps, DeathKeeps
     DEF Work
<1> QED
  BY <1>2, <1>3, <1>4, <1>5, <1>6, <1>7 DEF OnlineNext

------------------------------------------------------------------------------
\* Types, however often a user logs in: they rest on the places alone.
StagesOK == \A t \in Thread : StageOf(pc[t], job[t])
DataOK ==
    /\ DbTypeOK /\ open \subseteq Bev /\ hungUp \subseteq open
    /\ owner \in [Bev -> Thread] /\ user \in [Bev -> Uid \union {NoUid}]
    /\ online \in Seq(Entry)
    /\ turn \in Thread /\ conns \in 0..MaxConns /\ requests \in 0..MaxRequests
    /\ apart \in BOOLEAN /\ single \in BOOLEAN
TypeInv == TypeOK /\ StagesOK

LEMMA TypesAre ==
    TypeOK <=> DataOK /\ pc \in [Thread -> Places] /\ job \in [Thread -> Job]
  BY DEF TypeOK, DataOK, Entry, Job

LEMMA TypesAreAgain ==
    TypeOK' <=> DataOK' /\ pc' \in [Thread -> Places] /\ job' \in [Thread -> Job]
  BY DEF TypeOK, DataOK, Entry, Job

\* One callback moves on.
LEMMA TypeFrame ==
    ASSUME TypeInv, NEW t \in Thread, NEW p \in Places, NEW j \in Job,
           pc' = [pc EXCEPT ![t] = p], job' = [job EXCEPT ![t] = j], StageOf(p, j), DataOK'
    PROVE  TypeInv'
<1>1. /\ pc'[t] = p /\ job'[t] = j
      /\ \A s \in Thread : s # t => pc'[s] = pc[s] /\ job'[s] = job[s]
      /\ pc' \in [Thread -> Places] /\ job' \in [Thread -> Job]
  BY Moved DEF TypeInv
<1>2. StagesOK'
  <2>1. ASSUME NEW s \in Thread PROVE \E q, k : q = pc'[s] /\ k = job'[s] /\ StageOf(q, k)
    BY <1>1 DEF TypeInv, StagesOK
  <2> QED
    BY <2>1 DEF StagesOK, StageOf
<1> QED
  BY <1>1, <1>2, TypesAreAgain DEF TypeInv

LEMMA StageIs ==
    ASSUME TypeInv, NEW t \in Thread
    PROVE  /\ DataOK /\ pc[t] \in Places /\ job[t] \in Job /\ StageOf(pc[t], job[t])
           /\ job = [job EXCEPT ![t] = job[t]]
  BY TypesAre DEF TypeInv, StagesOK

LEMMA IdleTypes ==
    ASSUME TypeInv, NEW t \in Thread, Return(t), DataOK'
    PROVE  TypeInv'
<1>1. StageOf("idle", NoJob)
  BY IdleIs DEF Local
<1> QED
  BY <1>1, IdleIs, TypeFrame DEF Return, Goto

\* The callback moves on with the job it has.
LEMMA GotoTypes ==
    ASSUME TypeInv, NEW t \in Thread, NEW p \in Places, Goto(t, p), UNCHANGED job,
           StageOf(p, job[t]), DataOK'
    PROVE  TypeInv'
  BY StageIs, TypeFrame DEF Goto

LEMMA RequestTypes ==
    ASSUME TypeInv, NEW t \in Thread, Request(t) \/ \E b \in Bev : ConnectionEnds(t, b)
    PROVE  TypeInv'
<1>1. ASSUME NEW op \in {"login", "chat", "offline", "event"}, NEW b \in Bev,
             NEW u \in Uid \union {NoUid}, NEW todo \in Seq(Uid),
             NEW place \in {"connect", "seek", "unlist"}, Begin(t, op, b, u, todo, place),
             UNCHANGED <<dbVars, connVars, online, apart>>, single' \in BOOLEAN, requests' \in 0..MaxRequests,
             op = "login" => place = "connect" /\ u \in Uid,
             op = "chat" => place = "seek" /\ todo # <<>> /\ u \in Uid,
             op = "offline" => place = "unlist" /\ u \in Uid,
             op = "event" => place = "unlist"
      PROVE  TypeInv'
  <2>1. place \in Places
    BY DEF Places
  <2>2. /\ pc[t] = "idle" /\ pc' = [pc EXCEPT ![t] = place]
        /\ \E j \in Job :
              /\ job' = [job EXCEPT ![t] = j]
              /\ j.op = op /\ j.bev = b /\ j.uid = u /\ j.todo = todo /\ j.target = NoBev
    <3>1. Begin(t, op, b, u, todo, place)
      BY <1>1
    <3> QED
      BY <2>1, <3>1, BeginIs
  <2>3. PICK j \in Job : /\ job' = [job EXCEPT ![t] = j]
                         /\ j.op = op /\ j.bev = b /\ j.uid = u /\ j.todo = todo /\ j.target = NoBev
    BY <2>2
  <2>4. StageOf(place, j)
    BY <1>1, <2>3 DEF StageOf
  <2>5. DataOK'
    BY <1>1, StageIs DEF DataOK, dbVars, connVars, DbTypeOK
  <2> QED
    BY <2>1, <2>2, <2>3, <2>4, <2>5, TypeFrame
<1>2. open \subseteq Bev /\ hungUp \subseteq Bev /\ <<>> \in Seq(Uid) /\ requests \in 0..MaxRequests
  BY StageIs DEF DataOK
<1>3. ASSUME NEW b, NEW u, NEW op, NEW todo, NEW place, Receive(t, op, b, u, todo, place)
      PROVE  /\ b \in open /\ Begin(t, op, b, u, todo, place) /\ requests' \in 0..MaxRequests
             /\ UNCHANGED <<dbVars, connVars, online, apart>> /\ single' \in BOOLEAN
  BY <1>2, <1>3, BoundAssumption DEF Receive
<1>4. ASSUME NEW b \in open, user[b] # NoUid PROVE user[b] \in Uid
  BY <1>2, <1>4, StageIs DEF DataOK
<1>5. CASE ReceiveLogin(t)
  <2>1. PICK b \in open, u \in Uid : Receive(t, "login", b, u, <<>>, "connect")
    BY <1>5 DEF ReceiveLogin
  <2>2. /\ Begin(t, "login", b, u, <<>>, "connect") /\ requests' \in 0..MaxRequests
        /\ UNCHANGED <<dbVars, connVars, online, apart>> /\ single' \in BOOLEAN
    BY <1>3, <2>1
  <2> QED
    BY <1>1, <1>2, <2>2
<1>6. CASE ReceiveChat(t)
  <2>1. \A f \in Uid : <<f>> \in Seq(Uid) /\ <<f>> # <<>>
    OBVIOUS
  <2>2. PICK b \in open, f \in Uid : user[b] # NoUid /\ Receive(t, "chat", b, user[b], <<f>>, "seek")
    BY <1>6 DEF ReceiveChat
  <2>3. /\ Begin(t, "chat", b, user[b], <<f>>, "seek") /\ requests' \in 0..MaxRequests
        /\ UNCHANGED <<dbVars, connVars, online, apart>> /\ single' \in BOOLEAN
    BY <1>3, <2>2
  <2>4. user[b] \in Uid /\ <<f>> \in Seq(Uid) /\ <<f>> # <<>>
    BY <1>4, <2>1, <2>2
  <2> QED
    BY <1>1, <1>2, <2>3, <2>4
<1>7. CASE ReceiveOffline(t)
  <2>1. PICK b \in open : user[b] # NoUid /\ Receive(t, "offline", b, user[b], <<>>, "unlist")
    BY <1>7 DEF ReceiveOffline
  <2>2. /\ Begin(t, "offline", b, user[b], <<>>, "unlist") /\ requests' \in 0..MaxRequests
        /\ UNCHANGED <<dbVars, connVars, online, apart>> /\ single' \in BOOLEAN
    BY <1>3, <2>1
  <2>3. user[b] \in Uid
    BY <1>4, <2>1
  <2> QED
    BY <1>1, <1>2, <2>2, <2>3
<1>8. ASSUME NEW b \in Bev, ConnectionEnds(t, b) PROVE TypeInv'
  BY <1>1, <1>2, <1>8, StageIs DEF ConnectionEnds, ghosts, DataOK
<1> QED
  BY <1>5, <1>6, <1>7, <1>8 DEF Request

\* What a list is without one of its entries.
LEMMA ShorterType ==
    ASSUME online \in Seq(Entry), NEW t \in Thread, Unlist(t)
    PROVE  online' \in Seq(Entry)
<1>1. \A k \in 1..Len(online) : RemoveAt(online, k) \in Seq(Entry)
  BY RemoveAtIs
<1> QED
  BY <1>1, WithoutUserIs, WithoutBevIs DEF Unlist

LEMMA WorkTypes ==
    ASSUME TypeInv, NEW t \in Thread, Work(t)
    PROVE  TypeInv'
<1> DEFINE o == job[t]
<1>1. /\ DataOK /\ pc[t] \in Places /\ o \in Job /\ StageOf(pc[t], o)
      /\ job = [job EXCEPT ![t] = o]
  BY StageIs
<1>2. DbTypeOK' \/ NullHandle(t)
  BY <1>1 DEF Work, Unlist, Free, OpenDb, OpenDbFails, Check, Welcome, Enlist, Seek, Missed, Send, CloseDb,
              Connect, Disconnect, UseHandle, dbVars, DataOK, DbTypeOK
<1>3. ASSUME DbTypeOK', UNCHANGED <<connVars, online, requests, ghosts>> PROVE DataOK'
  BY <1>1, <1>3 DEF DataOK, connVars, ghosts
<1>4. ASSUME NEW todo \in Seq(Uid), NEW target \in Bev \union {NoBev}
      PROVE  LET j == [o EXCEPT !.todo = todo, !.target = target]
             IN  /\ j \in Job /\ j.op = o.op /\ j.bev = o.bev /\ j.uid = o.uid
                 /\ j.todo = todo /\ j.target = target
  BY <1>1 DEF Job
<1>5. o.target \in Bev \union {NoBev} /\ o.todo \in Seq(Uid)
      /\ o = [o EXCEPT !.todo = o.todo, !.target = o.target]
  BY <1>1 DEF Job
<1>6. ASSUME NEW p \in Places, NEW todo \in Seq(Uid), NEW target \in Bev \union {NoBev},
             pc' = [pc EXCEPT ![t] = p],
             job' = [job EXCEPT ![t] = [o EXCEPT !.todo = todo, !.target = target]],
             DataOK',
             \A j : j.op = o.op /\ j.bev = o.bev /\ j.uid = o.uid /\ j.todo = todo => StageOf(p, j)
      PROVE  TypeInv'
  <2>0. PICK j : j = [o EXCEPT !.todo = todo, !.target = target]
    OBVIOUS
  <2>1. j \in Job /\ j.op = o.op /\ j.bev = o.bev /\ j.uid = o.uid /\ j.todo = todo
    BY <1>1, <2>0 DEF Job
  <2>2. job' = [job EXCEPT ![t] = j]
    BY <1>6, <2>0
  <2>3. StageOf(p, j)
    BY <1>6, <2>1
  <2> QED
    BY <1>6, <2>1, <2>2, <2>3, TypeFrame
<1>7. CASE Unlist(t)
  <2>1. pc[t] = "unlist" /\ Goto(t, "free") /\ UNCHANGED <<connVars, job, requests, apart>>
        /\ single' \in BOOLEAN
    BY <1>7 DEF Unlist, At
  <2>2. DataOK'
    BY <1>1, <1>2, <1>7, <2>1, ShorterType DEF DataOK, connVars, NullHandle
  <2>3. StageOf("free", o) /\ "free" \in Places
    BY <1>1, <2>1 DEF StageOf, Places
  <2> QED
    BY <2>1, <2>2, <2>3, GotoTypes
<1>8. CASE Free(t)
  <2>1. /\ pc[t] = "free" /\ open' = open \ {o.bev} /\ hungUp' = hungUp \ {o.bev}
        /\ user' = [b \in Bev |-> IF b \in {o.bev} THEN NoUid ELSE user[b]]
        /\ apart' = (apart /\ \A s \in Thread : job[s].target \notin {o.bev})
        /\ UNCHANGED <<dbVars, owner, turn, conns, online, requests, single>>
    BY <1>8 DEF Free, At, Freed
  <2>2. DataOK'
    <3>1. DbTypeOK' /\ apart' \in BOOLEAN
      BY <1>1, <2>1 DEF DataOK, DbTypeOK, dbVars
    <3> QED
      BY <1>1, <2>1, <3>1 DEF DataOK
  <2>3. CASE o.op = "offline"
    <3>1. Goto(t, "connect") /\ UNCHANGED job
      BY <1>8, <2>3 DEF Free
    <3>2. StageOf("connect", o) /\ "connect" \in Places
      BY <1>1, <2>1, <2>3 DEF StageOf, Places
    <3> QED
      BY <2>2, <3>1, <3>2, GotoTypes
  <2>4. CASE o.op # "offline"
    BY <1>8, <2>2, <2>4, IdleTypes DEF Free
  <2> QED
    BY <2>3, <2>4
<1>9. CASE OpenDb(t) \/ OpenDbFails(t)
  <2>1. /\ pc[t] = "connect" /\ UNCHANGED <<connVars, online, requests, ghosts>>
        /\ Return(t) \/ (Goto(t, "check") /\ UNCHANGED job)
    BY <1>9 DEF OpenDb, OpenDbFails, At
  <2>2. DataOK'
    BY <1>1, <1>3, <1>9, <2>1 DEF OpenDb, OpenDbFails, Connect, dbVars, DataOK, DbTypeOK
  <2>3. StageOf("check", o) /\ "check" \in Places
    BY <1>1, <2>1 DEF StageOf, Places
  <2> QED
    BY <2>1, <2>2, <2>3, GotoTypes, IdleTypes
<1>10. CASE Check(t)
  <2>1. pc[t] = "check" /\ UNCHANGED <<connVars, online, requests, ghosts>>
    BY <1>10 DEF Check, At
  <2>2. DataOK'
    BY <1>1, <1>3, <1>10, <2>1 DEF Check, UseHandle, dbVars, DataOK, DbTypeOK
  <2>3. /\ StageOf("close", o) /\ o.uid \in Uid /\ {"close", "welcome"} \subseteq Places
        /\ o.op \in {"login", "offline"} /\ o.bev \in Bev
    BY <1>1, <2>1 DEF StageOf, Places
  <2>4. CASE Goto(t, "close") /\ UNCHANGED job
    BY <2>2, <2>3, <2>4, GotoTypes
  <2>5. CASE /\ Goto(t, IF o.op = "login" THEN "welcome" ELSE "close")
             /\ job' = [job EXCEPT ![t].todo = Friends[job[t].uid]]
    <3> DEFINE p == IF o.op = "login" THEN "welcome" ELSE "close"
    <3>1. Friends[o.uid] \in Seq(Uid)
      BY <2>3, UserAssumption
    <3>2. job' = [job EXCEPT ![t] = [o EXCEPT !.todo = Friends[o.uid], !.target = o.target]]
      BY <1>1, <2>5 DEF Job
    <3>3. pc' = [pc EXCEPT ![t] = p] /\ p \in Places
      BY <2>3, <2>5 DEF Goto
    <3>4. \A j : j.op = o.op /\ j.bev = o.bev /\ j.uid = o.uid => StageOf(p, j)
      BY <2>3 DEF StageOf
    <3> HIDE DEF p
    <3> QED
      BY <1>5, <1>6, <2>2, <3>1, <3>2, <3>3, <3>4
  <2> QED
    BY <1>10, <2>4, <2>5 DEF Check
<1>11. CASE Welcome(t)
  <2>1. /\ pc[t] = "welcome" /\ Goto(t, "enlist") /\ user' = [user EXCEPT ![o.bev] = o.uid]
        /\ UNCHANGED <<dbVars, open, hungUp, owner, turn, conns, online, job, requests, ghosts>>
    BY <1>11 DEF Welcome, At
  <2>2. StageOf("enlist", o) /\ "enlist" \in Places /\ o.uid \in Uid
    BY <1>1, <2>1 DEF StageOf, Places
  <2>3. DataOK'
    BY <1>1, <2>1, <2>2 DEF DataOK, DbTypeOK, dbVars, ghosts
  <2> QED
    BY <2>1, <2>2, <2>3, GotoTypes
<1>12. CASE Enlist(t)
  <2> DEFINE p == IF o.todo = <<>> THEN "close" ELSE "seek"
             e == [uid |-> o.uid, bev |-> o.bev]
  <2>1. /\ pc[t] = "enlist" /\ Goto(t, p) /\ UNCHANGED job /\ online' = Append(online, e)
        /\ UNCHANGED <<dbVars, connVars, requests, ghosts>>
    BY <1>12 DEF Enlist, At
  <2>2. StageOf(p, o) /\ p \in Places /\ e \in Entry
    BY <1>1, <2>1 DEF StageOf, Places, Entry
  <2> HIDE DEF e, p
  <2>3. online' \in Seq(Entry)
    BY <1>1, <2>1, <2>2, AppendProperties DEF DataOK
  <2>4. DataOK'
    BY <1>1, <2>1, <2>3 DEF DataOK, DbTypeOK, dbVars, connVars, ghosts
  <2> QED
    BY <2>1, <2>2, <2>4, GotoTypes
<1>13. CASE Seek(t)
  <2> DEFINE b == FriendOnline(Head(o.todo))
             p == IF b = NoBev THEN "missed" ELSE "send"
  <2>1. /\ pc[t] = "seek" /\ pc' = [pc EXCEPT ![t] = p]
        /\ job' = [job EXCEPT ![t] = [o EXCEPT !.target = b]]
        /\ UNCHANGED <<dbVars, connVars, online, requests, ghosts>>
    BY <1>13 DEF Seek, At, Goto
  <2>2. b \in Bev \union {NoBev}
    <3>1. ASSUME NEW k \in 1..Len(online) PROVE online[k].bev \in Bev
      <4>1. online \in Seq(Entry)
        BY <1>1 DEF DataOK
      <4>2. online[k] \in Entry
        BY <4>1, ElementOfSeq
      <4> QED
        BY <4>2 DEF Entry
    <3> QED
      BY <3>1, EntryOfIs DEF FriendOnline
  <2>3. p \in {"missed", "send"} /\ p \in Places
    BY DEF Places
  <2> HIDE DEF b, p
  <2>4. job' = [job EXCEPT ![t] = [o EXCEPT !.todo = o.todo, !.target = b]]
    BY <1>1, <2>1 DEF Job
  <2>5. DataOK'
    BY <1>1, <1>3, <2>1 DEF DataOK, DbTypeOK, dbVars
  <2>6. \A j : j.op = o.op /\ j.bev = o.bev /\ j.uid = o.uid /\ j.todo = o.todo => StageOf(p, j)
    BY <1>1, <2>1, <2>3 DEF StageOf
  <2> QED
    BY <1>5, <1>6, <2>1, <2>2, <2>3, <2>4, <2>5, <2>6
<1>14. CASE Missed(t) \/ Send(t)
  <2> DEFINE p == IF Len(o.todo) > 1 THEN "seek" ELSE IF o.op = "login" THEN "close" ELSE "idle"
             r == Tail(o.todo)
  <2>1. /\ pc[t] \in {"missed", "send"} /\ pc' = [pc EXCEPT ![t] = p]
        /\ job' = [job EXCEPT ![t] = [o EXCEPT !.todo = r, !.target = NoBev]]
        /\ UNCHANGED <<connVars, online, requests, ghosts>>
    BY <1>14 DEF Missed, Send, Proceed, At, Goto
  <2>2. DataOK'
    BY <1>1, <1>3, <1>14, <2>1 DEF Missed, Send, Disconnect, DataOK, DbTypeOK, dbVars
  <2>3. o.todo # <<>> /\ o.todo \in Seq(Uid)
    BY <1>1, <1>5, <2>1 DEF StageOf
  <2>4. r \in Seq(Uid) /\ (Len(o.todo) > 1 => r # <<>>)
    BY <2>3, TailIsMore
  <2>5. p \in Places /\ p \in {"seek", "close", "idle"} /\ (p = "seek" => r # <<>>)
        /\ (p = "close" => o.op = "login") /\ (p = "idle" => o.op # "login")
    BY <2>4 DEF Places
  <2> HIDE DEF p, r
  <2>6. \A j : j.op = o.op /\ j.bev = o.bev /\ j.uid = o.uid /\ j.todo = r => StageOf(p, j)
    BY <1>1, <2>1, <2>5 DEF StageOf
  <2> QED
    BY <1>6, <2>1, <2>2, <2>4, <2>5, <2>6
<1>15. CASE CloseDb(t)
  <2>1. pc[t] = "close" /\ UNCHANGED <<connVars, online, requests, ghosts>>
    BY <1>15 DEF CloseDb, At
  <2>2. DataOK'
    BY <1>1, <1>3, <1>15, <2>1 DEF CloseDb, Disconnect, DataOK, DbTypeOK
  <2>3. ASSUME o.op = "offline", o.todo # <<>> PROVE StageOf("seek", o) /\ "seek" \in Places
    BY <1>1, <2>1, <2>3 DEF StageOf, Places
  <2> QED
    BY <1>15, <2>2, <2>3, GotoTypes, IdleTypes DEF CloseDb
<1>16. CASE NullHandle(t)
  <2>1. LoseMemory /\ mysql' = FALSE /\ status' = "null_handle"
    BY <1>16 DEF NullHandle, UseNull, Die
  <2>2. 0 \in Thread
    BY ThreadAssumption DEF Thread
  <2>3. /\ [b \in Bev |-> 0] \in [Bev -> Thread] /\ [b \in Bev |-> NoUid] \in [Bev -> Uid \union {NoUid}]
        /\ [s \in Thread |-> "idle"] \in [Thread -> Places] /\ [s \in Thread |-> NoJob] \in [Thread -> Job]
        /\ <<>> \in Seq(Entry)
    BY <2>2, IdleIs
  <2>4. DataOK'
    BY <1>1, <2>1, <2>2, <2>3 DEF LoseMemory, ghosts, DataOK, DbTypeOK, Deaths
  <2>5. StagesOK'
    BY <2>1, IdleIs DEF LoseMemory, StagesOK, Local, StageOf
  <2> QED
    BY <2>1, <2>3, <2>4, <2>5, TypesAreAgain DEF TypeInv, LoseMemory
<1> QED
  BY <1>7, <1>8, <1>9, <1>10, <1>11, <1>12, <1>13, <1>14, <1>15, <1>16 DEF Work

LEMMA NextTypes == TypeInv /\ [OnlineNext]_vars => TypeInv'
<1> SUFFICES ASSUME TypeInv, [OnlineNext]_vars PROVE TypeInv'
  OBVIOUS
<1>1. ASSUME DataOK', UNCHANGED <<pc, job>> PROVE TypeInv'
  <2>1. StagesOK'
    BY <1>1 DEF TypeInv, StagesOK, StageOf
  <2> QED
    BY <1>1, <2>1, TypesAre, TypesAreAgain DEF TypeInv
<1>2. DataOK
  BY TypesAre DEF TypeInv
<1>3. CASE Restart
  BY <1>1, <1>2, <1>3 DEF Restart, Reboot, connVars, ghosts, DataOK, DbTypeOK
<1>4. CASE UNCHANGED vars
  BY <1>1, <1>2, <1>4 DEF vars, connVars, ghosts, DataOK, DbTypeOK
<1>5. CASE Accept
  <2>1. turn' \in Thread
    BY <1>2, <1>5, ThreadAssumption DEF Accept, NextTurn, Thread, DataOK
  <2>2. conns' \in 0..MaxConns
    BY <1>2, <1>5, BoundAssumption DEF Accept, DataOK
  <2>3. owner' \in [Bev -> Thread] /\ user' \in [Bev -> Uid \union {NoUid}] /\ open' \subseteq Bev
        /\ open \subseteq open'
    BY <1>2, <1>5 DEF Accept, DataOK
  <2> QED
    BY <1>1, <1>2, <1>5, <2>1, <2>2, <2>3 DEF Accept, dbVars, ghosts, DataOK, DbTypeOK
<1>6. ASSUME NEW b \in Bev, HangUp(b) PROVE TypeInv'
  BY <1>1, <1>2, <1>6 DEF HangUp, dbVars, ghosts, DataOK, DbTypeOK
<1> QED
  BY <1>3, <1>4, <1>5, <1>6, RequestTypes, WorkTypes DEF OnlineNext, Rest

\* Every thread's place and job, the list and the connections keep their types,
\* however often a user logs in.
THEOREM OnlineTypes == OnlineSpec => []TypeOK
<1>1. Init => TypeInv
  <2>1. Nothing => StagesOK
    BY IdleIs DEF Nothing, StagesOK, Local
  <2> QED
    BY <2>1, InitIsNothing DEF Nothing, TypeInv
<1>2. TypeInv => TypeOK
  BY DEF TypeInv
<1> QED
  BY <1>1, <1>2, NextTypes, PTL DEF OnlineSpec

------------------------------------------------------------------------------
\* No step makes single true again.
LEMMA NeverSingleAgain == ASSUME TypeOK, [OnlineNext]_vars, single' PROVE single
<1>1. ASSUME NEW t \in Thread, Work(t) PROVE single
  BY <1>1 DEF Work, Unlist, Free, OpenDb, OpenDbFails, Check, Welcome, Enlist, Seek, Missed, Send,
              CloseDb, NullHandle, LoseMemory, ghosts
<1>2. ASSUME NEW t \in Thread, Request(t) \/ \E b \in Bev : ConnectionEnds(t, b) PROVE single
  BY <1>2 DEF Request, ReceiveLogin, ReceiveChat, ReceiveOffline, Receive, ConnectionEnds, ghosts
<1>3. (Accept \/ Restart \/ \E b \in Bev : HangUp(b)) => single
  BY DEF Accept, Restart, HangUp, ghosts
<1>4. UNCHANGED vars => single
  BY DEF vars, ghosts
<1> QED
  BY <1>1, <1>2, <1>3, <1>4 DEF OnlineNext, Rest

SingleInv == single => IInv

LEMMA InvHolds == OnlineSpec => []SingleInv
<1>1. Init => SingleInv
  BY InitIs DEF SingleInv
<1>2. TypeOK /\ SingleInv /\ [OnlineNext]_vars => SingleInv'
  BY NextKeeps, NeverSingleAgain DEF SingleInv
<1> QED
  BY <1>1, <1>2, OnlineTypes, PTL DEF OnlineSpec

\* When its thread is in the event loop, a connection that was told "success"
\* is in the list under its user and no other is, however the logins, offline
\* requests and broken connections of the threads interleave, and however often
\* a user logs in: until one with two entries goes offline, or a connection is
\* logged in over again.
THEOREM ListIsRight == OnlineSpec => []ListMatchesLogins
<1>1. SingleInv => ListMatchesLogins
  <2> SUFFICES ASSUME IInv, NEW b \in open, pc[owner[b]] = "idle", NEW u \in Uid
               PROVE  user[b] = u <=> [uid |-> u, bev |-> b] \in Entries
    BY DEF SingleInv, ListMatchesLogins
  <2>1. ASSUME [uid |-> u, bev |-> b] \in Entries PROVE user[b] = u
    <3>1. PICK k \in DOMAIN online : online[k] = [uid |-> u, bev |-> b]
      BY <2>1 DEF Entries, ToSet
    <3> QED
      BY <3>1 DEF IInv, EntryInv
  <2>2. ASSUME user[b] = u PROVE [uid |-> u, bev |-> b] \in Entries
    <3>1. user[b] # NoUid
      BY <2>2, UserAssumption
    <3>2. ASSUME NEW t \in Thread, Lags(pc[t]), job[t].bev = b PROVE FALSE
      <4>1. owner[b] = t
        BY <3>2, JobIs DEF Local, StageOf, OwnOf, Lags
      <4> QED
        BY <3>2, <4>1 DEF Lags
    <3>3. PICK k \in DOMAIN online : online[k].bev = b
      BY <3>1, <3>2 DEF IInv, PresentInv, Listed
    <3>4. online[k].uid = u /\ online[k] \in Entry
      BY <2>2, <3>3, EntryTyped DEF IInv, EntryInv
    <3>5. online[k] = [uid |-> u, bev |-> b]
      BY <3>3, <3>4 DEF Entry
    <3> QED
      BY <3>5 DEF Entries, ToSet
  <2> QED
    BY <2>1, <2>2
<1> QED
  BY <1>1, InvHolds, PTL

\* Until a connection is freed between the look-up and the write, every message
\* goes to an open connection of the user it is for, whichever threads serve
\* the two and over however many connections he is logged in.
THEOREM MessagesFindTheirUser == OnlineSpec => []TargetIsAddressee
<1>1. SingleInv => TargetIsAddressee
  BY JobIs DEF SingleInv, TargetIsAddressee, Local, TargetOf
<1> QED
  BY <1>1, InvHolds, PTL
==============================================================================
