------------------------- MODULE MediaTransferProofs -------------------------
(***************************************************************************)
(* That a picture is only shown whole, that nothing is shown more often    *)
(* than it was sent, and that no chunk is left behind, for any users and   *)
(* requests, however the tasks of a thread pool overlap.                   *)
(*                                                                         *)
(* Inv says of every chunk under way, stored or being handled which        *)
(* picture it is of and that its place is one of that picture's. Then the  *)
(* chunks under one key have different places in one picture, and when     *)
(* there are as many as it has, they are all there.                        *)
(*                                                                         *)
(* OnceInv follows a packet: it is still to come, or on the wire, or at    *)
(* the task that stores it, or stored, and in one of these places only;    *)
(* once a picture has been put together none of its packets is in any of   *)
(* them, so that no second task can find them all there.  What is not cut  *)
(* has a packet for each place its recipient has in the list, and what is  *)
(* done with each of them bears its number.                                *)
(*                                                                         *)
(* KeptInv says the converse for a recipient who has not gone: as long as  *)
(* a chunk of a picture is in one of these places, so is each of the       *)
(* others, and when they are all stored a task is about to count them. It  *)
(* does not hold of who has gone, which is why he is left out of           *)
(* NothingKept.                                                            *)
(*                                                                         *)
(* ReachInv adds what the sender is told: what its thread has sent to      *)
(* somebody who is still there is shown or on its way, and "success" is    *)
(* said only when all has been sent.                                       *)
(***************************************************************************)
EXTENDS MediaTransfer, SequenceTheorems, FiniteSetTheorems, TLAPS

GoodPacket == {p \in [of : Request, nr : Nat] : p.nr \in 1..Packets(p.of)}
GoodTask == {t \in [of : Request, nr : Nat, at : {"store", "check", "show"},
                    pieces : SUBSET Piece] :
                /\ t.at = "store" => t.nr \in 1..t.of.size
                /\ t.at = "show" => t.pieces = Whole(t.of)}
GoodPart == {p \in [key : Nat, index : Nat, of : Request] :
                p.key = Key(p.of) /\ p.index \in 1..p.of.size}
GoodDone == {d \in Done : d.pieces = Whole(d.of)}

ServerInv ==
    /\ todo \in [User -> Seq(Request)]
    /\ next \in [User -> Nat \ {0}]
WireInv == wire \in [User -> Seq(GoodPacket)]
PoolInv == pool \in [User -> SUBSET GoodTask]
PartsInv == parts \in [User -> SUBSET GoodPart]
DoneInv ==
    /\ posted \in [User -> Seq(GoodDone)]
    /\ shown \in [User -> Seq(GoodDone)]
    /\ unsaved \in [User -> SUBSET Request]

Inv == ServerInv /\ WireInv /\ PoolInv /\ PartsInv /\ DoneInv

\* The numbers up to n.
LEMMA UpTo == ASSUME NEW n \in Nat PROVE IsFiniteSet(1..n) /\ Cardinality(1..n) = n
<1>1. Cardinality(1..n) = IF 1 > n THEN 0 ELSE n - 1 + 1
  BY FS_Interval
<1>2. IsFiniteSet(1..n)
  BY FS_Interval
<1> QED
  BY <1>1, <1>2

\* What a request is.
LEMMA RequestType ==
    ASSUME NEW m \in Request
    PROVE  /\ m.copy \in Nat /\ m.size \in Nat
           /\ m.to \in Seq(User)
<1> DEFINE R == [copy : Nat, from : User, to : Seq(User), group : BOOLEAN,
                 picture : BOOLEAN, size : Nat, sound : BOOLEAN]
<1>1. PICK u \in User : \E i \in DOMAIN Requests[u] : m = Requests[u][i]
  BY DEF Request
<1>2. PICK i \in DOMAIN Requests[u] : m = Requests[u][i]
  BY <1>1
<1>3. Requests[u] \in Seq(R)
  BY RequestsAssumption
<1> HIDE DEF R
<1>4. m \in R
  BY <1>2, <1>3
<1> QED
  BY <1>4 DEF R

\* A request comes to some number of packets.
LEMMA PacketsType ==
    ASSUME NEW m \in Request
    PROVE  Packets(m) \in Nat
<1>1. m.size \in Nat /\ Len(m.to) \in Nat
  BY RequestType, LenProperties
<1> QED
  BY <1>1 DEF Packets

\* The requests of each user are requests.
LEMMA RequestsTyped == Requests \in [User -> Seq(Request)]
<1> DEFINE R == [copy : Nat, from : User, to : Seq(User), group : BOOLEAN,
                 picture : BOOLEAN, size : Nat, sound : BOOLEAN]
<1>1. Requests \in [User -> Seq(R)]
  BY RequestsAssumption
<1> HIDE DEF R
<1>2. ASSUME NEW u \in User PROVE Requests[u] \in Seq(Request)
  <2> DEFINE s == Requests[u]
  <2>1. s \in Seq(R)
    BY <1>1
  <2>2. \A i \in DOMAIN s : s[i] \in Request
    BY DEF Request
  <2> HIDE DEF s
  <2>3. Len(s) \in Nat /\ s \in [1..Len(s) -> Request]
    BY <2>1, <2>2, LenProperties
  <2>4. s \in Seq(Request)
    BY <2>3, SeqDef
  <2> QED
    BY <2>4 DEF s
<1> QED
  BY <1>1, <1>2

\* The chunks under a picture's key have different places in it.
LEMMA PlacesDiffer ==
    ASSUME NEW m \in Request, NEW S \in SUBSET GoodPart, \A p \in S : p.key = Key(m)
    PROVE  /\ [p \in S |-> p.index] \in Injection(S, 1..m.size)
           /\ \A p \in S : p.of = m /\ p.index \in 1..m.size
           /\ IsFiniteSet(1..m.size) /\ Cardinality(1..m.size) = m.size
<1>1. \A p \in S : p.of = m /\ p.index \in 1..m.size
  BY RequestsAssumption DEF GoodPart, Key
<1> DEFINE f == [p \in S |-> p.index]
<1>2. f \in [S -> 1..m.size]
  BY <1>1
<1>3. \A p, q \in S : p.index = q.index => p = q
  <2> SUFFICES ASSUME NEW p \in S, NEW q \in S, p.index = q.index PROVE p = q
    OBVIOUS
  <2>1. /\ p \in [key : Nat, index : Nat, of : Request]
        /\ q \in [key : Nat, index : Nat, of : Request]
    BY DEF GoodPart
  <2> QED
    BY <1>1, <2>1
<1>4. f \in Injection(S, 1..m.size)
  <2>1. \A p \in S : f[p] = p.index
    OBVIOUS
  <2> HIDE DEF f
  <2>2. \A p, q \in S : f[p] = f[q] => p = q
    BY <1>3, <2>1
  <2> QED
    BY <1>2, <2>2 DEF Injection, IsInjective
<1>5. IsFiniteSet(1..m.size) /\ Cardinality(1..m.size) = m.size
  <2>1. m.size \in Nat
    BY RequestType
  <2> QED
    BY <2>1, UpTo
<1> QED
  BY <1>1, <1>4, <1>5

\* As many chunks under a picture's key as it has are the whole picture ...
LEMMA Complete ==
    ASSUME NEW m \in Request, NEW S \in SUBSET GoodPart,
           \A p \in S : p.key = Key(m), Cardinality(S) = m.size
    PROVE  {[index |-> p.index, of |-> p.of] : p \in S} = Whole(m)
<1> DEFINE f == [p \in S |-> p.index]
<1>1. f \in Injection(S, 1..m.size) /\ \A p \in S : p.of = m /\ p.index \in 1..m.size
  BY PlacesDiffer
<1>2. IsFiniteSet(1..m.size) /\ Cardinality(1..m.size) = m.size
  BY PlacesDiffer
<1>3. f \in Surjection(S, 1..m.size)
  BY <1>1, <1>2, FS_Injection
<1>4. \A i \in 1..m.size : \E p \in S : p.index = i
  BY <1>3 DEF Surjection
<1> QED
  BY <1>1, <1>4 DEF Whole

\* ... and the whole picture is as many.
LEMMA WholeIsAll ==
    ASSUME NEW m \in Request, NEW S \in SUBSET GoodPart, \A p \in S : p.key = Key(m),
           \A i \in 1..m.size : \E p \in S : p.index = i
    PROVE  Cardinality(S) = m.size
<1> DEFINE f == [p \in S |-> p.index]
<1>1. f \in Injection(S, 1..m.size) /\ IsFiniteSet(1..m.size) /\ Cardinality(1..m.size) = m.size
  BY PlacesDiffer
<1>2. f \in Surjection(S, 1..m.size)
  <2>1. f \in [S -> 1..m.size]
    BY <1>1 DEF Injection
  <2>2. \A i \in 1..m.size : \E p \in S : f[p] = i
    OBVIOUS
  <2> HIDE DEF f
  <2> QED
    BY <2>1, <2>2 DEF Surjection
<1> QED
  BY <1>1, <1>2, FS_Injection

\* A picture's chunks are pieces.
LEMMA WholeType ==
    ASSUME NEW m \in Request
    PROVE  Whole(m) \in SUBSET Piece
  BY RequestType DEF Whole, Piece

------------------------------------------------------------------------------
\* At the start nothing is under way.
LEMMA InitInv == Init => Inv
<1> SUFFICES ASSUME Init PROVE Inv
  OBVIOUS
<1>1. <<>> \in Seq(GoodPacket) /\ <<>> \in Seq(GoodDone)
  OBVIOUS
<1> QED
  BY <1>1, RequestsTyped DEF Init, Inv, ServerInv, WireInv, PoolInv, PartsInv, DoneInv

\* Nothing but the server's threads touches what they keep.
LEMMA ReturnKeeps ==
    ASSUME ServerInv, NEW u \in User, todo[u] # <<>>, NEW result, Return(u, result)
    PROVE  ServerInv'
<1>1. Tail(todo[u]) \in Seq(Request)
  BY HeadTailProperties DEF ServerInv
<1> QED
  BY <1>1 DEF Return, ServerInv

\* Appending a good packet, or none.
LEMMA WriteKeeps ==
    ASSUME WireInv, NEW v, NEW p \in GoodPacket, Write(v, p)
    PROVE  WireInv'
<1>1. v \in User => Append(wire[v], p) \in Seq(GoodPacket)
  BY AppendProperties DEF WireInv
<1> QED
  BY <1>1 DEF Write, WireInv

\* The server's steps.
LEMMA ServerKeeps ==
    ASSUME Inv, NEW u \in User, ServerStep(u)
    PROVE  Inv'
<1>1. ServerInv /\ WireInv
  BY DEF Inv
<1>2. CASE SaveFile(u) \/ FindFriend(u) \/ FindGroup(u) \/ Reply(u)
  <2>1. UNCHANGED <<wire, clientVars>> /\ todo[u] # <<>>
    BY <1>2 DEF SaveFile, FindFriend, FindGroup, Reply, Now
  <2>2. (\E result : Return(u, result)) \/ (\E at : To(u, at))
    BY <1>2 DEF SaveFile, FindFriend, FindGroup, Reply
  <2>3. ServerInv'
    BY <1>1, <2>1, <2>2, ReturnKeeps DEF To, ServerInv
  <2> QED
    BY <2>1, <2>3 DEF Inv, WireInv, PoolInv, PartsInv, DoneInv, clientVars
<1>3. CASE SendNext(u)
  <2> DEFINE m == Req(u)
             p == [of |-> m, nr |-> next[u]]
  <2>1. m \in Request /\ next[u] \in Nat \ {0}
    BY <1>1, <1>3, HeadTailProperties DEF SendNext, Now, Req, ServerInv
  <2>2. next[u] <= Packets(m) /\ Packets(m) \in Nat
    BY <1>3, <2>1, PacketsType DEF SendNext
  <2>3. p \in GoodPacket
    BY <2>1, <2>2 DEF GoodPacket
  <2>4. UNCHANGED wire \/ Write(Receiver(m, next[u]), p)
    BY <1>3 DEF SendNext
  <2> HIDE DEF p
  <2>5. WireInv'
    BY <1>1, <2>3, <2>4, WriteKeeps DEF WireInv
  <2>6. ServerInv' /\ UNCHANGED clientVars
    BY <1>1, <1>3 DEF SendNext, ServerInv
  <2> QED
    BY <2>5, <2>6 DEF Inv, PoolInv, PartsInv, DoneInv, clientVars
<1> QED
  BY <1>2, <1>3 DEF ServerStep

------------------------------------------------------------------------------
\* A task that goes on, and one that ends.
LEMMA PoolKeeps ==
    ASSUME PoolInv, NEW v, NEW t, NEW new \in GoodTask,
           pool' = [pool EXCEPT ![v] = (@ \ {t}) \union {new}]
    PROVE  PoolInv'
  BY DEF PoolInv

\* A packet that arrives: its task, or the file, is good.
LEMMA ReceiveKeeps ==
    ASSUME Inv, NEW v \in User, Receive(v)
    PROVE  Inv'
<1> DEFINE p == Head(wire[v])
<1>1. p \in GoodPacket /\ Tail(wire[v]) \in Seq(GoodPacket)
  BY HeadTailProperties DEF Inv, WireInv, Receive
<1>2. p.of \in Request /\ p.nr \in Nat /\ (Chunked(p.of) => p.nr \in 1..p.of.size)
  BY <1>1 DEF GoodPacket, Packets, Chunked
<1>3. WireInv'
  BY <1>1 DEF Inv, WireInv, Receive
<1>4. ServerInv' /\ PartsInv' /\ posted' = posted
  BY DEF Inv, ServerInv, PartsInv, Receive, serverVars
<1>5. Whole(p.of) \in SUBSET Piece
  BY <1>2, WholeType
<1>6. PoolInv'
  <2> DEFINE t == IF Chunked(p.of) THEN Task(p, "store", {}) ELSE Task(p, "show", Whole(p.of))
  <2>1. t \in GoodTask
    BY <1>2, <1>5 DEF GoodTask, Task
  <2>2. \/ pool' = [pool EXCEPT ![v] = @ \union {t}]
        \/ pool' = pool
    BY DEF Receive
  <2> HIDE DEF t
  <2> QED
    BY <2>1, <2>2 DEF Inv, PoolInv
<1>7. DoneInv'
  <2> DEFINE d == [of |-> p.of, nr |-> p.nr, pieces |-> Whole(p.of)]
  <2>1. d \in GoodDone
    BY <1>2, <1>5 DEF GoodDone, Done
  <2>2. \/ shown' = [shown EXCEPT ![v] = Append(@, d)]
        \/ shown' = shown
    BY DEF Receive
  <2> HIDE DEF d
  <2>3. Append(shown[v], d) \in Seq(GoodDone)
    BY <2>1, AppendProperties DEF Inv, DoneInv
  <2>4. unsaved' \in [User -> SUBSET Request]
    BY <1>2 DEF Receive, Drop, Inv, DoneInv
  <2> QED
    BY <1>4, <2>2, <2>3, <2>4 DEF Inv, DoneInv
<1> QED
  BY <1>3, <1>4, <1>6, <1>7 DEF Inv

\* A chunk is stored in a place of its picture.
LEMMA StoreKeeps ==
    ASSUME Inv, NEW v \in User, NEW t \in pool[v], StoreChunk(v, t)
    PROVE  Inv'
<1>1. t \in GoodTask /\ t.at = "store"
  BY DEF Inv, PoolInv, StoreChunk
<1>2. t.of \in Request /\ t.nr \in Nat /\ t.nr \in 1..t.of.size /\ t.of.copy \in Nat
  BY <1>1, RequestType DEF GoodTask
<1>3. PartsInv'
  <2> DEFINE q == [key |-> Key(t.of), index |-> t.nr, of |-> t.of]
  <2>1. q \in GoodPart
    BY <1>2 DEF GoodPart, Key
  <2>2. parts' = [parts EXCEPT ![v] =
            {p \in @ : p.key # Key(t.of) \/ p.index # t.nr} \union {q}]
    BY DEF StoreChunk
  <2> HIDE DEF q
  <2>3. {p \in parts[v] : p.key # Key(t.of) \/ p.index # t.nr} \union {q} \in SUBSET GoodPart
    BY <2>1 DEF Inv, PartsInv
  <2> QED
    BY <2>2, <2>3 DEF Inv, PartsInv
<1>4. PoolInv'
  <2>1. Task(t, "check", {}) \in GoodTask
    BY <1>2 DEF GoodTask, Task
  <2>2. PICK new \in GoodTask : new = Task(t, "check", {})
    BY <2>1
  <2>3. pool' = [pool EXCEPT ![v] = (@ \ {t}) \union {new}]
    BY <2>2 DEF StoreChunk, Becomes
  <2> QED
    BY <2>3, PoolKeeps DEF Inv
<1> QED
  BY <1>3, <1>4 DEF Inv, ServerInv, WireInv, DoneInv, StoreChunk, serverVars

\* The picture is assembled whole.
LEMMA AssembleKeeps ==
    ASSUME Inv, NEW v \in User, NEW t \in pool[v], Assemble(v, t)
    PROVE  Inv'
<1> DEFINE S == Stored(v, Key(t.of))
<1>1. t.of \in Request /\ t.nr \in Nat
  BY DEF Inv, PoolInv, GoodTask
<1>2. S \in SUBSET GoodPart /\ \A p \in S : p.key = Key(t.of)
  BY DEF Stored, Inv, PartsInv
<1>3. Cardinality(S) = t.of.size
  BY DEF Assemble, AllThere
<1> HIDE DEF S
<1>4. {[index |-> p.index, of |-> p.of] : p \in S} = Whole(t.of)
  BY <1>1, <1>2, <1>3, Complete
<1>5. PoolInv'
  <2>1. [of |-> t.of, nr |-> 0, at |-> "show", pieces |-> Whole(t.of)] \in GoodTask
    BY <1>1, WholeType DEF GoodTask
  <2>2. PICK new \in GoodTask :
            new = [of |-> t.of, nr |-> 0, at |-> "show", pieces |-> Whole(t.of)]
    BY <2>1
  <2>3. pool' = [pool EXCEPT ![v] = (@ \ {t}) \union {new}]
    BY <1>4, <2>2 DEF Assemble, Becomes, S
  <2> QED
    BY <2>3, PoolKeeps DEF Inv
<1>6. PartsInv'
  BY DEF Inv, PartsInv, Assemble, RemoveEntry
<1> QED
  BY <1>5, <1>6 DEF Inv, ServerInv, WireInv, DoneInv, Assemble, serverVars

\* Not all chunks are there.
LEMMA NotYetKeeps ==
    ASSUME Inv, NEW v \in User, NEW t \in pool[v], NotYet(v, t)
    PROVE  Inv'
<1>1. PoolInv'
  BY DEF Inv, PoolInv, NotYet, Ends
<1> QED
  BY <1>1 DEF Inv, ServerInv, WireInv, PartsInv, DoneInv, NotYet, serverVars

\* What is posted is whole.
LEMMA ProcessKeeps ==
    ASSUME Inv, NEW v \in User, NEW t \in pool[v], Process(v, t)
    PROVE  Inv'
<1>1. PoolInv'
  BY DEF Inv, PoolInv, Process, Ends
<1>2. t.of \in Request /\ t.nr \in Nat /\ t.pieces = Whole(t.of)
  BY DEF Inv, PoolInv, GoodTask, Process
<1>3. DoneInv'
  <2> DEFINE d == [of |-> t.of, nr |-> t.nr, pieces |-> t.pieces]
  <2>1. d \in GoodDone
    BY <1>2, WholeType DEF GoodDone, Done
  <2>2. posted' = [posted EXCEPT ![v] = Append(@, d)] \/ posted' = posted
    BY DEF Process
  <2> HIDE DEF d
  <2>3. Append(posted[v], d) \in Seq(GoodDone)
    BY <2>1, AppendProperties DEF Inv, DoneInv
  <2>4. unsaved' \in [User -> SUBSET Request]
    BY <1>2 DEF Process, Drop, Inv, DoneInv
  <2> QED
    BY <2>2, <2>3, <2>4 DEF Inv, DoneInv, Process
<1> QED
  BY <1>1, <1>3 DEF Inv, ServerInv, WireInv, PartsInv, Process, serverVars

\* What is shown was posted.
LEMMA ImageKeeps ==
    ASSUME Inv, NEW v \in User, ImageProcessed(v)
    PROVE  Inv'
<1>1. Head(posted[v]) \in GoodDone /\ Tail(posted[v]) \in Seq(GoodDone)
  BY HeadTailProperties DEF Inv, DoneInv, ImageProcessed
<1>2. Append(shown[v], Head(posted[v])) \in Seq(GoodDone)
  BY <1>1, AppendProperties DEF Inv, DoneInv
<1>3. DoneInv'
  BY <1>1, <1>2 DEF Inv, DoneInv, ImageProcessed
<1> QED
  BY <1>3 DEF Inv, ServerInv, WireInv, PoolInv, PartsInv, ImageProcessed, serverVars

\* A user who leaves loses what was under way.
LEMMA LeavesKeeps ==
    ASSUME Inv, NEW u \in User, Leaves(u)
    PROVE  Inv'
<1>1. <<>> \in Seq(GoodPacket)
  OBVIOUS
<1> QED
  BY <1>1 DEF Inv, ServerInv, WireInv, PoolInv, PartsInv, DoneInv, Leaves, serverVars,
     clientVars

\* One step per action.
LEMMA NextInv == Inv /\ [Next]_vars => Inv'
<1> SUFFICES ASSUME Inv, [Next]_vars PROVE Inv'
  OBVIOUS
<1>1. CASE UNCHANGED vars
  BY <1>1 DEF vars, serverVars, clientVars, Inv, ServerInv, WireInv, PoolInv, PartsInv, DoneInv
<1>2. ASSUME NEW u \in User, MainThread(u) PROVE Inv'
  BY <1>2, ReceiveKeeps, ImageKeeps DEF MainThread
<1>3. ASSUME NEW u \in User, PoolStep(u) PROVE Inv'
  BY <1>3, StoreKeeps, AssembleKeeps, NotYetKeeps, ProcessKeeps DEF PoolStep
<1> QED
  BY <1>1, <1>2, <1>3, ServerKeeps, LeavesKeeps DEF Next

\* What is handed to the page was put together from all chunks of that one
\* picture, each in its place: for any number of pictures, chunks and tasks.
THEOREM PicturesAreWhole == Spec => []ShownWhole
<1>1. Inv => ShownWhole
  <2> SUFFICES ASSUME Inv, NEW u \in User, NEW i \in DOMAIN shown[u]
               PROVE  shown[u][i].pieces = Whole(shown[u][i].of)
    BY DEF ShownWhole
  <2>1. shown[u] \in Seq(GoodDone)
    BY DEF Inv, DoneInv
  <2>2. shown[u][i] \in GoodDone
    BY <2>1, ElementOfSeq, LenProperties
  <2> QED
    BY <2>2 DEF GoodDone
<1> QED
  BY <1>1, InitInv, NextInv, PTL DEF Spec

------------------------------------------------------------------------------
\* What the server may still send to v: the packet of m with this number, which
\* is one of those to v, or any packet of a request that is not begun.
ToCome(v, m, c) ==
    \E u \in User : \E i \in DOMAIN todo[u] :
        todo[u][i] = m /\ (i = 1 => c \in next[u]..Packets(m) /\ Receiver(m, c) = v)

\* Where a packet of m is at v before the picture is put together.
OnWire(v, m, c) == \E i \in DOMAIN wire[v] : wire[v][i].of = m /\ wire[v][i].nr = c
InStore(v, m, c) == \E t \in pool[v] : t.at = "store" /\ t.of = m /\ t.nr = c
InParts(v, m, c) == \E p \in parts[v] : p.of = m /\ p.index = c
Has(v, m, c) == OnWire(v, m, c) \/ InStore(v, m, c) \/ InParts(v, m, c)

\* No packet of m, or if m is not cut none with this number, is anywhere or will
\* come.
Finished(v, m, k) == \A c \in Nat : Chunked(m) \/ c = k => ~ToCome(v, m, c) /\ ~Has(v, m, c)

\* m has been put together at v, or its packet with this number was whole.
Showing(v, m, k) == \E t \in pool[v] : t.at = "show" /\ t.of = m /\ t.nr = k
Posted(v, m, k) == \E i \in DOMAIN posted[v] : posted[v][i].of = m /\ posted[v][i].nr = k
Shown(v, m, k) == \E i \in DOMAIN shown[v] : shown[v][i].of = m /\ shown[v][i].nr = k
Handed(v, m, k) == Showing(v, m, k) \/ Posted(v, m, k) \/ Shown(v, m, k)
Assembled(v, m, k) ==
    \/ Handed(v, m, k)
    \/ Key(m) \in again[v]
    \/ Key(m) \notin files[v] /\ \E t \in pool[v] : t.at = "check" /\ t.of = m

MapInv == files \in [User -> SUBSET Nat] /\ again \in [User -> SUBSET Nat]

\* No request is made twice, and none is begun before its first packet.
TodoInv ==
    /\ \A u, w \in User : \A i \in DOMAIN todo[u], j \in DOMAIN todo[w] :
          todo[u][i] = todo[w][j] => u = w /\ i = j
    /\ \A u \in User : stage[u] \in {"idle", "saved"} => next[u] = 1

\* Each packet is of the right kind and at the right user.
KindInv == \A v \in User :
    /\ \A m \in Request, c \in Nat : OnWire(v, m, c) => c \in 1..Packets(m) /\ Receiver(m, c) = v
    /\ \A t \in pool[v] : t.at \in {"store", "check"} =>
          Chunked(t.of) /\ t.nr \in 1..t.of.size /\ v = t.of.to[1] /\ t.pieces = {}
    /\ \A p \in parts[v] : Chunked(p.of) /\ v = p.of.to[1]

\* Each packet is in one place, once.
PlaceInv == \A v \in User :
    /\ \A i, j \in DOMAIN wire[v] : wire[v][i] = wire[v][j] => i = j
    /\ \A m \in Request, c \in Nat :
          /\ OnWire(v, m, c) => ~InStore(v, m, c) /\ ~InParts(v, m, c)
          /\ InStore(v, m, c) => ~InParts(v, m, c)

\* What is at v is not still to come.
SentInv == \A v \in User, m \in Request, c \in Nat : Has(v, m, c) => ~ToCome(v, m, c)

\* What has been handed on bears the number of one of the packets to v, or none
\* if it was put together.
CopyInv == \A v \in User, m \in Request, k \in Nat : Handed(v, m, k) =>
    IF Chunked(m) THEN k = 0 ELSE k \in 1..Packets(m) /\ Receiver(m, k) = v

\* What has been put together is finished, and is in one place, once.
Same(x, y) == x.of = y.of /\ x.nr = y.nr

FinishedInv == \A v \in User, m \in Request, k \in Nat : Assembled(v, m, k) => Finished(v, m, k)
SingleInv == \A v \in User :
    /\ \A t1, t2 \in pool[v] : t1.at = "show" /\ t2.at = "show" /\ Same(t1, t2) => t1 = t2
    /\ \A i, j \in DOMAIN posted[v] : Same(posted[v][i], posted[v][j]) => i = j
    /\ \A i, j \in DOMAIN shown[v] : Same(shown[v][i], shown[v][j]) => i = j
    /\ \A m \in Request, k \in Nat :
          /\ Showing(v, m, k) => ~Posted(v, m, k) /\ ~Shown(v, m, k)
          /\ Posted(v, m, k) => ~Shown(v, m, k)

OnceInv ==
    /\ MapInv /\ TodoInv /\ KindInv /\ PlaceInv /\ SentInv
    /\ CopyInv /\ FinishedInv /\ SingleInv

\* A chunk of m that has not been put together is accounted for.
Tracked(v, m) == \A c \in 1..m.size : Has(v, m, c) \/ ToCome(v, m, c)
Checking(v, m) == \E t \in pool[v] : t.at = "check" /\ t.of = m

FilesInv == \A v \in User :
    /\ \A k \in files[v] : Stored(v, k) = {} => k \in again[v]
    /\ \A p \in parts[v] : p.key \in files[v]
TrackInv ==
    /\ online \subseteq User /\ stage \in [User -> {"idle", "saved", "sending"}]
    /\ \A v \in online, m \in Request :
          /\ Chunked(m) /\ (\E c \in Nat : Has(v, m, c)) => Tracked(v, m)
          /\ \A u \in User :
                /\ todo[u] # <<>> /\ Head(todo[u]) = m /\ stage[u] = "sending"
                /\ next[u] <= m.size /\ Chunked(m) /\ m.to[1] = v
                => \A c \in 1..(next[u] - 1) : Has(v, m, c)
CheckInv == \A v \in User : \A m \in Request :
    Chunked(m) /\ m.size > 0 /\ (\A c \in 1..m.size : InParts(v, m, c)) => Checking(v, m)

KeptInv == FilesInv /\ TrackInv /\ CheckInv

------------------------------------------------------------------------------
\* A step that brings nothing leaves finished what is.
LEMMA Fewer ==
    ASSUME SentInv,
           \A v \in User, m \in Request, c \in Nat :
               /\ ToCome(v, m, c)' => ToCome(v, m, c)
               /\ Has(v, m, c)' => Has(v, m, c)
    PROVE  /\ SentInv'
           /\ \A v \in User, m \in Request, k \in Nat : Finished(v, m, k) => Finished(v, m, k)'
  BY DEF SentInv, Finished

\* What a step that leaves the clients alone leaves as it was.
LEMMA ClientsSame ==
    ASSUME UNCHANGED <<wire, clientVars>>
    PROVE  /\ MapInv => MapInv'
           /\ KindInv => KindInv'
           /\ PlaceInv => PlaceInv'
           /\ CopyInv => CopyInv'
           /\ SingleInv => SingleInv'
           /\ \A v \in User, m \in Request, c \in Nat : Has(v, m, c)' = Has(v, m, c)
           /\ \A v \in User, m \in Request, k \in Nat : Assembled(v, m, k)' = Assembled(v, m, k)
<1>1. /\ wire' = wire /\ pool' = pool /\ files' = files /\ parts' = parts
      /\ posted' = posted /\ shown' = shown /\ again' = again
  BY DEF clientVars
<1>2. KindInv => KindInv'
  BY <1>1 DEF KindInv, OnWire
<1>3. PlaceInv => PlaceInv'
  BY <1>1 DEF PlaceInv, OnWire, InStore, InParts
<1>4. (SingleInv => SingleInv') /\ (CopyInv => CopyInv')
  <2>1. \A v \in User, m \in Request, k \in Nat :
           /\ Showing(v, m, k)' = Showing(v, m, k)
           /\ Posted(v, m, k)' = Posted(v, m, k)
           /\ Shown(v, m, k)' = Shown(v, m, k)
    BY <1>1 DEF Showing, Posted, Shown
  <2> QED
    BY <1>1, <2>1 DEF SingleInv, CopyInv, Handed
<1>5. ASSUME NEW v \in User, NEW m \in Request, NEW c \in Nat
      PROVE  Has(v, m, c)' = Has(v, m, c)
  BY <1>1 DEF Has, OnWire, InStore, InParts
<1>6. ASSUME NEW v \in User, NEW m \in Request, NEW k \in Nat
      PROVE  Assembled(v, m, k)' = Assembled(v, m, k)
  BY <1>1 DEF Assembled, Handed, Showing, Posted, Shown
<1> QED
  BY <1>1, <1>2, <1>3, <1>4, <1>5, <1>6 DEF MapInv

\* ... and what one that leaves the server's threads alone does.
LEMMA ServerSame ==
    ASSUME UNCHANGED serverVars
    PROVE  /\ TodoInv => TodoInv'
           /\ \A v \in User, m \in Request, c \in Nat : ToCome(v, m, c)' = ToCome(v, m, c)
<1>1. todo' = todo /\ next' = next /\ stage' = stage
  BY DEF serverVars
<1> QED
  BY <1>1 DEF TodoInv, ToCome

\* At the start all is still to come.
LEMMA InitOnce == Init => OnceInv
<1> SUFFICES ASSUME Init PROVE OnceInv
  OBVIOUS
<1>1. TodoInv
  BY OnceAssumption DEF Init, TodoInv
<1>2. KindInv /\ PlaceInv /\ SingleInv /\ CopyInv
  BY DEF Init, KindInv, PlaceInv, SingleInv, CopyInv, Handed, Showing, Posted, Shown, OnWire, InStore, InParts
<1>3. SentInv
  BY DEF Init, SentInv, Has, OnWire, InStore, InParts
<1>4. FinishedInv
  BY DEF Init, FinishedInv, Assembled, Handed, Showing, Posted, Shown
<1>5. MapInv
  BY DEF Init, MapInv
<1> QED
  BY <1>1, <1>2, <1>3, <1>4, <1>5 DEF OnceInv

\* A thread that is done with a request goes on to the next one.
LEMMA ReturnTodo ==
    ASSUME ServerInv, TodoInv, NEW u \in User, todo[u] # <<>>, NEW result, Return(u, result)
    PROVE  /\ TodoInv'
           /\ \A v \in User, m \in Request, c \in Nat : ToCome(v, m, c)' => ToCome(v, m, c)
<1> DEFINE r == Tail(todo[u])
<1>1. todo' = [todo EXCEPT ![u] = r] /\ stage' = [stage EXCEPT ![u] = "idle"]
      /\ next' = [next EXCEPT ![u] = 1]
  BY DEF Return
<1>2. todo[u] \in Seq(Request)
  BY DEF ServerInv
<1>3. \A i \in DOMAIN r : i + 1 \in DOMAIN todo[u] /\ r[i] = todo[u][i + 1] /\ i + 1 # 1 /\ i \in Nat
  BY <1>2
<1> HIDE DEF r
<1>4. \A w \in User : todo'[w] = IF w = u THEN r ELSE todo[w]
  BY <1>1 DEF ServerInv
<1>5. \A w \in User : next'[w] = IF w = u THEN 1 ELSE next[w]
  BY <1>1 DEF ServerInv
<1>6. \A w \in User : stage'[w] \in {"idle", "saved"} => w = u \/ stage[w] \in {"idle", "saved"}
  BY <1>1
<1>7. TodoInv'
  <2>1. ASSUME NEW x \in User, NEW w \in User, NEW i \in DOMAIN todo'[x], NEW j \in DOMAIN todo'[w],
               todo'[x][i] = todo'[w][j]
        PROVE  x = w /\ i = j
    <3>1. CASE x # u /\ w # u
      BY <1>4, <2>1, <3>1 DEF TodoInv
    <3>2. CASE x = u /\ w # u
      BY <1>3, <1>4, <2>1, <3>2 DEF TodoInv
    <3>3. CASE x # u /\ w = u
      BY <1>3, <1>4, <2>1, <3>3 DEF TodoInv
    <3>4. CASE x = u /\ w = u
      <4>1. i + 1 = j + 1
        BY <1>3, <1>4, <2>1, <3>4 DEF TodoInv
      <4> QED
        BY <1>3, <1>4, <3>4, <4>1
    <3> QED
      BY <3>1, <3>2, <3>3, <3>4
  <2> QED
    BY <1>5, <1>6, <2>1 DEF TodoInv
<1>8. ASSUME NEW v \in User, NEW m \in Request, NEW c \in Nat, ToCome(v, m, c)'
      PROVE  ToCome(v, m, c)
  <2>1. PICK w \in User : \E i \in DOMAIN todo'[w] :
           /\ todo'[w][i] = m
           /\ i = 1 => c \in next'[w]..Packets(m) /\ Receiver(m, c) = v
    BY <1>8 DEF ToCome
  <2>2. CASE w = u
    BY <1>3, <1>4, <2>1, <2>2 DEF ToCome
  <2>3. CASE w # u
    BY <1>4, <1>5, <2>1, <2>3 DEF ToCome
  <2> QED
    BY <2>2, <2>3
<1> QED
  BY <1>7, <1>8

\* Any step of a server's thread but SendNext.
LEMMA QuietStep ==
    ASSUME Inv, TodoInv, NEW u \in User,
           SaveFile(u) \/ FindFriend(u) \/ FindGroup(u) \/ Reply(u)
    PROVE  /\ TodoInv' /\ UNCHANGED <<wire, clientVars>>
           /\ \A v \in User, m \in Request, c \in Nat : ToCome(v, m, c)' => ToCome(v, m, c)
<1>1. UNCHANGED <<wire, clientVars>> /\ todo[u] # <<>>
  BY DEF SaveFile, FindFriend, FindGroup, Reply, Now
<1>2. (\E result : Return(u, result)) \/ (\E at \in {"saved", "sending"} : To(u, at) /\ next[u] = 1)
  BY DEF SaveFile, FindFriend, FindGroup, Reply, Now, TodoInv
<1>3. CASE \E result : Return(u, result)
  BY <1>1, <1>3, ReturnTodo DEF Inv
<1>4. CASE \E at \in {"saved", "sending"} : To(u, at) /\ next[u] = 1
  <2>1. todo' = todo /\ next' = next /\ \A w \in User : stage'[w] = stage[w] \/ next[w] = 1
    BY <1>4 DEF To
  <2>2. TodoInv'
    BY <2>1 DEF TodoInv
  <2> QED
    BY <1>1, <2>1, <2>2 DEF ToCome
<1> QED
  BY <1>2, <1>3, <1>4

\* SendNext writes the packet it comes to, and it will not come to it again.
LEMMA SendTodo ==
    ASSUME Inv, TodoInv, NEW u \in User, SendNext(u),
           NEW m, m = Req(u), NEW v, v = Receiver(m, next[u]), NEW c, c = next[u]
    PROVE  /\ m \in Request /\ c \in Nat /\ c \in 1..Packets(m) /\ Receiver(m, c) = v
           /\ 1 \in DOMAIN todo[u] /\ todo[u][1] = m
           /\ ToCome(v, m, c) /\ ~ToCome(v, m, c)'
           /\ TodoInv' /\ UNCHANGED clientVars
           /\ \A w \in User, l \in Request, k \in Nat : ToCome(w, l, k)' => ToCome(w, l, k)
           /\ \A w \in User, l \in Request, k \in Nat :
                 ToCome(w, l, k) => ToCome(w, l, k)' \/ (w = v /\ l = m /\ k = c)
           /\ \/ wire' = wire /\ (Chunked(m) => v \notin online)
              \/ /\ v \in online
                 /\ wire' = [wire EXCEPT ![v] = Append(@, [of |-> m, nr |-> c])]
<1>1. todo[u] # <<>> /\ todo[u] \in Seq(Request) /\ next[u] \in Nat \ {0} /\ stage[u] = "sending"
  BY DEF Inv, ServerInv, SendNext, Now
<1>2. todo[u][1] = m /\ 1 \in DOMAIN todo[u] /\ m \in Request
  BY <1>1, HeadTailProperties, LenProperties DEF Req
<1>4. next[u] \in 1..Packets(m) /\ Packets(m) \in Nat
  BY <1>1, <1>2, PacketsType DEF SendNext
<1>5. c \in Nat /\ c \in 1..Packets(m) /\ Receiver(m, c) = v
  BY <1>1, <1>4
<1>6. todo' = todo /\ stage' = stage /\ UNCHANGED clientVars
      /\ next' = [next EXCEPT ![u] = next[u] + 1]
  BY DEF SendNext
<1>7. \A w \in User : next'[w] = IF w = u THEN next[u] + 1 ELSE next[w]
  BY <1>6 DEF Inv, ServerInv
<1>8. TodoInv'
  BY <1>1, <1>6, <1>7 DEF TodoInv
<1>9. (wire' = wire /\ (Chunked(m) => v \notin online)) \/ (v \in online /\ wire' = [wire EXCEPT ![v] = Append(@, [of |-> m, nr |-> c])])
  BY DEF SendNext, Write, Chunked
<1>10. ToCome(v, m, c)
  <2>1. c \in next[u]..Packets(m)
    BY <1>1, <1>4
  <2> QED
    BY <1>2, <1>5, <2>1 DEF ToCome
<1>11. ~ToCome(v, m, c)'
  <2>1. SUFFICES ASSUME NEW w \in User, NEW i \in DOMAIN todo[w], todo[w][i] = m,
                        i = 1 => c \in next'[w]..Packets(m) /\ Receiver(m, c) = v
                 PROVE  FALSE
    BY <1>6 DEF ToCome
  <2>2. w = u /\ i = 1
    BY <1>2, <2>1 DEF TodoInv
  <2>3. c \in (next[u] + 1)..Packets(m)
    BY <1>7, <2>1, <2>2
  <2> QED
    BY <1>1, <1>4, <2>3
<1>12. ASSUME NEW w \in User, NEW l \in Request, NEW k \in Nat, ToCome(w, l, k)'
       PROVE  ToCome(w, l, k)
  <2>1. PICK x \in User : \E i \in DOMAIN todo[x] :
           /\ todo[x][i] = l
           /\ i = 1 => k \in next'[x]..Packets(l) /\ Receiver(l, k) = w
    BY <1>6, <1>12 DEF ToCome
  <2>2. next[x] \in Nat /\ next'[x] \in {next[x], next[x] + 1}
    BY <1>7 DEF Inv, ServerInv
  <2>3. l.size \in Nat /\ l.to \in Seq(User)
    BY RequestType
  <2>4. Packets(l) \in Nat
    BY <2>3 DEF Packets
  <2>5. \A n \in next'[x]..Packets(l) : n \in next[x]..Packets(l)
    BY <2>2, <2>4
  <2> QED
    BY <2>1, <2>5 DEF ToCome
<1>13. ASSUME NEW w \in User, NEW l \in Request, NEW k \in Nat, ToCome(w, l, k)
       PROVE  ToCome(w, l, k)' \/ (w = v /\ l = m /\ k = c)
  <2>1. PICK x \in User : \E i \in DOMAIN todo[x] :
           /\ todo[x][i] = l
           /\ i = 1 => k \in next[x]..Packets(l) /\ Receiver(l, k) = w
    BY <1>13 DEF ToCome
  <2>1a. PICK i \in DOMAIN todo[x] :
           /\ todo[x][i] = l
           /\ i = 1 => k \in next[x]..Packets(l) /\ Receiver(l, k) = w
    BY <2>1
  <2>2. CASE i # 1 \/ x # u
    BY <1>6, <1>7, <2>1a, <2>2 DEF ToCome
  <2>3. CASE i = 1 /\ x = u
    <3>1. l = m
      BY <1>2, <2>1a, <2>3
    <3>2. k \in next[u]..Packets(m) /\ Receiver(m, k) = w
      BY <2>1a, <2>3, <3>1
    <3>3. CASE k = next[u]
      BY <3>1, <3>2, <3>3
    <3>4. CASE k # next[u]
      <4>1. k \in next'[u]..Packets(m)
        BY <1>1, <1>4, <1>7, <3>2, <3>4
      <4> QED
        BY <1>6, <2>1a, <2>3, <3>1, <3>2, <4>1 DEF ToCome
    <3> QED
      BY <3>3, <3>4
  <2> QED
    BY <2>2, <2>3
<1> QED
  BY <1>1, <1>2, <1>4, <1>5, <1>6, <1>8, <1>9, <1>10, <1>11, <1>12, <1>13

\* The step appends packet c of m to the wire of v, and it will not come again.
Sends(v, m, c) ==
    /\ c \in 1..Packets(m) /\ Receiver(m, c) = v
    /\ ToCome(v, m, c) /\ ~ToCome(v, m, c)'
    /\ \A w \in User, l \in Request, k \in Nat : ToCome(w, l, k)' => ToCome(w, l, k)
    /\ wire' = [wire EXCEPT ![v] = Append(@, [of |-> m, nr |-> c])]
    /\ UNCHANGED clientVars

\* A packet appended to a wire that has no such packet, at a user who has none
\* such and has not put the picture together.
LEMMA AppendPlace ==
    ASSUME Inv, KindInv, PlaceInv, SentInv, CopyInv, FinishedInv, SingleInv,
           NEW v \in User, NEW m \in Request, NEW c \in Nat, Sends(v, m, c)
    PROVE  /\ KindInv' /\ PlaceInv' /\ SentInv' /\ CopyInv' /\ FinishedInv' /\ SingleInv'
           /\ \A w \in User, l \in Request, k \in Nat :
                  Has(w, l, k)' <=> (Has(w, l, k) \/ (w = v /\ l = m /\ k = c))
<1> DEFINE p == [of |-> m, nr |-> c]
           s == Append(wire[v], p)
<1>0. /\ c \in 1..Packets(m) /\ Receiver(m, c) = v
      /\ ToCome(v, m, c) /\ ~ToCome(v, m, c)'
      /\ \A w \in User, l \in Request, k \in Nat : ToCome(w, l, k)' => ToCome(w, l, k)
      /\ wire' = [wire EXCEPT ![v] = Append(@, [of |-> m, nr |-> c])]
      /\ UNCHANGED clientVars
  BY DEF Sends
<1>1. wire[v] \in Seq(GoodPacket) /\ wire \in [User -> Seq(GoodPacket)]
  BY DEF Inv, WireInv
<1>2. \A w \in User : wire'[w] = IF w = v THEN s ELSE wire[w]
  BY <1>0, <1>1
<1>3. /\ p.of = m /\ p.nr = c
      /\ DOMAIN s = 1..(Len(wire[v]) + 1) /\ DOMAIN wire[v] = 1..Len(wire[v]) /\ Len(wire[v]) \in Nat
      /\ s[Len(wire[v]) + 1] = p
      /\ \A i \in DOMAIN wire[v] : s[i] = wire[v][i]
  BY <1>1
<1>4. pool' = pool /\ files' = files /\ parts' = parts /\ posted' = posted /\ shown' = shown
      /\ again' = again
  BY <1>0 DEF clientVars
<1> HIDE DEF p, s
<1>5a. ASSUME NEW w \in User, NEW l \in Request, NEW k \in Nat
       PROVE  OnWire(w, l, k)' <=> (OnWire(w, l, k) \/ (w = v /\ l = m /\ k = c))
  <2>1. CASE w # v
    BY <1>2, <2>1 DEF OnWire
  <2>2. CASE w = v
    <3>1. ASSUME NEW i \in 1..(Len(wire[v]) + 1), i # Len(wire[v]) + 1 PROVE i \in 1..Len(wire[v])
      BY <1>3, <3>1
    <3>2. \A i \in 1..Len(wire[v]) : i \in 1..(Len(wire[v]) + 1)
      BY <1>3
    <3>3. Len(wire[v]) + 1 \in 1..(Len(wire[v]) + 1)
      BY <1>3
    <3> QED
      BY <1>2, <1>3, <2>2, <3>1, <3>2, <3>3 DEF OnWire
  <2> QED
    BY <2>1, <2>2
<1>5. \A w \in User, l \in Request, k \in Nat :
          Has(w, l, k)' <=> (Has(w, l, k) \/ (w = v /\ l = m /\ k = c))
  BY <1>4, <1>5a DEF Has, InStore, InParts
<1>6. ~Has(v, m, c)
  BY <1>0 DEF SentInv
<1>7. \A w \in User, l \in Request, k \in Nat : Assembled(w, l, k)' = Assembled(w, l, k)
  BY <1>4 DEF Assembled, Handed, Showing, Posted, Shown
<1>8. \A k \in Nat : Chunked(m) \/ k = c => ~Assembled(v, m, k)
  BY <1>0 DEF FinishedInv, Finished
<1>9. FinishedInv'
  <2>1. ASSUME NEW w \in User, NEW l \in Request, NEW k \in Nat, Assembled(w, l, k) PROVE Finished(w, l, k)'
    <3>1. Finished(w, l, k) /\ (w # v \/ l # m \/ (k # c /\ ~Chunked(m)))
      BY <1>8, <2>1 DEF FinishedInv
    <3> QED
      BY <1>0, <1>5, <3>1 DEF Finished
  <2> QED
    BY <1>7, <2>1 DEF FinishedInv
<1>10. SentInv'
  BY <1>0, <1>5 DEF SentInv
<1>11. SingleInv' /\ CopyInv'
  BY <1>4 DEF SingleInv, CopyInv, Handed, Showing, Posted, Shown
<1>12. \A i \in DOMAIN s : i \in DOMAIN wire[v] \/ i = Len(wire[v]) + 1
  BY <1>3
<1>13. KindInv'
  <2>1. \A w \in User, l \in Request, k \in Nat : OnWire(w, l, k)' =>
           k \in 1..Packets(l) /\ Receiver(l, k) = w
    BY <1>0, <1>5a DEF KindInv
  <2> QED
    BY <1>4, <2>1 DEF KindInv
<1>14. PlaceInv'
  <2>1. \A i \in DOMAIN wire[v] : wire[v][i] # p
    BY <1>3, <1>6 DEF Has, OnWire
  <2>2. ASSUME NEW w \in User, NEW i \in DOMAIN wire'[w], NEW j \in DOMAIN wire'[w],
               wire'[w][i] = wire'[w][j]
        PROVE  i = j
    <3>1. CASE w # v
      BY <1>2, <2>2, <3>1 DEF PlaceInv
    <3>2. CASE w = v
      <4>1. wire'[v] = s /\ s[i] = s[j]
        BY <1>2, <2>2, <3>2
      <4>2. CASE i \in DOMAIN wire[v] /\ j \in DOMAIN wire[v]
        BY <1>3, <4>1, <4>2 DEF PlaceInv
      <4>3. CASE i = Len(wire[v]) + 1 \/ j = Len(wire[v]) + 1
        BY <1>2, <1>3, <1>12, <2>1, <2>2, <3>2, <4>1, <4>3
      <4> QED
        BY <1>2, <1>12, <3>2, <4>2, <4>3
    <3> QED
      BY <3>1, <3>2
  <2>3. \A w \in User, l \in Request, k \in Nat :
           /\ InStore(w, l, k)' = InStore(w, l, k)
           /\ InParts(w, l, k)' = InParts(w, l, k)
    BY <1>4 DEF InStore, InParts
  <2>4. \A w \in User, l \in Request, k \in Nat :
           /\ OnWire(w, l, k)' => ~InStore(w, l, k)' /\ ~InParts(w, l, k)'
           /\ InStore(w, l, k)' => ~InParts(w, l, k)'
    BY <1>5a, <1>6, <2>3 DEF PlaceInv, Has
  <2> QED
    BY <2>2, <2>4 DEF PlaceInv
<1> QED
  BY <1>5, <1>9, <1>10, <1>11, <1>13, <1>14

\* The server's steps.
LEMMA ServerOnce ==
    ASSUME Inv, OnceInv, NEW u \in User, ServerStep(u)
    PROVE  OnceInv'
<1> USE DEF OnceInv
<1>1. ASSUME \A v \in User, m \in Request, c \in Nat : ToCome(v, m, c)' => ToCome(v, m, c),
             TodoInv', UNCHANGED <<wire, clientVars>>
      PROVE  OnceInv'
  <2>1. SentInv' /\ \A v \in User, m \in Request, k \in Nat : Finished(v, m, k) => Finished(v, m, k)'
    BY <1>1, ClientsSame, Fewer
  <2> QED
    BY <1>1, <2>1, ClientsSame DEF FinishedInv
<1>2. CASE SaveFile(u) \/ FindFriend(u) \/ FindGroup(u) \/ Reply(u)
  BY <1>1, <1>2, QuietStep
<1>3. CASE SendNext(u)
  <2>1. PICK m : m = Req(u)
    OBVIOUS
  <2>2. PICK v : v = Receiver(m, next[u])
    OBVIOUS
  <2>3. PICK c : c = next[u]
    OBVIOUS
  <2>4. /\ m \in Request /\ c \in Nat /\ c \in 1..Packets(m) /\ Receiver(m, c) = v
        /\ ToCome(v, m, c) /\ ~ToCome(v, m, c)' /\ TodoInv' /\ UNCHANGED clientVars
        /\ \A w \in User, l \in Request, k \in Nat : ToCome(w, l, k)' => ToCome(w, l, k)
        /\ \/ wire' = wire
           \/ v \in online /\ wire' = [wire EXCEPT ![v] = Append(@, [of |-> m, nr |-> c])]
    BY <1>3, <2>1, <2>2, <2>3, SendTodo
  <2>5. CASE wire' = wire
    BY <1>1, <2>4, <2>5
  <2>6. CASE v \in User /\ wire' = [wire EXCEPT ![v] = Append(@, [of |-> m, nr |-> c])]
    <3>1. MapInv'
      BY <2>4 DEF MapInv, clientVars
    <3>2. Sends(v, m, c)
      BY <2>4, <2>6 DEF Sends
    <3> QED
      BY <2>4, <2>6, <3>1, <3>2, AppendPlace
  <2>7. v \notin User => wire' = wire
    BY <2>4 DEF Inv, WireInv
  <2> QED
    BY <2>4, <2>5, <2>6, <2>7
<1> QED
  BY <1>2, <1>3 DEF ServerStep

------------------------------------------------------------------------------
\* What is known of the packet a wire begins with.
LEMMA HeadPacket ==
    ASSUME WireInv, KindInv, PlaceInv, NEW v \in User, wire[v] # <<>>,
           NEW m \in Request, NEW c \in Nat, m = Head(wire[v]).of, c = Head(wire[v]).nr
    PROVE  /\ c \in 1..Packets(m) /\ Receiver(m, c) = v
           /\ ~InStore(v, m, c) /\ ~InParts(v, m, c)
           /\ OnWire(v, m, c)
<1> DEFINE s == wire[v]
           p == Head(s)
<1>1. s \in Seq(GoodPacket) /\ s # <<>>
  BY DEF WireInv
<1>2. 1 \in DOMAIN s /\ s[1] = p /\ p \in GoodPacket
  BY <1>1
<1>3. OnWire(v, m, c)
  BY <1>2 DEF OnWire
<1> QED
  BY <1>3 DEF KindInv, PlaceInv

\* The step takes the packet with chunk c of m from the wire of v.
Takes(v, m, c) ==
    /\ wire[v] # <<>> /\ m = Head(wire[v]).of /\ c = Head(wire[v]).nr
    /\ wire' = [wire EXCEPT ![v] = Tail(@)]

\* A packet that is taken from a wire is not on it any more.
LEMMA TakePacket ==
    ASSUME WireInv, PlaceInv, NEW v \in User,
           NEW m \in Request, NEW c \in Nat, Takes(v, m, c)
    PROVE  /\ \A w \in User, l \in Request, k \in Nat :
                 OnWire(w, l, k)' <=> (OnWire(w, l, k) /\ ~(w = v /\ l = m /\ k = c))
           /\ \A w \in User : \A i, j \in DOMAIN wire'[w] :
                 wire'[w][i] = wire'[w][j] => i = j
<1> DEFINE s == wire[v]
           p == Head(s)
           r == Tail(s)
<1>0. /\ wire[v] # <<>> /\ m = Head(wire[v]).of /\ c = Head(wire[v]).nr
      /\ wire' = [wire EXCEPT ![v] = Tail(@)]
  BY DEF Takes
<1>1. s \in Seq(GoodPacket) /\ wire \in [User -> Seq(GoodPacket)]
  BY DEF WireInv
<1>2. \A w \in User : wire'[w] = IF w = v THEN r ELSE wire[w]
  BY <1>0, <1>1
<1>3. /\ s # <<>> /\ Len(s) \in Nat \ {0} /\ DOMAIN s = 1..Len(s) /\ DOMAIN r = 1..(Len(s) - 1)
      /\ s[1] = p /\ p.of = m /\ p.nr = c /\ \A i \in 1..(Len(s) - 1) : r[i] = s[i + 1]
      /\ \A i \in 1..Len(s) : s[i] \in GoodPacket
  BY <1>0, <1>1
<1>4. \A w \in User : \A i, j \in DOMAIN wire[w] : wire[w][i] = wire[w][j] => i = j
  BY DEF PlaceInv
<1>5. \A i, j \in 1..Len(s) : s[i] = s[j] => i = j
  BY <1>3, <1>4
<1> HIDE DEF p, r, s
<1>6. 1 \in 1..Len(s) /\ \A i \in 1..(Len(s) - 1) : i + 1 \in 1..Len(s) /\ i + 1 # 1
  BY <1>3
<1>7. \A i \in 1..Len(s) : s[i].of = m /\ s[i].nr = c => i = 1
  <2> SUFFICES ASSUME NEW i \in 1..Len(s), s[i].of = m, s[i].nr = c PROVE i = 1
    OBVIOUS
  <2>1. s[i] \in [of : Request, nr : Nat] /\ s[1] \in [of : Request, nr : Nat]
    BY <1>3, <1>6 DEF GoodPacket
  <2>2. s[i].of = s[1].of /\ s[i].nr = s[1].nr
    BY <1>3
  <2>3. s[i] = s[1]
    BY <2>1, <2>2
  <2> QED
    BY <1>5, <1>6, <2>3
<1>8. \A i \in 1..Len(s) : i = 1 \/ (i - 1 \in 1..(Len(s) - 1) /\ r[i - 1] = s[i])
  BY <1>3
<1>9. ASSUME NEW l \in Request, NEW k \in Nat
      PROVE  OnWire(v, l, k)' <=> (OnWire(v, l, k) /\ ~(l = m /\ k = c))
  <2>1. OnWire(v, l, k)' <=> \E i \in 1..(Len(s) - 1) : r[i].of = l /\ r[i].nr = k
    BY <1>2, <1>3 DEF OnWire
  <2>2. OnWire(v, l, k) <=> \E i \in 1..Len(s) : s[i].of = l /\ s[i].nr = k
    BY <1>3 DEF OnWire, s
  <2>3. (\E i \in 1..(Len(s) - 1) : r[i].of = l /\ r[i].nr = k)
            => OnWire(v, l, k) /\ ~(l = m /\ k = c)
    <3> SUFFICES ASSUME NEW i \in 1..(Len(s) - 1), r[i].of = l, r[i].nr = k
                 PROVE  OnWire(v, l, k) /\ ~(l = m /\ k = c)
      OBVIOUS
    <3>1. PICK j \in 1..Len(s) : j # 1 /\ r[i] = s[j]
      BY <1>3, <1>6
    <3> QED
      BY <1>7, <2>2, <3>1
  <2>4. OnWire(v, l, k) /\ ~(l = m /\ k = c)
            => \E i \in 1..(Len(s) - 1) : r[i].of = l /\ r[i].nr = k
    BY <1>3, <1>8, <2>2
  <2> QED
    BY <2>1, <2>3, <2>4
<1>10. ASSUME NEW w \in User, NEW l \in Request, NEW k \in Nat, w # v
       PROVE  OnWire(w, l, k)' = OnWire(w, l, k)
  BY <1>2, <1>10 DEF OnWire
<1>11. ASSUME NEW w \in User, NEW i \in DOMAIN wire'[w], NEW j \in DOMAIN wire'[w],
              wire'[w][i] = wire'[w][j]
       PROVE  i = j
  <2>1. CASE w # v
    BY <1>2, <1>4, <1>11, <2>1
  <2>2. CASE w = v
    <3>0. wire'[w] = r
      BY <1>2, <2>2
    <3>1. i \in 1..(Len(s) - 1) /\ j \in 1..(Len(s) - 1) /\ r[i] = r[j]
      BY <1>3, <1>11, <3>0
    <3>2. i + 1 \in 1..Len(s) /\ j + 1 \in 1..Len(s) /\ s[i + 1] = s[j + 1]
      BY <1>3, <1>6, <3>1
    <3>3. i + 1 = j + 1
      BY <1>5, <3>2
    <3> QED
      BY <3>1, <3>3
  <2> QED
    BY <2>1, <2>2
<1> QED
  BY <1>9, <1>10, <1>11

\* What is not cut is finished with its packet.
LEMMA WholeArrives ==
    ASSUME SentInv, NEW v \in User, NEW m \in Request, NEW c \in Nat, ~Chunked(m), Has(v, m, c),
           \A k \in Nat : ToCome(v, m, k)' => ToCome(v, m, k), ~Has(v, m, c)'
    PROVE  Finished(v, m, c)'
<1>1. ~ToCome(v, m, c)
  BY DEF SentInv
<1> QED
  BY <1>1 DEF Finished

\* A packet becomes a task, or a file that is shown.
LEMMA ReceiveOnce ==
    ASSUME Inv, OnceInv, NEW v \in User, Receive(v)
    PROVE  /\ OnceInv'
           /\ \A w \in User, l \in Request, k \in Nat :
                 Chunked(l) => (Has(w, l, k)' <=> Has(w, l, k))
<1> USE DEF OnceInv
<1>1. PICK p \in GoodPacket : p = Head(wire[v])
  BY HeadTailProperties DEF Inv, WireInv, Receive
<1>2. PICK m \in Request, c \in Nat : m = p.of /\ c = p.nr
  BY DEF GoodPacket
<1>3. wire[v] # <<>> /\ wire' = [wire EXCEPT ![v] = Tail(@)]
  BY DEF Receive
<1>4. UNCHANGED serverVars /\ files' = files /\ parts' = parts /\ posted' = posted /\ again' = again
  BY DEF Receive
<1>5. /\ c \in 1..Packets(m) /\ Receiver(m, c) = v
      /\ ~InStore(v, m, c) /\ ~InParts(v, m, c) /\ OnWire(v, m, c)
  BY <1>1, <1>2, <1>3, HeadPacket DEF Inv
<1>19. WireInv /\ PlaceInv /\ KindInv
  BY DEF Inv
<1>20. Takes(v, m, c)
  BY <1>1, <1>2, <1>3 DEF Takes
<1>21. /\ \A w \in User, l \in Request, k \in Nat :
              OnWire(w, l, k)' <=> (OnWire(w, l, k) /\ ~(w = v /\ l = m /\ k = c))
       /\ \A w \in User : \A i, j \in DOMAIN wire'[w] : wire'[w][i] = wire'[w][j] => i = j
  BY <1>2, <1>19, <1>20, TakePacket
<1>6. \A w \in User, l \in Request, k \in Nat :
           OnWire(w, l, k)' <=> (OnWire(w, l, k) /\ ~(w = v /\ l = m /\ k = c))
  BY <1>21
<1>7. \A w \in User : \A i \in DOMAIN wire'[w], j \in DOMAIN wire'[w] :
           wire'[w][i] = wire'[w][j] => i = j
  BY <1>21
<1>8. MapInv'
  BY <1>4 DEF MapInv
<1>9. TodoInv' /\ \A w \in User, l \in Request, k \in Nat : ToCome(w, l, k)' = ToCome(w, l, k)
  BY <1>4, ServerSame
<1>10. \A w \in User, l \in Request, k \in Nat : InParts(w, l, k)' = InParts(w, l, k)
  BY <1>4 DEF InParts
<1>11. \A w \in User, l \in Request, k \in Nat : OnWire(w, l, k)' =>
           /\ k \in 1..Packets(l) /\ Receiver(l, k) = w
           /\ ~InParts(w, l, k) /\ ~InStore(w, l, k) /\ ~(w = v /\ l = m /\ k = c)
  BY <1>6 DEF KindInv, PlaceInv
<1>12. CASE Chunked(m)
  <2> DEFINE t == Task(p, "store", {})
  <2>1. pool' = [pool EXCEPT ![v] = @ \union {t}] /\ shown' = shown
    BY <1>1, <1>2, <1>12 DEF Receive, Chunked
  <2>2. t.at = "store" /\ t.of = m /\ t.nr = c /\ t.pieces = {}
    BY <1>2 DEF Task
  <2> HIDE DEF t
  <2>3. \A w, r : w \in User => (r \in pool'[w] <=> (r \in pool[w] \/ (w = v /\ r = t)))
    BY <2>1 DEF Inv, PoolInv
  <2>4. \A w \in User, l \in Request, k \in Nat :
           InStore(w, l, k)' <=> (InStore(w, l, k) \/ (w = v /\ l = m /\ k = c))
    BY <2>2, <2>3 DEF InStore
  <2>5. \A w \in User, l \in Request, k \in Nat : Has(w, l, k)' <=> Has(w, l, k)
    <3>1. OnWire(v, m, c) /\ InStore(v, m, c)'
      BY <1>5, <2>4
    <3> QED
      BY <1>6, <1>10, <2>4, <3>1 DEF Has
  <2>6. \A w \in User, l \in Request, k \in Nat : Assembled(w, l, k)' <=> Assembled(w, l, k)
    BY <1>4, <2>1, <2>2, <2>3 DEF Assembled, Handed, Showing, Posted, Shown
  <2>7. SentInv' /\ FinishedInv'
    BY <1>9, <2>5, <2>6, Fewer DEF FinishedInv
  <2>8a. \A w \in User, l \in Request, k \in Nat :
            /\ Showing(w, l, k)' <=> Showing(w, l, k)
            /\ Posted(w, l, k)' <=> Posted(w, l, k)
            /\ Shown(w, l, k)' <=> Shown(w, l, k)
    BY <1>4, <2>1, <2>2, <2>3 DEF Showing, Posted, Shown
  <2>8. SingleInv' /\ CopyInv'
    BY <1>4, <2>1, <2>2, <2>3, <2>8a DEF SingleInv, CopyInv, Handed
  <2>9. KindInv'
    <3>1. \A w \in User, l \in Request, k \in Nat : OnWire(w, l, k)' =>
             k \in 1..Packets(l) /\ Receiver(l, k) = w
      BY <1>11
    <3>2. \A w \in User : \A s \in pool[w] : s.at \in {"store", "check"} =>
             Chunked(s.of) /\ s.nr \in 1..s.of.size /\ w = s.of.to[1] /\ s.pieces = {}
      BY DEF KindInv
    <3>3. c \in 1..m.size /\ v = m.to[1]
      BY <1>5, <1>12 DEF Packets, Receiver, Chunked
    <3>4. \A w \in User : \A s \in pool'[w] : s.at \in {"store", "check"} =>
             Chunked(s.of) /\ s.nr \in 1..s.of.size /\ w = s.of.to[1] /\ s.pieces = {}
      <4>1. t.nr \in 1..t.of.size /\ v = t.of.to[1] /\ Chunked(t.of) /\ t.pieces = {}
        BY <1>12, <2>2, <3>3
      <4>2. ASSUME NEW w \in User, NEW s \in pool'[w], s.at \in {"store", "check"}
            PROVE  Chunked(s.of) /\ s.nr \in 1..s.of.size /\ w = s.of.to[1] /\ s.pieces = {}
        <5>1. CASE s \in pool[w]
          BY <3>2, <4>2, <5>1
        <5>2. CASE w = v /\ s = t
          BY <4>1, <5>2
        <5> QED
          BY <2>3, <5>1, <5>2
      <4> QED
        BY <4>2
    <3>5. \A w \in User : \A s \in parts'[w] : Chunked(s.of) /\ w = s.of.to[1]
      BY <1>4 DEF KindInv
    <3> QED
      BY <3>1, <3>4, <3>5 DEF KindInv
  <2>12. PlaceInv'
    BY <1>5, <1>7, <1>10, <1>11, <2>4 DEF PlaceInv
  <2> QED
    BY <1>8, <1>9, <2>5, <2>7, <2>8, <2>9, <2>12
<1>13. CASE ~Chunked(m)
  <2>1. \/ /\ \E t : /\ pool' = [pool EXCEPT ![v] = @ \union {t}]
                     /\ t.at = "show" /\ t.of = m /\ t.nr = c
           /\ shown' = shown
        \/ /\ pool' = pool
           /\ \/ shown' = shown
              \/ \E d : d.of = m /\ d.nr = c /\ d \in GoodDone /\ shown' = [shown EXCEPT ![v] = Append(@, d)]
    <3>1. CASE m.picture
      <4> DEFINE t == Task(p, "show", Whole(p.of))
      <4>1. p.of.picture /\ ~Chunked(p.of)
        BY <1>2, <1>13, <3>1
      <4>2. pool' = [pool EXCEPT ![v] = @ \union {t}] /\ shown' = shown
        BY <1>1, <4>1 DEF Receive
      <4>3. t.at = "show" /\ t.of = m /\ t.nr = c
        BY <1>2 DEF Task
      <4> QED
        BY <4>2, <4>3
    <3>2. CASE ~m.picture
      <4>1. [of |-> m, nr |-> c, pieces |-> Whole(m)] \in GoodDone
        BY WholeType DEF GoodDone, Done
      <4> QED
        BY <1>1, <1>2, <3>2, <4>1 DEF Receive
    <3> QED
      BY <3>1, <3>2
  <2>2. \A w \in User : \A s \in pool'[w] : s \in pool[w] \/ (s.at = "show" /\ s.of = m /\ s.nr = c /\ w = v)
    BY <2>1 DEF Inv, PoolInv
  <2>3. \A w \in User : \A s \in pool[w] : s \in pool'[w]
    BY <2>1 DEF Inv, PoolInv
  <2>4. \A w \in User, l \in Request, k \in Nat : InStore(w, l, k)' <=> InStore(w, l, k)
    BY <2>2, <2>3 DEF InStore
  <2>5. \A w \in User, l \in Request, k \in Nat :
            Has(w, l, k)' <=> (Has(w, l, k) /\ ~(w = v /\ l = m /\ k = c))
    BY <1>5, <1>6, <1>10, <2>4 DEF Has
  <2>6. Has(v, m, c)
    BY <1>5 DEF Has
  <2>7. Finished(v, m, c)'
    BY <1>9, <1>13, <2>5, <2>6, WholeArrives
  <2>8. ~Assembled(v, m, c)
    BY <2>6 DEF FinishedInv, Finished
  <2>9. \A w \in User, l \in Request, k \in Nat : Posted(w, l, k)' = Posted(w, l, k)
    BY <1>4 DEF Posted
  <2>10. \A w \in User : \A i \in DOMAIN shown'[w] :
            \/ w = v /\ shown'[w][i].of = m /\ shown'[w][i].nr = c
            \/ i \in DOMAIN shown[w] /\ shown'[w][i] = shown[w][i]
    <3>1. shown[v] \in Seq(GoodDone) /\ shown \in [User -> Seq(GoodDone)]
      BY DEF Inv, DoneInv
    <3>2. CASE shown' = shown
      BY <3>2
    <3>3. ASSUME NEW d, d.of = m, d.nr = c, d \in GoodDone, shown' = [shown EXCEPT ![v] = Append(@, d)],
                 NEW w \in User, NEW i \in DOMAIN shown'[w]
          PROVE  \/ w = v /\ shown'[w][i].of = m /\ shown'[w][i].nr = c
                 \/ i \in DOMAIN shown[w] /\ shown'[w][i] = shown[w][i]
      BY <3>1, <3>3, AppendProperties, LenProperties
    <3> QED
      BY <2>1, <3>2, <3>3
  <2>11. \A w \in User, l \in Request, k \in Nat :
            /\ Handed(w, l, k)' => Handed(w, l, k) \/ (w = v /\ l = m /\ k = c)
            /\ Assembled(w, l, k)' => Assembled(w, l, k) \/ (w = v /\ l = m /\ k = c)
    BY <1>4, <2>2, <2>9, <2>10 DEF Assembled, Handed, Showing, Shown
  <2>16. CopyInv'
    BY <1>5, <1>13, <2>11 DEF CopyInv
  <2>12. SentInv' /\ FinishedInv'
    <3>1. SentInv' /\ \A w \in User, l \in Request, k \in Nat : Finished(w, l, k) => Finished(w, l, k)'
      BY <1>9, <2>5, Fewer
    <3> QED
      BY <2>7, <2>11, <3>1 DEF FinishedInv
  <2>13. KindInv'
    BY <1>4, <1>11, <2>2 DEF KindInv
  <2>14. PlaceInv'
    BY <1>7, <1>10, <1>11, <2>4 DEF PlaceInv
  <2>15. SingleInv'
    <3>1. ~Showing(v, m, c) /\ ~Posted(v, m, c) /\ ~Shown(v, m, c)
      BY <2>8 DEF Assembled, Handed
    <3>2. \A w \in User : \A t1, t2 \in pool'[w] :
             t1.at = "show" /\ t2.at = "show" /\ Same(t1, t2) => t1 = t2
      <4>1. CASE pool' = pool
        BY <4>1 DEF SingleInv
      <4>2. ASSUME NEW t, pool' = [pool EXCEPT ![v] = @ \union {t}], t.at = "show", t.of = m, t.nr = c
            PROVE  \A w \in User : \A t1, t2 \in pool'[w] :
                       t1.at = "show" /\ t2.at = "show" /\ Same(t1, t2) => t1 = t2
        <5>1. \A w \in User : pool'[w] = IF w = v THEN pool[w] \union {t} ELSE pool[w]
          BY <4>2 DEF Inv, PoolInv
        <5> QED
          BY <3>1, <4>2, <5>1 DEF SingleInv, Showing, Same
      <4> QED
        BY <2>1, <4>1, <4>2
    <3>3. \A w \in User : \A i, j \in DOMAIN shown'[w] : Same(shown'[w][i], shown'[w][j]) => i = j
      <4>1. CASE shown' = shown
        BY <4>1 DEF SingleInv
      <4>2. ASSUME NEW d, d.of = m, d.nr = c, d \in GoodDone, shown' = [shown EXCEPT ![v] = Append(@, d)],
                   NEW w \in User, NEW i \in DOMAIN shown'[w], NEW j \in DOMAIN shown'[w],
                   Same(shown'[w][i], shown'[w][j])
            PROVE  i = j
        <5>1. shown[v] \in Seq(GoodDone) /\ shown'[w] = IF w = v THEN Append(shown[v], d) ELSE shown[w]
          BY <4>2 DEF Inv, DoneInv
        <5>2. CASE w # v
          BY <4>2, <5>1, <5>2 DEF SingleInv
        <5>3. CASE w = v
          <6> DEFINE s == shown[v]
                     r == Append(s, d)
          <6>1. /\ DOMAIN s = 1..Len(s) /\ Len(s) \in Nat /\ DOMAIN r = 1..(Len(s) + 1)
                /\ r[Len(s) + 1] = d /\ \A x \in 1..Len(s) : r[x] = s[x]
            BY <5>1
          <6> HIDE DEF r, s
          <6>2. \A x \in 1..Len(s) : ~Same(s[x], d) /\ ~Same(d, s[x])
            BY <3>1, <4>2, <6>1 DEF Shown, Same, s
          <6>3. i \in 1..(Len(s) + 1) /\ j \in 1..(Len(s) + 1) /\ Same(r[i], r[j])
            BY <4>2, <5>1, <5>3, <6>1 DEF r, s
          <6>4. \A x, y \in 1..Len(s) : Same(s[x], s[y]) => x = y
            BY <6>1 DEF SingleInv, s
          <6>5. \A x \in 1..(Len(s) + 1) : x \in 1..Len(s) \/ x = Len(s) + 1
            BY <6>1
          <6> QED
            BY <4>2, <6>1, <6>2, <6>3, <6>4, <6>5
        <5> QED
          BY <5>2, <5>3
      <4> QED
        BY <2>1, <4>1, <4>2
    <3>4. \A w \in User, l \in Request, k \in Nat :
             /\ Showing(w, l, k)' => Showing(w, l, k) \/ (w = v /\ l = m /\ k = c /\ shown' = shown)
             /\ Shown(w, l, k)' => Shown(w, l, k) \/ (w = v /\ l = m /\ k = c /\ pool' = pool)
      <4>1. CASE shown' = shown
        BY <2>2, <4>1 DEF Showing, Shown
      <4>2. CASE pool' = pool
        BY <2>10, <4>2 DEF Showing, Shown
      <4> QED
        BY <2>1, <4>1, <4>2
    <3>5. pool' = pool => \A w \in User, l \in Request, k \in Nat : Showing(w, l, k)' = Showing(w, l, k)
      BY DEF Showing
    <3>6. shown' = shown => \A w \in User, l \in Request, k \in Nat : Shown(w, l, k)' = Shown(w, l, k)
      BY DEF Shown
    <3>7. \A w \in User, l \in Request, k \in Nat :
             /\ Showing(w, l, k)' => ~Posted(w, l, k)' /\ ~Shown(w, l, k)'
             /\ Posted(w, l, k)' => ~Shown(w, l, k)'
      BY <2>9, <3>1, <3>4, <3>5, <3>6 DEF SingleInv
    <3>8. \A w \in User : \A i, j \in DOMAIN posted'[w] : Same(posted'[w][i], posted'[w][j]) => i = j
      BY <1>4 DEF SingleInv
    <3> QED
      BY <3>2, <3>3, <3>7, <3>8 DEF SingleInv
  <2> QED
    BY <1>8, <1>9, <1>13, <2>5, <2>12, <2>13, <2>14, <2>15, <2>16
<1> QED
  BY <1>12, <1>13

\* A chunk goes from its task to its place.
LEMMA StoreOnce ==
    ASSUME Inv, OnceInv, NEW v \in User, NEW t \in pool[v], StoreChunk(v, t)
    PROVE  /\ OnceInv'
           /\ \A w \in User, l \in Request, k \in Nat : Has(w, l, k)' <=> Has(w, l, k)
           /\ \A w \in User : parts'[w] = IF w # v THEN parts[w] ELSE
                 parts[w] \union {[key |-> Key(t.of), index |-> t.nr, of |-> t.of]}
<1> USE DEF OnceInv
<1>1. t \in GoodTask /\ t.at = "store" /\ t.of \in Request /\ t.nr \in Nat
  BY DEF Inv, PoolInv, GoodTask, StoreChunk
<1>2. PICK m \in Request, c \in Nat : m = t.of /\ c = t.nr
  BY <1>1
<1> DEFINE s == Task(t, "check", {})
           q == [key |-> Key(m), index |-> c, of |-> m]
<1>3. s.at = "check" /\ s.of = m /\ s.nr = c /\ s.pieces = {}
      /\ q.key = Key(m) /\ q.index = c /\ q.of = m
  BY <1>2 DEF Task
<1>4. /\ pool' = [pool EXCEPT ![v] = (@ \ {t}) \union {s}]
      /\ parts' = [parts EXCEPT ![v] = {p \in @ : p.key # Key(m) \/ p.index # c} \union {q}]
      /\ files' = [files EXCEPT ![v] = @ \union {Key(m)}]
      /\ UNCHANGED serverVars /\ wire' = wire /\ posted' = posted /\ shown' = shown /\ again' = again
  BY <1>2 DEF StoreChunk, Becomes
<1> HIDE DEF s, q
<1>5. InStore(v, m, c)
  BY <1>1, <1>2 DEF InStore
<1>6. ~OnWire(v, m, c) /\ ~InParts(v, m, c)
  BY <1>5 DEF PlaceInv
<1>7. \A w \in User : pool'[w] = IF w = v THEN (pool[w] \ {t}) \union {s} ELSE pool[w]
  BY <1>4 DEF Inv, PoolInv
<1>8. \A w \in User : \A p \in parts[w] : p \in GoodPart
  BY DEF Inv, PartsInv
<1>9. \A w \in User : parts'[w] = IF w = v THEN parts[w] \union {q} ELSE parts[w]
  <2>1. \A p \in parts[v] : p.key # Key(m) \/ p.index # c
    <3> SUFFICES ASSUME NEW p \in parts[v], p.key = Key(m), p.index = c PROVE FALSE
      OBVIOUS
    <3>1. p.of \in Request /\ Key(p.of) = Key(m)
      BY <1>8 DEF GoodPart
    <3>2. p.of = m
      BY <3>1, RequestsAssumption DEF Key
    <3> QED
      BY <1>6, <3>2 DEF InParts
  <2> QED
    BY <1>4, <2>1 DEF Inv, PartsInv
<1>10. \A r \in pool[v] : r.at = "store" /\ r.of = m /\ r.nr = c => r = t
  <2> SUFFICES ASSUME NEW r \in pool[v], r.at = "store", r.of = m, r.nr = c PROVE r = t
    OBVIOUS
  <2>1. r.pieces = {} /\ t.pieces = {}
    BY <1>1 DEF KindInv
  <2>2. r \in [of : Request, nr : Nat, at : {"store", "check", "show"}, pieces : SUBSET Piece]
        /\ t \in [of : Request, nr : Nat, at : {"store", "check", "show"}, pieces : SUBSET Piece]
    BY <1>1 DEF Inv, PoolInv, GoodTask
  <2> QED
    BY <1>1, <1>2, <2>1, <2>2
<1>11. \A w \in User, l \in Request, k \in Nat :
         /\ OnWire(w, l, k)' = OnWire(w, l, k)
         /\ InStore(w, l, k)' <=> (InStore(w, l, k) /\ ~(w = v /\ l = m /\ k = c))
         /\ InParts(w, l, k)' <=> (InParts(w, l, k) \/ (w = v /\ l = m /\ k = c))
  <2>1. \A w \in User, l \in Request, k \in Nat : OnWire(w, l, k)' = OnWire(w, l, k)
    BY <1>4 DEF OnWire
  <2>2. \A w \in User, l \in Request, k \in Nat :
           InStore(w, l, k)' <=> (InStore(w, l, k) /\ ~(w = v /\ l = m /\ k = c))
    <3>1. ASSUME NEW w \in User, NEW l \in Request, NEW k \in Nat, w # v
          PROVE  InStore(w, l, k)' = InStore(w, l, k)
      BY <1>7, <3>1 DEF InStore
    <3>2. ASSUME NEW l \in Request, NEW k \in Nat
          PROVE  InStore(v, l, k)' <=> (InStore(v, l, k) /\ ~(l = m /\ k = c))
      <4>1. pool'[v] = (pool[v] \ {t}) \union {s}
        BY <1>7
      <4> QED
        BY <1>1, <1>2, <1>3, <1>10, <4>1 DEF InStore
    <3> QED
      BY <3>1, <3>2
  <2>3. \A w \in User, l \in Request, k \in Nat :
           InParts(w, l, k)' <=> (InParts(w, l, k) \/ (w = v /\ l = m /\ k = c))
    BY <1>3, <1>9 DEF InParts
  <2> QED
    BY <2>1, <2>2, <2>3
<1>12. \A w \in User, l \in Request, k \in Nat : Has(w, l, k)' <=> Has(w, l, k)
  BY <1>5, <1>11 DEF Has
<1>13. TodoInv' /\ \A w \in User, l \in Request, k \in Nat : ToCome(w, l, k)' = ToCome(w, l, k)
  BY <1>4, ServerSame
<1>14. \A w \in User : files'[w] = IF w = v THEN files[w] \union {Key(m)} ELSE files[w]
  BY <1>4 DEF MapInv
<1>15. \A w \in User, l \in Request, k \in Nat :
          /\ Showing(w, l, k)' = Showing(w, l, k) /\ Posted(w, l, k)' = Posted(w, l, k)
          /\ Shown(w, l, k)' = Shown(w, l, k)
  BY <1>1, <1>3, <1>4, <1>7 DEF Showing, Posted, Shown
<1>16. \A w \in User, l \in Request, k \in Nat : Assembled(w, l, k)' => Assembled(w, l, k)
  <2> SUFFICES ASSUME NEW w \in User, NEW l \in Request, NEW k \in Nat, Assembled(w, l, k)' PROVE Assembled(w, l, k)
    OBVIOUS
  <2>1. CASE Handed(w, l, k)' \/ Key(l) \in again'[w]
    BY <1>4, <1>15, <2>1 DEF Assembled, Handed
  <2>2. CASE Key(l) \notin files'[w] /\ \E r \in pool'[w] : r.at = "check" /\ r.of = l
    <3>1. Key(l) \notin files[w] /\ (w = v => Key(l) # Key(m))
      BY <1>14, <2>2
    <3>2. PICK r \in pool'[w] : r.at = "check" /\ r.of = l
      BY <2>2
    <3>3. r \in pool[w]
      BY <1>3, <1>7, <3>1, <3>2
    <3> QED
      BY <3>1, <3>2, <3>3 DEF Assembled
  <2> QED
    BY <2>1, <2>2 DEF Assembled
<1>17. SentInv' /\ FinishedInv'
  BY <1>12, <1>13, <1>16, Fewer DEF FinishedInv
<1>18. KindInv'
  <2>1. t.nr \in 1..t.of.size /\ v = t.of.to[1] /\ Chunked(t.of)
    BY <1>1 DEF KindInv
  <2>2. \A w \in User, l \in Request, k \in Nat : OnWire(w, l, k)' =>
           k \in 1..Packets(l) /\ Receiver(l, k) = w
    BY <1>11 DEF KindInv
  <2>3. \A w \in User : \A r \in pool[w] : r.at \in {"store", "check"} =>
           Chunked(r.of) /\ r.nr \in 1..r.of.size /\ w = r.of.to[1] /\ r.pieces = {}
    BY DEF KindInv
  <2>4. ASSUME NEW w \in User, NEW r \in pool'[w], r.at \in {"store", "check"}
        PROVE  Chunked(r.of) /\ r.nr \in 1..r.of.size /\ w = r.of.to[1] /\ r.pieces = {}
    <3>1. CASE r \in pool[w]
      BY <2>3, <2>4, <3>1
    <3>2. CASE w = v /\ r = s
      BY <1>2, <1>3, <2>1, <3>2
    <3> QED
      BY <1>7, <3>1, <3>2
  <2>5. \A w \in User : \A p \in parts'[w] : Chunked(p.of) /\ w = p.of.to[1]
    <3>1. \A w \in User : \A p \in parts[w] : Chunked(p.of) /\ w = p.of.to[1]
      BY DEF KindInv
    <3>2. Chunked(q.of) /\ v = q.of.to[1]
      BY <1>2, <1>3, <2>1
    <3>3. ASSUME NEW w \in User, NEW p \in parts'[w] PROVE Chunked(p.of) /\ w = p.of.to[1]
      <4>1. p \in parts[w] \/ (w = v /\ p = q)
        BY <1>9
      <4> QED
        BY <3>1, <3>2, <4>1
    <3> QED
      BY <3>3
  <2> QED
    BY <2>2, <2>4, <2>5 DEF KindInv
<1>19. PlaceInv'
  <2>1. \A w \in User : \A i, j \in DOMAIN wire'[w] : wire'[w][i] = wire'[w][j] => i = j
    BY <1>4 DEF PlaceInv
  <2>2. \A w \in User, l \in Request, k \in Nat :
          /\ OnWire(w, l, k)' => ~InStore(w, l, k)' /\ ~InParts(w, l, k)'
          /\ InStore(w, l, k)' => ~InParts(w, l, k)'
    BY <1>6, <1>11 DEF PlaceInv
  <2> QED
    BY <2>1, <2>2 DEF PlaceInv
<1>20. SingleInv' /\ CopyInv'
  <2>0. \A w \in User : \A r \in pool'[w] : r.at = "show" => r \in pool[w]
    BY <1>3, <1>7
  <2>1. \A w \in User : \A t1, t2 \in pool'[w] :
           t1.at = "show" /\ t2.at = "show" /\ Same(t1, t2) => t1 = t2
    BY <2>0 DEF SingleInv
  <2> QED
    BY <1>4, <1>15, <2>1 DEF SingleInv, CopyInv, Handed
<1>21. MapInv'
  <2>1. Key(m) \in Nat
    BY RequestType DEF Key
  <2> QED
    BY <1>4, <2>1 DEF MapInv
<1>22. \A w \in User : parts'[w] = IF w # v THEN parts[w] ELSE
          parts[w] \union {[key |-> Key(t.of), index |-> t.nr, of |-> t.of]}
  BY <1>2, <1>9 DEF q
<1> QED
  BY <1>12, <1>13, <1>17, <1>18, <1>19, <1>20, <1>21, <1>22

\* Appending to what has been handed on.
LEMMA AppendSingle ==
    ASSUME NEW s \in Seq(GoodDone), NEW d \in GoodDone,
           \A i, j \in DOMAIN s : Same(s[i], s[j]) => i = j,
           \A i \in DOMAIN s : ~Same(s[i], d)
    PROVE  /\ \A i, j \in DOMAIN Append(s, d) : Same(Append(s, d)[i], Append(s, d)[j]) => i = j
           /\ \A l \in Request, k \in Nat :
                 (\E i \in DOMAIN Append(s, d) : Append(s, d)[i].of = l /\ Append(s, d)[i].nr = k)
                     <=> ((\E i \in DOMAIN s : s[i].of = l /\ s[i].nr = k) \/ (l = d.of /\ k = d.nr))
<1> DEFINE r == Append(s, d)
<1>1. /\ DOMAIN s = 1..Len(s) /\ Len(s) \in Nat /\ DOMAIN r = 1..(Len(s) + 1)
      /\ r[Len(s) + 1] = d /\ \A x \in 1..Len(s) : r[x] = s[x]
  OBVIOUS
<1>2. /\ \A x \in 1..(Len(s) + 1) : x \in 1..Len(s) \/ x = Len(s) + 1
      /\ Len(s) + 1 \in 1..(Len(s) + 1)
      /\ \A x \in 1..Len(s) : x \in 1..(Len(s) + 1)
  BY <1>1
<1> HIDE DEF r
<1>3. \A x \in 1..Len(s) : ~Same(r[x], d) /\ ~Same(d, r[x])
  BY <1>1 DEF Same
<1> QED
  BY <1>1, <1>2, <1>3 DEF r

\* When as many chunks are stored as there are, none of them is anywhere else,
\* and the picture is not being shown yet.
LEMMA AssembleOnce ==
    ASSUME Inv, OnceInv, NEW v \in User, NEW t \in pool[v], Assemble(v, t)
    PROVE  /\ OnceInv' /\ Chunked(t.of)
           /\ \A k \in Nat : Finished(v, t.of, k)' /\ ~Assembled(v, t.of, k)
           /\ t.of.size \in Nat \ {0} /\ \A i \in 1..t.of.size : InParts(v, t.of, i)
           /\ \A w \in User, l \in Request, k \in Nat : ~(w = v /\ l = t.of) =>
                 (Has(w, l, k)' <=> Has(w, l, k)) /\ (InParts(w, l, k)' <=> InParts(w, l, k))
<1> USE DEF OnceInv
<1>1. t \in GoodTask /\ t.at = "check" /\ t.of \in Request
  BY DEF Inv, PoolInv, GoodTask, Assemble
<1>2. PICK m \in Request : m = t.of
  BY <1>1
<1> DEFINE S == Stored(v, Key(m))
           s == [of |-> m, nr |-> 0, at |-> "show",
                 pieces |-> {[index |-> p.index, of |-> p.of] : p \in S}]
<1>3. s.at = "show" /\ s.of = m /\ s.nr = 0
  OBVIOUS
<1>4. /\ pool' = [pool EXCEPT ![v] = (@ \ {t}) \union {s}]
      /\ parts' = [parts EXCEPT ![v] = @ \ S]
      /\ files' = [files EXCEPT ![v] = @ \ {Key(m)}]
      /\ UNCHANGED serverVars /\ wire' = wire /\ posted' = posted /\ shown' = shown /\ again' = again
      /\ Cardinality(S) = m.size
  BY <1>2 DEF Assemble, Becomes, RemoveEntry, AllThere
<1>5. S \in SUBSET GoodPart /\ \A p \in S : p.key = Key(m)
  BY DEF Inv, PartsInv, Stored
<1>6. \A p \in parts[v] : p \in S <=> p.of = m
  <2> SUFFICES ASSUME NEW p \in parts[v] PROVE p \in S <=> p.of = m
    OBVIOUS
  <2>1. p.key = Key(p.of) /\ p.of \in Request
    BY DEF Inv, PartsInv, GoodPart
  <2> QED
    BY <2>1, RequestsAssumption DEF Key, Stored
<1>7. S \subseteq parts[v]
  BY DEF Stored
<1> HIDE DEF S, s
<1>8. {[index |-> p.index, of |-> p.of] : p \in S} = Whole(m)
  BY <1>4, <1>5, Complete
<1>9. \A i \in 1..m.size : InParts(v, m, i)
  <2> SUFFICES ASSUME NEW i \in 1..m.size PROVE InParts(v, m, i)
    OBVIOUS
  <2>1. [index |-> i, of |-> m] \in Whole(m)
    BY DEF Whole
  <2>2. PICK p \in S : [index |-> i, of |-> m] = [index |-> p.index, of |-> p.of]
    BY <1>8, <2>1
  <2>3. p.index = i /\ p.of = m
    BY <2>2
  <2> QED
    BY <1>7, <2>3 DEF InParts
<1>10. Chunked(m) /\ m.size \in Nat /\ 1 \in 1..m.size
  <2>1. Chunked(m) /\ t.nr \in 1..m.size /\ m.size \in Nat
    BY <1>1, <1>2, RequestType DEF KindInv
  <2> QED
    BY <2>1
<1>11. \A k \in Nat : ~Assembled(v, m, k)
  BY <1>9, <1>10 DEF FinishedInv, Finished, Has
<1>12. \A w \in User : pool'[w] = IF w = v THEN (pool[w] \ {t}) \union {s} ELSE pool[w]
  BY <1>4 DEF Inv, PoolInv
<1>13. \A w \in User : parts'[w] = IF w = v THEN parts[w] \ S ELSE parts[w]
  BY <1>4 DEF Inv, PartsInv
<1>14. \A w \in User : files'[w] = IF w = v THEN files[w] \ {Key(m)} ELSE files[w]
  BY <1>4 DEF MapInv
<1>15. \A w \in User, l \in Request, k \in Nat : OnWire(w, l, k)' = OnWire(w, l, k)
  BY <1>4 DEF OnWire
<1>16. \A w \in User, l \in Request, k \in Nat : InStore(w, l, k)' = InStore(w, l, k)
  BY <1>1, <1>3, <1>12 DEF InStore
<1>17. \A w \in User, l \in Request, k \in Nat :
          InParts(w, l, k)' <=> (InParts(w, l, k) /\ ~(w = v /\ l = m))
  <2>1. ASSUME NEW w \in User, NEW l \in Request, NEW k \in Nat, w # v
        PROVE  InParts(w, l, k)' = InParts(w, l, k)
    BY <1>13, <2>1 DEF InParts
  <2>2. ASSUME NEW l \in Request, NEW k \in Nat
        PROVE  InParts(v, l, k)' <=> (InParts(v, l, k) /\ l # m)
    <3>1. parts'[v] = parts[v] \ S
      BY <1>13
    <3> QED
      BY <1>6, <3>1 DEF InParts
  <2> QED
    BY <2>1, <2>2
<1>18. TodoInv' /\ \A w \in User, l \in Request, k \in Nat : ToCome(w, l, k)' = ToCome(w, l, k)
  BY <1>4, ServerSame
<1>19. \A k \in Nat : ~ToCome(v, m, k)
  <2> SUFFICES ASSUME NEW k \in Nat, ToCome(v, m, k) PROVE FALSE
    OBVIOUS
  <2>1. PICK u \in User : \E i \in DOMAIN todo[u] :
            /\ todo[u][i] = m
            /\ i = 1 => k \in next[u]..Packets(m) /\ Receiver(m, k) = v
    BY DEF ToCome
  <2>2. PICK i \in DOMAIN todo[u] :
            /\ todo[u][i] = m
            /\ i = 1 => k \in next[u]..Packets(m) /\ Receiver(m, k) = v
    BY <2>1
  <2>3. CASE i # 1
    <3>1. ToCome(v, m, 1)
      BY <2>2, <2>3 DEF ToCome
    <3> QED
      BY <1>9, <1>10, <3>1 DEF SentInv, Has
  <2>4. CASE i = 1
    <3>1. k \in 1..m.size
      BY <1>10, <2>2, <2>4 DEF Packets, Chunked, Inv, ServerInv
    <3> QED
      BY <1>9, <3>1 DEF SentInv, Has
  <2> QED
    BY <2>3, <2>4
<1>20. \A k \in Nat : Finished(v, m, k)'
  <2> SUFFICES ASSUME NEW k \in Nat PROVE ~Has(v, m, k)'
    BY <1>18, <1>19 DEF Finished
  <2>1. OnWire(v, m, k) => k \in 1..m.size
    BY <1>10 DEF KindInv, Packets, Chunked
  <2>2. InStore(v, m, k) => k \in 1..m.size
    BY DEF InStore, KindInv
  <2>3. ~OnWire(v, m, k) /\ ~InStore(v, m, k)
    BY <1>9, <2>1, <2>2 DEF PlaceInv
  <2> QED
    BY <1>15, <1>16, <1>17, <2>3 DEF Has
<1>21. \A w \in User, l \in Request, k \in Nat :
          /\ Showing(w, l, k)' <=> (Showing(w, l, k) \/ (w = v /\ l = m /\ k = 0))
          /\ Posted(w, l, k)' = Posted(w, l, k)
          /\ Shown(w, l, k)' = Shown(w, l, k)
  <2>1. \A w \in User, l \in Request, k \in Nat : Posted(w, l, k)' = Posted(w, l, k) /\ Shown(w, l, k)' = Shown(w, l, k)
    BY <1>4 DEF Posted, Shown
  <2>2. ASSUME NEW w \in User, NEW l \in Request, NEW k \in Nat
        PROVE  Showing(w, l, k)' <=> (Showing(w, l, k) \/ (w = v /\ l = m /\ k = 0))
    BY <1>1, <1>3, <1>12 DEF Showing
  <2> QED
    BY <2>1, <2>2
<1>22. \A w \in User, l \in Request, k \in Nat : Assembled(w, l, k)' => Assembled(w, l, k) \/ (w = v /\ l = m)
  <2> SUFFICES ASSUME NEW w \in User, NEW l \in Request, NEW k \in Nat, Assembled(w, l, k)', ~(w = v /\ l = m)
               PROVE  Assembled(w, l, k)
    OBVIOUS
  <2>1. CASE Handed(w, l, k)' \/ Key(l) \in again'[w]
    BY <1>4, <1>21, <2>1 DEF Assembled, Handed
  <2>2. CASE Key(l) \notin files'[w] /\ \E r \in pool'[w] : r.at = "check" /\ r.of = l
    <3>1. Key(l) \notin files[w]
      BY <1>14, <2>2, RequestsAssumption DEF Key
    <3>2. \E r \in pool[w] : r.at = "check" /\ r.of = l
      BY <1>3, <1>12, <2>2
    <3> QED
      BY <3>1, <3>2 DEF Assembled
  <2> QED
    BY <2>1, <2>2 DEF Assembled
<1>23. SentInv' /\ FinishedInv'
  <2>1. SentInv' /\ \A w \in User, l \in Request, k \in Nat : Finished(w, l, k) => Finished(w, l, k)'
    BY <1>15, <1>16, <1>17, <1>18, Fewer DEF Has
  <2> QED
    BY <1>20, <1>22, <2>1 DEF FinishedInv
<1>24. KindInv'
  <2>1. \A w \in User : \A r \in pool'[w] : r.at \in {"store", "check"} => r \in pool[w]
    BY <1>3, <1>12
  <2>2. \A w \in User : \A p \in parts'[w] : p \in parts[w]
    BY <1>13
  <2> QED
    BY <1>15, <2>1, <2>2 DEF KindInv
<1>25. PlaceInv'
  BY <1>4, <1>15, <1>16, <1>17 DEF PlaceInv
<1>29. CopyInv'
  BY <1>10, <1>21 DEF CopyInv, Handed
<1>26. SingleInv'
  <2>1. ASSUME NEW w \in User, NEW t1 \in pool'[w], NEW t2 \in pool'[w],
               t1.at = "show", t2.at = "show", Same(t1, t2)
        PROVE  t1 = t2
    <3>1. \A r \in pool[v] : ~(r.at = "show" /\ r.of = m /\ r.nr = 0)
      BY <1>11 DEF Assembled, Handed, Showing
    <3>2. \A x \in User : \A r1, r2 \in pool[x] :
             r1.at = "show" /\ r2.at = "show" /\ Same(r1, r2) => r1 = r2
      BY DEF SingleInv
    <3>3. \A r \in pool'[w] : r \in pool[w] \/ (w = v /\ r.of = m /\ r.nr = 0 /\ r \notin pool[w])
      BY <1>3, <1>12
    <3>4. \A r1, r2 \in pool'[w] : r1 \notin pool[w] /\ r2 \notin pool[w] => r1 = r2
      BY <1>12
    <3> QED
      BY <2>1, <3>1, <3>2, <3>3, <3>4 DEF Same
  <2>2. \A w \in User, l \in Request, k \in Nat :
           /\ Showing(w, l, k)' => ~Posted(w, l, k)' /\ ~Shown(w, l, k)'
           /\ Posted(w, l, k)' => ~Shown(w, l, k)'
    BY <1>11, <1>21 DEF SingleInv, Assembled, Handed
  <2>3. \A w \in User :
           /\ \A i, j \in DOMAIN posted'[w] : Same(posted'[w][i], posted'[w][j]) => i = j
           /\ \A i, j \in DOMAIN shown'[w] : Same(shown'[w][i], shown'[w][j]) => i = j
    BY <1>4 DEF SingleInv
  <2> QED
    BY <2>1, <2>2, <2>3 DEF SingleInv
<1>27. MapInv'
  BY <1>4 DEF MapInv
<1>28. \A w \in User, l \in Request, k \in Nat : ~(w = v /\ l = m) => (Has(w, l, k)' <=> Has(w, l, k))
  BY <1>15, <1>16, <1>17 DEF Has
<1> QED
  BY <1>2, <1>9, <1>10, <1>11, <1>17, <1>18, <1>20, <1>23, <1>24, <1>25, <1>26, <1>27, <1>28, <1>29

\* A task that is not storing a chunk ends: no packet is moved.
LEMMA TaskEnds ==
    ASSUME Inv, OnceInv, NEW v \in User, NEW t \in pool[v], t.at # "store", Ends(v, t),
           UNCHANGED <<serverVars, wire, parts, shown>>
    PROVE  /\ TodoInv' /\ KindInv' /\ PlaceInv' /\ SentInv'
           /\ \A w \in User, l \in Request, k \in Nat : Finished(w, l, k) => Finished(w, l, k)'
           /\ \A w \in User : \A r \in pool'[w] : r \in pool[w] /\ ~(w = v /\ r = t)
           /\ \A w \in User, l \in Request, k \in Nat : Has(w, l, k)' = Has(w, l, k)
<1> USE DEF OnceInv
<1>1. \A w \in User : pool'[w] = IF w = v THEN pool[w] \ {t} ELSE pool[w]
  BY DEF Inv, PoolInv, Ends
<1>2. \A w \in User : \A r \in pool'[w] : r \in pool[w] /\ ~(w = v /\ r = t)
  BY <1>1
<1>3. \A w \in User, l \in Request, k \in Nat :
         /\ OnWire(w, l, k)' = OnWire(w, l, k)
         /\ InParts(w, l, k)' = InParts(w, l, k)
  BY DEF OnWire, InParts
<1>4. \A w \in User, l \in Request, k \in Nat : InStore(w, l, k)' = InStore(w, l, k)
  BY <1>1 DEF InStore
<1>5. \A w \in User, l \in Request, k \in Nat : Has(w, l, k)' = Has(w, l, k)
  BY <1>3, <1>4 DEF Has
<1>6. TodoInv' /\ \A w \in User, l \in Request, k \in Nat : ToCome(w, l, k)' = ToCome(w, l, k)
  BY ServerSame
<1>7. SentInv' /\ \A w \in User, l \in Request, k \in Nat : Finished(w, l, k) => Finished(w, l, k)'
  BY <1>5, <1>6, Fewer
<1>8. KindInv'
  BY <1>2, <1>3 DEF KindInv
<1>9. PlaceInv'
  BY <1>3, <1>4 DEF PlaceInv
<1> QED
  BY <1>2, <1>5, <1>6, <1>7, <1>8, <1>9

\* A task that finds no entry makes one, for a picture that has been put
\* together.
LEMMA NotYetOnce ==
    ASSUME Inv, OnceInv, NEW v \in User, NEW t \in pool[v], NotYet(v, t)
    PROVE  OnceInv'
<1> USE DEF OnceInv
<1>1. t.of \in Request /\ t.at = "check" /\ Ends(v, t) /\ posted' = posted /\ shown' = shown
      /\ UNCHANGED <<serverVars, wire, parts, shown>>
  BY DEF Inv, PoolInv, GoodTask, NotYet
<1>2. PICK m \in Request : m = t.of
  BY <1>1
<1>3. files' = [files EXCEPT ![v] = @ \union {Key(m)}]
      /\ again' = IF Key(m) \in files[v] THEN again ELSE [again EXCEPT ![v] = @ \union {Key(m)}]
  BY <1>2 DEF NotYet
<1>4. /\ TodoInv' /\ KindInv' /\ PlaceInv' /\ SentInv'
      /\ \A w \in User, l \in Request, k \in Nat : Finished(w, l, k) => Finished(w, l, k)'
      /\ \A w \in User : \A r \in pool'[w] : r \in pool[w] /\ ~(w = v /\ r = t)
  BY <1>1, TaskEnds
<1>5. \A w \in User, l \in Request, k \in Nat :
          /\ Posted(w, l, k)' = Posted(w, l, k) /\ Shown(w, l, k)' = Shown(w, l, k)
          /\ Showing(w, l, k)' => Showing(w, l, k)
  BY <1>1, <1>4 DEF Posted, Shown, Showing
<1>6. \A w \in User, l \in Request, k \in Nat : Assembled(w, l, k)' => Assembled(w, l, k)
  <2> SUFFICES ASSUME NEW w \in User, NEW l \in Request, NEW k \in Nat, Assembled(w, l, k)' PROVE Assembled(w, l, k)
    OBVIOUS
  <2>1. CASE Handed(w, l, k)'
    BY <1>5, <2>1 DEF Assembled, Handed
  <2>2. CASE Key(l) \in again'[w]
    <3>1. CASE Key(l) \in again[w]
      BY <3>1 DEF Assembled
    <3>2. CASE Key(l) \notin again[w]
      <4>1. w = v /\ Key(l) = Key(m) /\ Key(m) \notin files[v]
        BY <1>3, <2>2, <3>2 DEF MapInv
      <4>2. l = m
        BY <4>1, RequestsAssumption DEF Key
      <4> QED
        BY <1>1, <1>2, <4>1, <4>2 DEF Assembled
    <3> QED
      BY <3>1, <3>2
  <2>3. CASE Key(l) \notin files'[w] /\ \E r \in pool'[w] : r.at = "check" /\ r.of = l
    <3>1. Key(l) \notin files[w]
      BY <1>3, <2>3 DEF MapInv
    <3> QED
      BY <1>4, <2>3, <3>1 DEF Assembled
  <2> QED
    BY <2>1, <2>2, <2>3 DEF Assembled
<1>7. FinishedInv'
  BY <1>4, <1>6 DEF FinishedInv
<1>8. SingleInv' /\ CopyInv'
  BY <1>1, <1>4, <1>5 DEF SingleInv, CopyInv, Handed
<1>9. MapInv'
  <2>1. Key(m) \in Nat
    BY RequestType DEF Key
  <2> QED
    BY <1>3, <2>1 DEF MapInv
<1> QED
  BY <1>4, <1>7, <1>8, <1>9

\* The task of a picture hands it on, once.
LEMMA ProcessOnce ==
    ASSUME Inv, OnceInv, NEW v \in User, NEW t \in pool[v], Process(v, t)
    PROVE  OnceInv'
<1> USE DEF OnceInv
<1>1. t.at = "show" /\ Ends(v, t) /\ UNCHANGED <<serverVars, wire, parts, shown>>
      /\ files' = files /\ again' = again /\ shown' = shown
  BY DEF Process
<1>2. PICK m \in Request, c \in Nat : m = t.of /\ c = t.nr
  BY DEF Inv, PoolInv, GoodTask
<1>3. /\ TodoInv' /\ KindInv' /\ PlaceInv' /\ SentInv'
      /\ \A w \in User, l \in Request, k \in Nat : Finished(w, l, k) => Finished(w, l, k)'
      /\ \A w \in User : \A r \in pool'[w] : r \in pool[w] /\ ~(w = v /\ r = t)
  BY <1>1, TaskEnds
<1>4. Showing(v, m, c) /\ ~Posted(v, m, c) /\ ~Shown(v, m, c)
  BY <1>1, <1>2 DEF Showing, SingleInv
<1>5. posted[v] \in Seq(GoodDone) /\ posted \in [User -> Seq(GoodDone)]
  BY DEF Inv, DoneInv
<1>6. posted' = posted \/ posted' = [posted EXCEPT ![v] = Append(@, [of |-> m, nr |-> c, pieces |-> t.pieces])]
  BY <1>2 DEF Process
<1>7. PICK d \in GoodDone : d = [of |-> m, nr |-> c, pieces |-> t.pieces]
  <2>1. m \in Request /\ t.pieces = Whole(m)
    BY <1>1, <1>2 DEF Inv, PoolInv, GoodTask
  <2> QED
    BY <2>1, WholeType DEF GoodDone, Done
<1>8. d.of = m /\ d.nr = c /\ (posted' = posted \/ posted' = [posted EXCEPT ![v] = Append(@, d)])
  BY <1>6, <1>7
<1>9. \A i, j \in DOMAIN posted[v] : Same(posted[v][i], posted[v][j]) => i = j
  BY DEF SingleInv
<1>10. \A i \in DOMAIN posted[v] : ~Same(posted[v][i], d)
  BY <1>4, <1>8 DEF Posted, Same
<1>11. \A w \in User :
          /\ \A i, j \in DOMAIN posted'[w] : Same(posted'[w][i], posted'[w][j]) => i = j
          /\ \A l \in Request, k \in Nat :
                Posted(w, l, k)' => Posted(w, l, k) \/ (w = v /\ l = m /\ k = c)
  <2>1. CASE posted' = posted
    BY <2>1 DEF SingleInv, Posted
  <2>2. CASE posted' = [posted EXCEPT ![v] = Append(@, d)]
    <3>1. posted'[v] = Append(posted[v], d) /\ \A w \in User : w # v => posted'[w] = posted[w]
      BY <1>5, <2>2
    <3>2. /\ \A i, j \in DOMAIN posted'[v] : Same(posted'[v][i], posted'[v][j]) => i = j
          /\ \A l \in Request, k \in Nat : Posted(v, l, k)' => Posted(v, l, k) \/ (l = m /\ k = c)
      BY <1>5, <1>8, <1>9, <1>10, <3>1, AppendSingle DEF Posted
    <3>3. ASSUME NEW w \in User, w # v
          PROVE  /\ \A i, j \in DOMAIN posted'[w] : Same(posted'[w][i], posted'[w][j]) => i = j
                 /\ \A l \in Request, k \in Nat : Posted(w, l, k)' => Posted(w, l, k)
      BY <3>1, <3>3 DEF SingleInv, Posted
    <3> QED
      BY <3>2, <3>3
  <2> QED
    BY <1>8, <2>1, <2>2
<1>12. \A w \in User, l \in Request, k \in Nat :
          /\ Shown(w, l, k)' = Shown(w, l, k)
          /\ Showing(w, l, k)' => Showing(w, l, k) /\ ~(w = v /\ l = m /\ k = c)
  <2>1. \A r \in pool[v] : r.at = "show" /\ r.of = m /\ r.nr = c => r = t
    BY <1>1, <1>2 DEF SingleInv, Same
  <2>2. \A w \in User, l \in Request, k \in Nat : Shown(w, l, k)' = Shown(w, l, k)
    BY <1>1 DEF Shown
  <2>3. ASSUME NEW w \in User, NEW l \in Request, NEW k \in Nat, Showing(w, l, k)'
        PROVE  Showing(w, l, k) /\ ~(w = v /\ l = m /\ k = c)
    <3>1. PICK r \in pool'[w] : r.at = "show" /\ r.of = l /\ r.nr = k
      BY <2>3 DEF Showing
    <3> QED
      BY <1>3, <2>1, <3>1 DEF Showing
  <2> QED
    BY <2>2, <2>3
<1>17. \A w \in User, l \in Request, k \in Nat : Handed(w, l, k)' => Handed(w, l, k)
  BY <1>4, <1>11, <1>12 DEF Handed
<1>13. \A w \in User, l \in Request, k \in Nat : Assembled(w, l, k)' => Assembled(w, l, k)
  <2> SUFFICES ASSUME NEW w \in User, NEW l \in Request, NEW k \in Nat, Assembled(w, l, k)' PROVE Assembled(w, l, k)
    OBVIOUS
  <2>1. CASE Handed(w, l, k)'
    BY <1>17, <2>1 DEF Assembled
  <2>2. CASE Key(l) \in again'[w] \/ (Key(l) \notin files'[w] /\ \E r \in pool'[w] : r.at = "check" /\ r.of = l)
    BY <1>1, <1>3, <2>2 DEF Assembled
  <2> QED
    BY <2>1, <2>2 DEF Assembled
<1>14. FinishedInv'
  BY <1>3, <1>13 DEF FinishedInv
<1>15. SingleInv'
  <2>1. \A w \in User : \A t1, t2 \in pool'[w] :
           t1.at = "show" /\ t2.at = "show" /\ Same(t1, t2) => t1 = t2
    BY <1>3 DEF SingleInv
  <2>2. \A w \in User, l \in Request, k \in Nat :
           /\ Showing(w, l, k)' => ~Posted(w, l, k)' /\ ~Shown(w, l, k)'
           /\ Posted(w, l, k)' => ~Shown(w, l, k)'
    BY <1>4, <1>11, <1>12 DEF SingleInv
  <2>3. \A w \in User : \A i, j \in DOMAIN shown'[w] : Same(shown'[w][i], shown'[w][j]) => i = j
    BY <1>1 DEF SingleInv
  <2> QED
    BY <1>11, <2>1, <2>2, <2>3 DEF SingleInv
<1>16. MapInv' /\ CopyInv'
  BY <1>1, <1>17 DEF MapInv, CopyInv
<1> QED
  BY <1>3, <1>14, <1>15, <1>16

\* Taking the first of what has been posted.
LEMMA TailSingle ==
    ASSUME NEW s \in Seq(GoodDone), s # <<>>,
           \A i, j \in DOMAIN s : Same(s[i], s[j]) => i = j
    PROVE  /\ \A i, j \in DOMAIN Tail(s) : Same(Tail(s)[i], Tail(s)[j]) => i = j
           /\ \A i \in DOMAIN Tail(s) : /\ \E j \in DOMAIN s : s[j] = Tail(s)[i]
                                        /\ ~Same(Tail(s)[i], Head(s))
<1> DEFINE r == Tail(s)
<1>1. /\ DOMAIN s = 1..Len(s) /\ Len(s) \in Nat \ {0} /\ DOMAIN r = 1..(Len(s) - 1)
      /\ Head(s) = s[1] /\ \A i \in 1..(Len(s) - 1) : r[i] = s[i + 1]
  OBVIOUS
<1>2. 1 \in 1..Len(s) /\ \A i \in 1..(Len(s) - 1) : i + 1 \in 1..Len(s) /\ i + 1 # 1
  BY <1>1
<1> HIDE DEF r
<1>3. ASSUME NEW i \in DOMAIN r, NEW j \in DOMAIN r, Same(r[i], r[j]) PROVE i = j
  <2>0. i + 1 \in DOMAIN s /\ j + 1 \in DOMAIN s /\ r[i] = s[i + 1] /\ r[j] = s[j + 1]
    BY <1>1, <1>2
  <2>1. i + 1 = j + 1
    BY <1>3, <2>0
  <2> QED
    BY <1>1, <2>1
<1>4. \A i \in DOMAIN r : (\E j \in DOMAIN s : s[j] = r[i]) /\ ~Same(r[i], Head(s))
  BY <1>1, <1>2
<1> QED
  BY <1>3, <1>4 DEF r

\* What is posted is shown, once.
LEMMA ImageOnce ==
    ASSUME Inv, OnceInv, NEW v \in User, ImageProcessed(v)
    PROVE  OnceInv'
<1> USE DEF OnceInv
<1>1. /\ posted[v] # <<>>
      /\ shown' = [shown EXCEPT ![v] = Append(@, Head(posted[v]))]
      /\ posted' = [posted EXCEPT ![v] = Tail(@)]
      /\ UNCHANGED serverVars /\ wire' = wire /\ pool' = pool /\ files' = files /\ parts' = parts
      /\ again' = again
  BY DEF ImageProcessed
<1>2. posted[v] \in Seq(GoodDone) /\ shown[v] \in Seq(GoodDone)
      /\ posted \in [User -> Seq(GoodDone)] /\ shown \in [User -> Seq(GoodDone)]
  BY DEF Inv, DoneInv
<1>3. PICK d \in GoodDone : d = Head(posted[v])
  BY <1>1, <1>2, HeadTailProperties
<1>4. PICK m \in Request, c \in Nat : m = d.of /\ c = d.nr
  BY DEF GoodDone, Done
<1>5. 1 \in DOMAIN posted[v] /\ posted[v][1] = d
  BY <1>1, <1>2, <1>3
<1>6. Posted(v, m, c) /\ ~Shown(v, m, c) /\ ~Showing(v, m, c)
  BY <1>4, <1>5 DEF Posted, SingleInv
<1>7. shown'[v] = Append(shown[v], d) /\ posted'[v] = Tail(posted[v])
      /\ \A w \in User : w # v => shown'[w] = shown[w] /\ posted'[w] = posted[w]
  BY <1>1, <1>2, <1>3
<1>8. /\ \A i, j \in DOMAIN posted[v] : Same(posted[v][i], posted[v][j]) => i = j
      /\ \A i, j \in DOMAIN shown[v] : Same(shown[v][i], shown[v][j]) => i = j
      /\ \A i \in DOMAIN shown[v] : ~Same(shown[v][i], d)
  BY <1>4, <1>6 DEF SingleInv, Shown, Same
<1>9. /\ \A i, j \in DOMAIN shown'[v] : Same(shown'[v][i], shown'[v][j]) => i = j
      /\ \A l \in Request, k \in Nat : Shown(v, l, k)' => Shown(v, l, k) \/ (l = m /\ k = c)
  <2>1. PICK s \in Seq(GoodDone) : s = shown[v]
    BY <1>2
  <2>2. PICK r : r = Append(s, d)
    OBVIOUS
  <2>3. /\ \A i, j \in DOMAIN r : Same(r[i], r[j]) => i = j
        /\ \A l \in Request, k \in Nat : (\E i \in DOMAIN r : r[i].of = l /\ r[i].nr = k)
              <=> ((\E i \in DOMAIN s : s[i].of = l /\ s[i].nr = k) \/ (l = d.of /\ k = d.nr))
    <3>1. /\ \A i, j \in DOMAIN s : Same(s[i], s[j]) => i = j
          /\ \A i \in DOMAIN s : ~Same(s[i], d)
      BY <1>8, <2>1
    <3> QED
      BY <2>2, <3>1, AppendSingle
  <2>4. shown'[v] = r
    BY <1>7, <2>1, <2>2
  <2> QED
    BY <1>4, <2>1, <2>3, <2>4 DEF Shown
<1>10. /\ \A i, j \in DOMAIN posted'[v] : Same(posted'[v][i], posted'[v][j]) => i = j
       /\ \A l \in Request, k \in Nat : Posted(v, l, k)' => Posted(v, l, k) /\ ~(l = m /\ k = c)
  <2>1. PICK s \in Seq(GoodDone) : s = posted[v] /\ s # <<>> /\ Head(s) = d
    BY <1>1, <1>2, <1>3
  <2>2. /\ \A i, j \in DOMAIN Tail(s) : Same(Tail(s)[i], Tail(s)[j]) => i = j
        /\ \A i \in DOMAIN Tail(s) : /\ \E j \in DOMAIN s : s[j] = Tail(s)[i]
                                     /\ ~Same(Tail(s)[i], Head(s))
    <3>1. \A i, j \in DOMAIN s : Same(s[i], s[j]) => i = j
      BY <1>8, <2>1
    <3> QED
      BY <2>1, <3>1, TailSingle
  <2>3. PICK r : r = Tail(s)
    OBVIOUS
  <2>4. posted'[v] = r
    BY <1>7, <2>1, <2>3
  <2>5. /\ \A i, j \in DOMAIN r : Same(r[i], r[j]) => i = j
        /\ \A i \in DOMAIN r : (\E j \in DOMAIN s : s[j] = r[i])
                               /\ ~(r[i].of = m /\ r[i].nr = c)
    <3>1. Head(s).of = m /\ Head(s).nr = c
      BY <1>4, <2>1
    <3> QED
      BY <2>2, <2>3, <3>1 DEF Same
  <2> QED
    BY <2>1, <2>4, <2>5 DEF Posted
<1>11. ASSUME NEW w \in User, w # v
       PROVE  /\ \A i, j \in DOMAIN posted'[w] : Same(posted'[w][i], posted'[w][j]) => i = j
              /\ \A i, j \in DOMAIN shown'[w] : Same(shown'[w][i], shown'[w][j]) => i = j
              /\ \A l \in Request, k \in Nat :
                    Posted(w, l, k)' = Posted(w, l, k) /\ Shown(w, l, k)' = Shown(w, l, k)
  BY <1>7, <1>11 DEF SingleInv, Posted, Shown
<1>12. \A w \in User, l \in Request, k \in Nat :
          /\ Showing(w, l, k)' = Showing(w, l, k)
          /\ Posted(w, l, k)' => Posted(w, l, k) /\ ~(w = v /\ l = m /\ k = c)
          /\ Shown(w, l, k)' => Shown(w, l, k) \/ (w = v /\ l = m /\ k = c)
  <2>1. \A w \in User, l \in Request, k \in Nat : Showing(w, l, k)' = Showing(w, l, k)
    BY <1>1 DEF Showing
  <2> QED
    BY <1>9, <1>10, <1>11, <2>1
<1>13. \A w \in User, l \in Request, k \in Nat :
           (Handed(w, l, k)' => Handed(w, l, k)) /\ (Assembled(w, l, k)' => Assembled(w, l, k))
  BY <1>1, <1>6, <1>12 DEF Assembled, Handed
<1>14. \A w \in User, l \in Request, k \in Nat : Has(w, l, k)' = Has(w, l, k)
  BY <1>1 DEF Has, OnWire, InStore, InParts
<1>15. TodoInv' /\ \A w \in User, l \in Request, k \in Nat : ToCome(w, l, k)' = ToCome(w, l, k)
  BY <1>1, ServerSame
<1>16. SentInv' /\ FinishedInv'
  <2>1. SentInv' /\ \A w \in User, l \in Request, k \in Nat : Finished(w, l, k) => Finished(w, l, k)'
    BY <1>14, <1>15, Fewer
  <2> QED
    BY <1>13, <2>1 DEF FinishedInv
<1>17. KindInv' /\ PlaceInv' /\ MapInv' /\ CopyInv'
  <2>1. KindInv'
    BY <1>1 DEF KindInv, OnWire
  <2>2. PlaceInv'
    BY <1>1 DEF PlaceInv, OnWire, InStore, InParts
  <2> QED
    BY <1>1, <1>13, <2>1, <2>2 DEF MapInv, CopyInv
<1>18. SingleInv'
  <2>1. \A w \in User, l \in Request, k \in Nat :
           /\ Showing(w, l, k)' => ~Posted(w, l, k)' /\ ~Shown(w, l, k)'
           /\ Posted(w, l, k)' => ~Shown(w, l, k)'
    BY <1>6, <1>12 DEF SingleInv
  <2>2. \A w \in User : \A t1, t2 \in pool'[w] :
           t1.at = "show" /\ t2.at = "show" /\ Same(t1, t2) => t1 = t2
    BY <1>1 DEF SingleInv
  <2> QED
    BY <1>9, <1>10, <1>11, <2>1, <2>2 DEF SingleInv
<1> QED
  BY <1>15, <1>16, <1>17, <1>18

\* A user who leaves loses what was on his wire.
LEMMA LeavesOnce ==
    ASSUME Inv, OnceInv, NEW u \in User, Leaves(u)
    PROVE  OnceInv'
<1> USE DEF OnceInv
<1>1. /\ wire' = [wire EXCEPT ![u] = <<>>] /\ UNCHANGED <<serverVars, clientVars>>
      /\ \A w \in User : wire'[w] = IF w = u THEN <<>> ELSE wire[w]
  BY DEF Leaves, Inv, WireInv
<1>2. pool' = pool /\ files' = files /\ parts' = parts /\ posted' = posted /\ shown' = shown
      /\ again' = again
  BY <1>1 DEF clientVars
<1>3. \A w \in User, l \in Request, k \in Nat :
         /\ OnWire(w, l, k)' => OnWire(w, l, k)
         /\ InStore(w, l, k)' = InStore(w, l, k)
         /\ InParts(w, l, k)' = InParts(w, l, k)
  BY <1>1, <1>2 DEF OnWire, InStore, InParts
<1>4. TodoInv' /\ \A w \in User, l \in Request, k \in Nat : ToCome(w, l, k)' = ToCome(w, l, k)
  BY <1>1, ServerSame
<1>5. SentInv' /\ \A w \in User, l \in Request, k \in Nat : Finished(w, l, k) => Finished(w, l, k)'
  BY <1>3, <1>4, Fewer DEF Has
<1>6. \A w \in User, l \in Request, k \in Nat : Assembled(w, l, k)' = Assembled(w, l, k)
  BY <1>2 DEF Assembled, Handed, Showing, Posted, Shown
<1>7. FinishedInv'
  BY <1>5, <1>6 DEF FinishedInv
<1>8. KindInv'
  BY <1>2, <1>3 DEF KindInv
<1>9. PlaceInv'
  <2>1. \A w \in User : \A i, j \in DOMAIN wire'[w] : wire'[w][i] = wire'[w][j] => i = j
    BY <1>1 DEF PlaceInv
  <2> QED
    BY <1>3, <2>1 DEF PlaceInv
<1>10. SingleInv' /\ CopyInv'
  BY <1>2 DEF SingleInv, CopyInv, Handed, Showing, Posted, Shown
<1> QED
  BY <1>2, <1>4, <1>5, <1>7, <1>8, <1>9, <1>10 DEF MapInv

\* One step per action.
LEMMA NextOnce == Inv /\ OnceInv /\ [Next]_vars => OnceInv'
<1> SUFFICES ASSUME Inv, OnceInv, [Next]_vars PROVE OnceInv'
  OBVIOUS
<1>1. CASE UNCHANGED vars
  <2>1. UNCHANGED serverVars /\ UNCHANGED <<wire, clientVars>>
    BY <1>1 DEF vars
  <2>2. SentInv' /\ \A w \in User, l \in Request, k \in Nat : Finished(w, l, k) => Finished(w, l, k)'
    BY <2>1, ServerSame, ClientsSame, Fewer DEF OnceInv
  <2> QED
    BY <2>1, <2>2, ServerSame, ClientsSame DEF OnceInv, FinishedInv
<1>2. ASSUME NEW u \in User, MainThread(u) PROVE OnceInv'
  BY <1>2, ReceiveOnce, ImageOnce DEF MainThread
<1>3. ASSUME NEW u \in User, PoolStep(u) PROVE OnceInv'
  BY <1>3, StoreOnce, AssembleOnce, NotYetOnce, ProcessOnce DEF PoolStep
<1> QED
  BY <1>1, <1>2, <1>3, ServerOnce, LeavesOnce DEF Next

\* What is shown of m bears the numbers of packets to u, and no number twice.
LEMMA ShownCopies ==
    ASSUME Inv, OnceInv, NEW u \in User, NEW m \in Request
    PROVE  Cardinality({i \in DOMAIN shown[u] : shown[u][i].of = m}) <= Copies(u, m)
<1> DEFINE s == shown[u]
           I == {i \in DOMAIN s : s[i].of = m}
           K == IF Chunked(m) THEN {0} ELSE {k \in 1..Packets(m) : Receiver(m, k) = u}
           f == [i \in I |-> s[i].nr]
<1>1. s \in Seq(GoodDone)
  BY DEF Inv, DoneInv
<1>2. DOMAIN s = 1..Len(s) /\ Len(s) \in Nat /\ \A i \in DOMAIN s : s[i] \in GoodDone
  BY <1>1, ElementOfSeq, LenProperties
<1>3. IsFiniteSet(I)
  BY <1>2, UpTo, FS_Subset
<1>4. f \in Injection(I, K)
  <2>1. ASSUME NEW i \in I PROVE s[i].nr \in K
    <3>1. s[i].nr \in Nat /\ s[i].of = m
      BY <1>2 DEF GoodDone, Done
    <3>2. Handed(u, m, s[i].nr)
      BY <3>1 DEF Handed, Shown
    <3> QED
      BY <3>1, <3>2 DEF OnceInv, CopyInv
  <2>2. \A i, j \in I : s[i].nr = s[j].nr => i = j
    BY DEF OnceInv, SingleInv, Same
  <2> HIDE DEF K, I
  <2>3. f \in [I -> K] /\ \A i \in I : f[i] = s[i].nr
    BY <2>1
  <2> HIDE DEF f
  <2> QED
    BY <2>2, <2>3 DEF Injection, IsInjective
<1>5. IsFiniteSet(K) /\ Cardinality(K) <= Copies(u, m)
  <2>1. m.to \in Seq(User) /\ Packets(m) \in Nat
    BY RequestType, PacketsType
  <2>2. CASE m.group
    <3>1. K = {n \in DOMAIN m.to : m.to[n] = u}
      BY <2>1, <2>2, LenProperties DEF Chunked, Packets, Receiver
    <3>2. K \subseteq 1..Packets(m)
      BY <3>1, <2>1, <2>2, LenProperties DEF Packets
    <3> HIDE DEF K
    <3>3. IsFiniteSet(K) /\ Cardinality(K) \in Nat
      BY <2>1, <3>2, UpTo, FS_Subset, FS_CardinalityType
    <3> QED
      BY <2>2, <3>1, <3>3 DEF Copies
  <2>3. CASE ~m.group
    <3>1. PICK n \in Nat : K \subseteq {n}
      <4>1. K \subseteq {0} \/ K \subseteq {1}
        BY <2>3 DEF Chunked, Packets
      <4> QED
        BY <4>1
    <3>2. Copies(u, m) = 1
      BY <2>3 DEF Copies
    <3> HIDE DEF K
    <3>3. IsFiniteSet({n}) /\ Cardinality({n}) = 1
      BY FS_Singleton
    <3>4. IsFiniteSet(K) /\ Cardinality(K) <= 1
      BY <3>1, <3>3, FS_Subset
    <3> QED
      BY <3>2, <3>4
  <2> QED
    BY <2>2, <2>3
<1>6. Cardinality(I) \in Nat /\ Cardinality(K) \in Nat /\ Cardinality(I) <= Cardinality(K)
  <2> HIDE DEF I, K, f
  <2> QED
    BY <1>3, <1>4, <1>5, FS_Injection, FS_CardinalityType
<1>7. Copies(u, m) \in Nat
  <2>1. CASE m.group
    <3>1. {n \in DOMAIN m.to : m.to[n] = u} \subseteq 1..Len(m.to) /\ Len(m.to) \in Nat
      BY RequestType, LenProperties
    <3>2. IsFiniteSet({n \in DOMAIN m.to : m.to[n] = u})
      BY <3>1, UpTo, FS_Subset
    <3> QED
      BY <2>1, <3>2, FS_CardinalityType DEF Copies
  <2>2. CASE ~m.group
    BY <2>2 DEF Copies
  <2> QED
    BY <2>1, <2>2
<1> HIDE DEF K
<1> QED
  BY <1>5, <1>6, <1>7

\* No picture and no file is shown more often than its recipient stands in the
\* list it was sent to, however the chunks of a picture overlap in the pool and
\* whichever of its tasks finds them all there, for any requests: also to a group
\* whose cached list names a member twice.
THEOREM NothingIsShownTwice == Spec => []ShownOnce
<1>1. Inv /\ OnceInv => ShownOnce
  BY ShownCopies DEF ShownOnce
<1> QED
  BY <1>1, InitInv, NextInv, InitOnce, NextOnce, PTL DEF Spec

------------------------------------------------------------------------------
\* The chunks of a picture are numbered from 1.
LEMMA ChunkNumber ==
    ASSUME Inv, KindInv, NEW v \in User, NEW m \in Request, Chunked(m), NEW c \in Nat, Has(v, m, c)
    PROVE  c \in 1..m.size /\ v = m.to[1]
<1>1. m.size \in Nat
  BY RequestType
<1>2. CASE OnWire(v, m, c)
  BY <1>1, <1>2 DEF KindInv, Packets, Receiver, Chunked
<1>3. CASE InStore(v, m, c)
  BY <1>3 DEF InStore, KindInv
<1>4. CASE InParts(v, m, c)
  <2>1. PICK p \in parts[v] : p.of = m /\ p.index = c
    BY <1>4 DEF InParts
  <2>2. p \in GoodPart
    BY DEF Inv, PartsInv
  <2> QED
    BY <2>1, <2>2 DEF GoodPart, KindInv
<1> QED
  BY <1>2, <1>3, <1>4 DEF Has

\* Of a picture that is at a user in part, only the request a thread is at can
\* bring more.
LEMMA HeadToCome ==
    ASSUME Inv, KindInv, SentInv, NEW v \in User, NEW m \in Request, Chunked(m),
           NEW k \in Nat, Has(v, m, k), NEW c \in Nat, ToCome(v, m, c)
    PROVE  \E u \in User : /\ todo[u] # <<>> /\ Head(todo[u]) = m /\ next[u] # 1
                           /\ next[u] <= Packets(m)
<1>1. k \in 1..m.size /\ v = m.to[1] /\ m.size \in Nat
  BY ChunkNumber, RequestType
<1>2. ~ToCome(v, m, k)
  BY DEF SentInv
<1>3. PICK u \in User : \E i \in DOMAIN todo[u] :
         /\ todo[u][i] = m
         /\ i = 1 => c \in next[u]..Packets(m) /\ Receiver(m, c) = v
  BY DEF ToCome
<1>4. PICK i \in DOMAIN todo[u] :
         /\ todo[u][i] = m
         /\ i = 1 => c \in next[u]..Packets(m) /\ Receiver(m, c) = v
  BY <1>3
<1>5. i = 1
  BY <1>2, <1>4 DEF ToCome
<1>6. todo[u] # <<>> /\ Head(todo[u]) = m
  BY <1>4, <1>5, HeadTailProperties DEF Inv, ServerInv
<1>7. next[u] \in Nat /\ Packets(m) = m.size
  BY DEF Inv, ServerInv, Packets, Chunked
<1>8. next[u] # 1
  <2> SUFFICES ASSUME next[u] = 1 PROVE FALSE
    OBVIOUS
  <2>1. k \in next[u]..Packets(m) /\ Receiver(m, k) = v
    BY <1>1, <1>7 DEF Receiver, Chunked
  <2> QED
    BY <1>2, <1>4, <1>5, <2>1 DEF ToCome
<1> QED
  BY <1>1, <1>4, <1>5, <1>6, <1>7, <1>8

\* A step that leaves the server alone and moves the chunks about.
LEMMA TrackSame ==
    ASSUME TrackInv, online' \subseteq online, UNCHANGED serverVars,
           \A v \in online', m \in Request, c \in Nat :
               Chunked(m) => (Has(v, m, c)' <=> Has(v, m, c))
    PROVE  TrackInv'
<1>1. todo' = todo /\ next' = next /\ stage' = stage
  BY DEF serverVars
<1>2. \A v \in User, m \in Request, c \in Nat : ToCome(v, m, c)' = ToCome(v, m, c)
  BY ServerSame
<1>3. ASSUME NEW v \in online', NEW m \in Request, Chunked(m), NEW k \in Nat, Has(v, m, k)'
      PROVE  Tracked(v, m)'
  <2>1. Tracked(v, m) /\ v \in User
    BY <1>3 DEF TrackInv
  <2>2. m.size \in Nat /\ \A c \in 1..m.size : c \in Nat
    BY RequestType
  <2> QED
    BY <1>2, <1>3, <2>1, <2>2 DEF Tracked
<1>4. ASSUME NEW v \in online', NEW m \in Request, NEW u \in User,
             todo[u] # <<>>, Head(todo[u]) = m, stage[u] = "sending",
             next[u] <= m.size, Chunked(m), m.to[1] = v, NEW c \in 1..(next[u] - 1)
      PROVE  Has(v, m, c)'
  <2>1. Has(v, m, c)
    BY <1>4 DEF TrackInv
  <2>2. c \in Nat
    OBVIOUS
  <2> QED
    BY <1>4, <2>1, <2>2
<1> QED
  BY <1>1, <1>3, <1>4 DEF TrackInv

\* ... and one that leaves the map alone.
LEMMA MapSame ==
    ASSUME files' = files, parts' = parts, again' = again,
           \A v \in User, m \in Request : Checking(v, m) => Checking(v, m)'
    PROVE  /\ FilesInv => FilesInv'
           /\ CheckInv => CheckInv'
<1>1. FilesInv => FilesInv'
  BY DEF FilesInv, Stored
<1>2. \A v \in User, m \in Request, c \in Nat : InParts(v, m, c)' = InParts(v, m, c)
  BY DEF InParts
<1>3. ASSUME CheckInv, NEW v \in User, NEW m \in Request, Chunked(m), m.size > 0,
             \A c \in 1..m.size : InParts(v, m, c)'
      PROVE  Checking(v, m)'
  <2>1. \A c \in 1..m.size : c \in Nat
    BY RequestType
  <2>2. \A c \in 1..m.size : InParts(v, m, c)
    BY <1>2, <1>3, <2>1
  <2> QED
    BY <1>3, <2>2 DEF CheckInv
<1> QED
  BY <1>1, <1>3 DEF CheckInv

\* At the start nothing is kept.
LEMMA InitKept == Init => KeptInv
<1> SUFFICES ASSUME Init PROVE KeptInv
  OBVIOUS
<1>1. FilesInv
  BY DEF Init, FilesInv
<1>2. TrackInv
  BY DEF Init, TrackInv, Has, OnWire, InStore, InParts
<1>3. CheckInv
  <2> SUFFICES ASSUME NEW v \in User, NEW m \in Request, m.size > 0,
                      \A c \in 1..m.size : InParts(v, m, c)
               PROVE  FALSE
    BY DEF CheckInv
  <2>1. m.size \in Nat /\ 1 \in 1..m.size
    BY RequestType
  <2>2. ~InParts(v, m, 1)
    BY DEF Init, InParts
  <2> QED
    BY <2>1, <2>2
<1> QED
  BY <1>1, <1>2, <1>3 DEF KeptInv

\* The threads' steps that send nothing.
LEMMA QuietKept ==
    ASSUME Inv, OnceInv, KeptInv, NEW u \in User,
           SaveFile(u) \/ FindFriend(u) \/ FindGroup(u) \/ Reply(u)
    PROVE  KeptInv'
<1> USE DEF OnceInv, KeptInv
<1>1. /\ online' = online /\ UNCHANGED <<wire, clientVars>> /\ todo[u] # <<>>
      /\ next[u] = 1 \/ next[u] > Packets(Req(u))
  BY DEF SaveFile, FindFriend, FindGroup, Reply, Now, TodoInv
<1>2. (\E result : Return(u, result)) \/ (\E at \in {"saved", "sending"} : To(u, at) /\ next[u] = 1)
  BY DEF SaveFile, FindFriend, FindGroup, Reply, Now, TodoInv
<1>3. \A v \in User, m \in Request, c \in Nat : Has(v, m, c)' = Has(v, m, c)
  BY <1>1, ClientsSame
<1>4. FilesInv' /\ CheckInv'
  BY <1>1, MapSame DEF clientVars, Checking
<1>5. ServerInv /\ stage \in [User -> {"idle", "saved", "sending"}]
  BY DEF Inv, TrackInv
<1>6. ASSUME NEW v \in online, NEW m \in Request, Chunked(m), NEW k \in Nat, Has(v, m, k)
      PROVE  Tracked(v, m)'
  <2>1. Tracked(v, m) /\ v \in User
    BY <1>6 DEF TrackInv
  <2>2. m.size \in Nat /\ \A c \in 1..m.size : c \in Nat
    BY RequestType
  <2>3. ASSUME NEW c \in 1..m.size, ToCome(v, m, c)
        PROVE  ToCome(v, m, c)'
    <3>1. PICK w \in User : todo[w] # <<>> /\ Head(todo[w]) = m /\ next[w] # 1 /\ next[w] <= Packets(m)
      BY <1>6, <2>1, <2>2, <2>3, HeadToCome
    <3>2. PICK x \in User : \E i \in DOMAIN todo[x] :
             /\ todo[x][i] = m
             /\ i = 1 => c \in next[x]..Packets(m) /\ Receiver(m, c) = v
      BY <2>3 DEF ToCome
    <3>3. PICK i \in DOMAIN todo[x] :
             /\ todo[x][i] = m
             /\ i = 1 => c \in next[x]..Packets(m) /\ Receiver(m, c) = v
      BY <3>2
    <3>4. 1 \in DOMAIN todo[w] /\ todo[w][1] = m
      BY <1>5, <3>1, HeadTailProperties, LenProperties DEF ServerInv
    <3>5. x = w /\ i = 1
      BY <3>3, <3>4 DEF TodoInv
    <3>6. w # u
      <4>1. next[w] \in Nat /\ m.size \in Nat /\ Packets(m) = m.size
        BY <1>5, <1>6, <2>2 DEF ServerInv, Packets, Chunked
      <4> QED
        BY <1>1, <3>1, <4>1 DEF Req
    <3>7. todo'[w] = todo[w] /\ next'[w] = next[w]
      BY <1>2, <1>5, <3>6 DEF Return, To, ServerInv
    <3> QED
      BY <3>3, <3>5, <3>7 DEF ToCome
  <2>4. ASSUME NEW c \in 1..m.size PROVE Has(v, m, c)' \/ ToCome(v, m, c)'
    BY <1>3, <2>1, <2>2, <2>3 DEF Tracked
  <2> QED
    BY <2>4 DEF Tracked
<1>7. ASSUME NEW v \in online, NEW m \in Request, NEW w \in User,
             todo'[w] # <<>>, Head(todo'[w]) = m, stage'[w] = "sending",
             next'[w] <= m.size, Chunked(m), m.to[1] = v, NEW c \in 1..(next'[w] - 1)
      PROVE  Has(v, m, c)'
  <2>1. CASE w = u
    <3>1. stage'[u] = stage[u] \/ next'[u] = 1 \/ stage'[u] = "idle"
      BY <1>2, <1>5 DEF Return, To, ServerInv
    <3>2. next'[u] = 1 \/ stage'[u] = "idle"
      BY <1>2, <1>5 DEF Return, To, ServerInv
    <3> QED
      BY <1>7, <2>1, <3>2
  <2>2. CASE w # u
    <3>1. todo'[w] = todo[w] /\ next'[w] = next[w] /\ stage'[w] = stage[w]
      BY <1>2, <1>5, <2>2 DEF Return, To, ServerInv
    <3>2. Has(v, m, c) /\ v \in User /\ c \in Nat
      BY <1>7, <3>1 DEF TrackInv
    <3> QED
      BY <1>3, <3>2
  <2> QED
    BY <2>1, <2>2
<1>8. TrackInv'
  <2>1. online \subseteq User
    BY DEF TrackInv
  <2>2. stage' \in [User -> {"idle", "saved", "sending"}]
    BY <1>2, <1>5 DEF Return, To
  <2>3. \A v \in online, m \in Request, k \in Nat : Has(v, m, k)' => Has(v, m, k)
    BY <1>3, <2>1
  <2> QED
    BY <1>1, <1>6, <1>7, <2>1, <2>2, <2>3 DEF TrackInv
<1> QED
  BY <1>4, <1>8

\* A chunk that is sent follows the others of its picture.
LEMMA SendKept ==
    ASSUME Inv, OnceInv, KeptInv, NEW u \in User, SendNext(u)
    PROVE  KeptInv'
<1> USE DEF OnceInv, KeptInv
<1>1. PICK m : m = Req(u)
  OBVIOUS
<1>2. PICK x : x = Receiver(m, next[u])
  OBVIOUS
<1>3. PICK n : n = next[u]
  OBVIOUS
<1>4. /\ m \in Request /\ n \in Nat /\ n \in 1..Packets(m) /\ Receiver(m, n) = x
      /\ 1 \in DOMAIN todo[u] /\ todo[u][1] = m
      /\ ToCome(x, m, n) /\ ~ToCome(x, m, n)'
      /\ TodoInv' /\ UNCHANGED clientVars
      /\ \A w \in User, l \in Request, k \in Nat : ToCome(w, l, k)' => ToCome(w, l, k)
      /\ \A w \in User, l \in Request, k \in Nat :
            ToCome(w, l, k) => ToCome(w, l, k)' \/ (w = x /\ l = m /\ k = n)
      /\ \/ wire' = wire /\ (Chunked(m) => x \notin online)
         \/ /\ x \in online
            /\ wire' = [wire EXCEPT ![x] = Append(@, [of |-> m, nr |-> n])]
  <2>1. TodoInv
    OBVIOUS
  <2> QED
    BY <1>1, <1>2, <1>3, <2>1, SendTodo
<1>7. online' = online /\ todo' = todo /\ stage' = stage /\ next' = [next EXCEPT ![u] = @ + 1]
      /\ stage[u] = "sending" /\ todo[u] # <<>>
  BY DEF SendNext, Now
<1>8. FilesInv' /\ CheckInv'
  BY <1>4, MapSame DEF clientVars, Checking
<1>9. online \subseteq User
  BY DEF TrackInv
<1>10. \A w \in online, l \in Request, k \in Nat : Chunked(l) =>
          (Has(w, l, k)' <=> (Has(w, l, k) \/ (w = x /\ l = m /\ k = n)))
  <2>1. CASE wire' = wire /\ (Chunked(m) => x \notin online)
    <3>1. \A w \in User, l \in Request, k \in Nat : Has(w, l, k)' = Has(w, l, k)
      BY <1>4, <2>1, ClientsSame
    <3> QED
      BY <1>9, <2>1, <3>1
  <2>2. CASE x \in online /\ wire' = [wire EXCEPT ![x] = Append(@, [of |-> m, nr |-> n])]
    <3>1. x \in User
      BY <1>9, <2>2
    <3>2. KindInv /\ PlaceInv /\ SentInv /\ CopyInv /\ FinishedInv /\ SingleInv
      OBVIOUS
    <3>4. Sends(x, m, n)
      BY <1>4, <2>2 DEF Sends
    <3>3. \A w \in User, l \in Request, k \in Nat :
              Has(w, l, k)' <=> (Has(w, l, k) \/ (w = x /\ l = m /\ k = n))
      BY <1>4, <3>1, <3>2, <3>4, AppendPlace
    <3> QED
      BY <1>9, <3>3
  <2> QED
    BY <1>4, <2>1, <2>2
<1>11. m.size \in Nat /\ next[u] \in Nat \ {0}
       /\ \A w \in User : next'[w] = IF w = u THEN next[u] + 1 ELSE next[w]
  BY <1>4, <1>7, RequestType DEF Inv, ServerInv
<1>12. Chunked(m) => n = next[u] /\ next[u] <= m.size /\ x = m.to[1]
  BY <1>2, <1>3, <1>4, <1>11 DEF Chunked, Packets, Receiver
<1>13. ASSUME Chunked(m), x \in online PROVE \A c \in 1..next[u] : Has(x, m, c)'
  <2>1. \A c \in 1..(next[u] - 1) : Has(x, m, c)
    BY <1>1, <1>4, <1>7, <1>12, <1>13 DEF TrackInv, Req
  <2>2. \A c \in 1..next[u] : c \in Nat /\ (c \in 1..(next[u] - 1) \/ c = next[u])
    BY <1>11
  <2> QED
    BY <1>4, <1>10, <1>12, <1>13, <2>1, <2>2
<1>14. ASSUME NEW v \in online, NEW l \in Request, Chunked(l), NEW k \in Nat, Has(v, l, k)'
       PROVE  Tracked(v, l)'
  <2>1. v \in User /\ l.size \in Nat /\ \A c \in 1..l.size : c \in Nat
    BY <1>9, RequestType
  <2>2. CASE v = x /\ l = m
    <3> SUFFICES ASSUME NEW c \in 1..l.size PROVE Has(v, l, c)' \/ ToCome(v, l, c)'
      BY DEF Tracked
    <3>1. CASE c <= next[u]
      BY <1>11, <1>13, <1>14, <2>1, <2>2, <3>1
    <3>2. CASE ~(c <= next[u])
      <4>1. c \in next[u]..Packets(m) /\ Receiver(m, c) = x
        BY <1>2, <1>11, <1>14, <2>1, <2>2, <3>2 DEF Packets, Receiver, Chunked
      <4>2. ~(c = n) /\ c \in next'[u]..Packets(m)
        BY <1>4, <1>11, <1>12, <1>14, <2>1, <2>2, <3>2, <4>1
      <4> QED
        BY <1>4, <1>7, <2>2, <4>1, <4>2 DEF ToCome
    <3> QED
      BY <3>1, <3>2
  <2>3. CASE ~(v = x /\ l = m)
    <3>1. Has(v, l, k)
      BY <1>10, <1>14, <2>3
    <3>2. Tracked(v, l)
      BY <1>14, <3>1 DEF TrackInv
    <3> QED
      BY <1>4, <1>10, <1>14, <2>1, <2>3, <3>2 DEF Tracked
  <2> QED
    BY <2>2, <2>3
<1>15. ASSUME NEW v \in online, NEW l \in Request, NEW w \in User,
              todo[w] # <<>>, Head(todo[w]) = l, stage[w] = "sending",
              next'[w] <= l.size, Chunked(l), l.to[1] = v, NEW c \in 1..(next'[w] - 1)
       PROVE  Has(v, l, c)'
  <2>1. CASE w = u
    <3>1. l = m /\ v = x /\ c \in 1..next[u]
      BY <1>1, <1>11, <1>12, <1>15, <2>1 DEF Req
    <3> QED
      BY <1>13, <1>15, <3>1
  <2>2. CASE w # u
    <3>1. next'[w] = next[w] /\ next[w] \in Nat /\ c \in Nat
      BY <1>11, <2>2 DEF Inv, ServerInv
    <3>2. Has(v, l, c)
      BY <1>15, <3>1 DEF TrackInv
    <3> QED
      BY <1>10, <1>15, <3>1, <3>2
  <2> QED
    BY <2>1, <2>2
<1>16. TrackInv'
  BY <1>7, <1>9, <1>14, <1>15 DEF TrackInv
<1> QED
  BY <1>8, <1>16

\* A packet that becomes a task is still at its user.
LEMMA ReceiveKept ==
    ASSUME Inv, OnceInv, KeptInv, NEW v \in User, Receive(v)
    PROVE  KeptInv'
<1>1. online' = online /\ UNCHANGED serverVars /\ files' = files /\ parts' = parts /\ again' = again
  BY DEF Receive
<1>2. \A w \in User, l \in Request, k \in Nat : Chunked(l) => (Has(w, l, k)' <=> Has(w, l, k))
  BY ReceiveOnce
<1>3. \A w \in User : pool[w] \subseteq pool'[w]
  BY DEF Receive, Inv, PoolInv
<1>4. TrackInv'
  BY <1>1, <1>2, TrackSame DEF KeptInv, TrackInv
<1>5. \A w \in User, m \in Request : Checking(w, m) => Checking(w, m)'
  BY <1>3 DEF Checking
<1>6. FilesInv' /\ CheckInv'
  BY <1>1, <1>5, MapSame DEF KeptInv
<1> QED
  BY <1>4, <1>6 DEF KeptInv

\* A chunk that is stored will be counted.
LEMMA StoreKept ==
    ASSUME Inv, OnceInv, KeptInv, NEW v \in User, NEW t \in pool[v], StoreChunk(v, t)
    PROVE  KeptInv'
<1>1. /\ \A w \in User, l \in Request, k \in Nat : Has(w, l, k)' <=> Has(w, l, k)
      /\ \A w \in User : parts'[w] = IF w # v THEN parts[w] ELSE
            parts[w] \union {[key |-> Key(t.of), index |-> t.nr, of |-> t.of]}
  BY StoreOnce
<1>2. PICK m \in Request, c \in Nat : m = t.of /\ c = t.nr
  BY DEF Inv, PoolInv, GoodTask
<1> DEFINE q == [key |-> Key(m), index |-> c, of |-> m]
           s == Task(t, "check", {})
<1>3. /\ q.key = Key(m) /\ q.of = m /\ s.at = "check" /\ s.of = m
      /\ \A w \in User : parts'[w] = IF w # v THEN parts[w] ELSE parts[w] \union {q}
      /\ \A w \in User : pool'[w] = IF w # v THEN pool[w] ELSE (pool[w] \ {t}) \union {s}
      /\ \A w \in User : files'[w] = IF w # v THEN files[w] ELSE files[w] \union {Key(m)}
  BY <1>1, <1>2 DEF StoreChunk, Becomes, Task, Inv, PoolInv, OnceInv, MapInv
<1> HIDE DEF q, s
<1>30. /\ \A w, p : w \in User => (p \in parts'[w] <=> (p \in parts[w] \/ (w = v /\ p = q)))
       /\ \A w, k : w \in User => (k \in files'[w] <=> (k \in files[w] \/ (w = v /\ k = Key(m))))
  <2>3. parts'[v] = parts[v] \union {q} /\ \A w \in User : w # v => parts'[w] = parts[w]
    BY <1>3
  <2>4. files'[v] = files[v] \union {Key(m)} /\ \A w \in User : w # v => files'[w] = files[w]
    BY <1>3
  <2>1. \A w, p : w \in User => (p \in parts'[w] <=> (p \in parts[w] \/ (w = v /\ p = q)))
    BY <2>3
  <2>2. \A w, k : w \in User => (k \in files'[w] <=> (k \in files[w] \/ (w = v /\ k = Key(m))))
    BY <2>4
  <2> QED
    BY <2>1, <2>2
<1>4. online' = online /\ UNCHANGED serverVars /\ again' = again /\ t.at = "store"
  BY DEF StoreChunk
<1>5. TrackInv'
  BY <1>1, <1>4, TrackSame DEF KeptInv, TrackInv
<1>6. FilesInv'
  <2>1. ASSUME NEW w \in User, NEW k \in files'[w], Stored(w, k)' = {}
        PROVE  k \in again'[w]
    <3>0. ~(w = v /\ k = Key(m))
      <4>1. w = v => q \in parts'[w]
        BY <1>30
      <4> QED
        BY <1>3, <2>1, <4>1 DEF Stored
    <3>1. k \in files[w]
      BY <1>30, <2>1, <3>0
    <3>2. Stored(w, k) = {}
      BY <1>30, <2>1 DEF Stored
    <3> QED
      BY <1>4, <3>1, <3>2 DEF KeptInv, FilesInv
  <2>2. ASSUME NEW w \in User, NEW p \in parts'[w] PROVE p.key \in files'[w]
    <3>1. CASE p \in parts[w]
      BY <1>3, <3>1 DEF KeptInv, FilesInv
    <3>2. CASE w = v /\ p = q
      BY <1>3, <1>30, <3>2
    <3>3. p \in parts[w] \/ (w = v /\ p = q)
      BY <1>30, <2>2
    <3> QED
      BY <3>1, <3>2, <3>3
  <2> QED
    BY <2>1, <2>2 DEF FilesInv
<1>7. CheckInv'
  <2> SUFFICES ASSUME NEW w \in User, NEW l \in Request, Chunked(l), l.size > 0,
                      \A i \in 1..l.size : InParts(w, l, i)'
               PROVE  Checking(w, l)'
    BY DEF CheckInv
  <2>1. CASE w = v /\ l = m
    BY <1>3, <2>1 DEF Checking
  <2>2. CASE ~(w = v /\ l = m)
    <3>1. ASSUME NEW i \in 1..l.size PROVE InParts(w, l, i)
      <4>1. PICK p \in parts'[w] : p.of = l /\ p.index = i
        BY DEF InParts
      <4>3. p # q \/ w # v
        BY <1>3, <2>2, <4>1
      <4>2. p \in parts[w]
        BY <1>30, <4>1, <4>3
      <4> QED
        BY <4>1, <4>2 DEF InParts
    <3>2. Checking(w, l)
      BY <3>1 DEF KeptInv, CheckInv
    <3> QED
      BY <1>3, <1>4, <3>2 DEF Checking
  <2> QED
    BY <2>1, <2>2
<1> QED
  BY <1>5, <1>6, <1>7 DEF KeptInv

\* A picture that is put together takes its entry with it.
LEMMA AssembleKept ==
    ASSUME Inv, OnceInv, KeptInv, NEW v \in User, NEW t \in pool[v], Assemble(v, t)
    PROVE  KeptInv'
<1>1. PICK m \in Request : m = t.of
  BY DEF Inv, PoolInv, GoodTask
<1>2. /\ Chunked(m) /\ (\A k \in Nat : Finished(v, m, k)') /\ m.size \in Nat \ {0} /\ \A i \in 1..m.size : InParts(v, m, i)
      /\ \A w \in User, l \in Request, k \in Nat : ~(w = v /\ l = m) =>
            (Has(w, l, k)' <=> Has(w, l, k)) /\ (InParts(w, l, k)' <=> InParts(w, l, k))
  BY <1>1, AssembleOnce
<1> DEFINE s == [of |-> m, nr |-> 0, at |-> "show",
                 pieces |-> {[index |-> p.index, of |-> p.of] : p \in Stored(v, Key(m))}]
<1>3. /\ \A w \in User : parts'[w] = IF w # v THEN parts[w] ELSE parts[w] \ Stored(v, Key(m))
      /\ \A w \in User : pool'[w] = IF w # v THEN pool[w] ELSE (pool[w] \ {t}) \union {s}
      /\ \A w \in User : files'[w] = IF w # v THEN files[w] ELSE files[w] \ {Key(m)}
  BY <1>1 DEF Assemble, RemoveEntry, Becomes, Inv, PoolInv, PartsInv, OnceInv, MapInv
<1> HIDE DEF s
<1>4. online' = online /\ UNCHANGED serverVars /\ again' = again
      /\ todo' = todo /\ next' = next /\ stage' = stage
  BY DEF Assemble, serverVars
<1>5. FilesInv'
  <2>1. ASSUME NEW w \in User, NEW k \in files'[w], Stored(w, k)' = {}
        PROVE  k \in again'[w]
    <3>1. k \in files[w] /\ (w = v => k # Key(m))
      BY <1>3, <2>1
    <3>2. ASSUME NEW p \in parts[w], p.key = k PROVE FALSE
      <4>1. p \in parts'[w]
        BY <1>3, <3>1, <3>2 DEF Stored
      <4> QED
        BY <2>1, <3>2, <4>1 DEF Stored
    <3>3. Stored(w, k) = {}
      BY <3>2 DEF Stored
    <3> QED
      BY <1>4, <3>1, <3>3 DEF KeptInv, FilesInv
  <2>2. ASSUME NEW w \in User, NEW p \in parts'[w] PROVE p.key \in files'[w]
    <3>1. p \in parts[w] /\ (w = v => p.key # Key(m))
      <4>1. CASE w # v
        BY <1>3, <2>2, <4>1
      <4>2. CASE w = v
        BY <1>3, <2>2, <4>2 DEF Stored
      <4> QED
        BY <4>1, <4>2
    <3>2. p.key \in files[w]
      BY <3>1 DEF KeptInv, FilesInv
    <3> QED
      BY <1>3, <3>1, <3>2
  <2> QED
    BY <2>1, <2>2 DEF FilesInv
<1>6. CheckInv'
  <2> SUFFICES ASSUME NEW w \in User, NEW l \in Request, Chunked(l), l.size > 0,
                      \A i \in 1..l.size : InParts(w, l, i)'
               PROVE  Checking(w, l)'
    BY DEF CheckInv
  <2>1. CASE w = v /\ l = m
    <3>1. 1 \in 1..m.size /\ ~Has(v, m, 1)'
      BY <1>2 DEF Finished
    <3> QED
      BY <2>1, <3>1 DEF Has
  <2>2. CASE ~(w = v /\ l = m)
    <3>1. \A i \in 1..l.size : InParts(w, l, i)
      <4>1. \A i \in 1..l.size : i \in Nat
        BY RequestType
      <4> QED
        BY <1>2, <2>2, <4>1
    <3>2. Checking(w, l)
      BY <3>1 DEF KeptInv, CheckInv
    <3> QED
      BY <1>1, <1>3, <2>2, <3>2 DEF Checking
  <2> QED
    BY <2>1, <2>2
<1>7. online \subseteq User /\ stage \in [User -> {"idle", "saved", "sending"}]
  BY DEF KeptInv, TrackInv
<1>8. ASSUME NEW w \in online, NEW l \in Request, Chunked(l), NEW k \in Nat, Has(w, l, k)'
      PROVE  Tracked(w, l)'
  <2>1. ~(w = v /\ l = m) /\ w \in User
    BY <1>2, <1>7, <1>8 DEF Finished
  <2>2. Tracked(w, l)
    BY <1>2, <1>8, <2>1 DEF KeptInv, TrackInv
  <2>3. \A c \in 1..l.size : c \in Nat
    BY RequestType
  <2>4. \A c \in Nat : ToCome(w, l, c)' = ToCome(w, l, c)
    BY <1>4, <2>1, ServerSame
  <2> QED
    BY <1>2, <2>1, <2>2, <2>3, <2>4 DEF Tracked
<1>9. ASSUME NEW w \in online, NEW l \in Request, NEW u \in User,
             todo[u] # <<>>, Head(todo[u]) = l, stage[u] = "sending",
             next[u] <= l.size, Chunked(l), l.to[1] = w, NEW c \in 1..(next[u] - 1)
      PROVE  Has(w, l, c)'
  <2>1. ServerInv /\ next[u] \in Nat \ {0} /\ l.size \in Nat
    BY RequestType DEF Inv, ServerInv
  <2>2. CASE w = v /\ l = m
    <3>1. next[u] \in 1..m.size /\ next[u] \in next[u]..Packets(m)
          /\ Receiver(m, next[u]) = v
      BY <1>9, <2>1, <2>2 DEF Packets, Receiver, Chunked
    <3>2. 1 \in DOMAIN todo[u] /\ todo[u][1] = m
      BY <1>9, <2>1, <2>2, HeadTailProperties, LenProperties DEF ServerInv
    <3>3. ToCome(v, m, next[u])
      BY <3>1, <3>2 DEF ToCome
    <3> QED
      BY <1>2, <2>1, <3>1, <3>3 DEF OnceInv, SentInv, Has
  <2>3. CASE ~(w = v /\ l = m)
    <3>1. Has(w, l, c) /\ w \in User /\ c \in Nat
      BY <1>7, <1>9 DEF KeptInv, TrackInv
    <3> QED
      BY <1>2, <2>3, <3>1
  <2> QED
    BY <2>2, <2>3
<1>10. TrackInv'
  BY <1>4, <1>7, <1>8, <1>9 DEF TrackInv
<1> QED
  BY <1>5, <1>6, <1>10 DEF KeptInv

\* A task that ends without the picture leaves one that will be counted, or an
\* entry that is empty.
LEMMA NotYetKept ==
    ASSUME Inv, OnceInv, KeptInv, NEW v \in User, NEW t \in pool[v], NotYet(v, t)
    PROVE  KeptInv'
<1>1. PICK m \in Request : m = t.of
  BY DEF Inv, PoolInv, GoodTask
<1>2. /\ files' = [files EXCEPT ![v] = @ \union {Key(m)}]
      /\ again' = IF Key(m) \in files[v] THEN again ELSE [again EXCEPT ![v] = @ \union {Key(m)}]
      /\ t.at = "check" /\ Ends(v, t) /\ Cardinality(Stored(v, Key(m))) # m.size
      /\ UNCHANGED <<serverVars, online, wire, parts, posted, shown>>
  BY <1>1 DEF NotYet, AllThere
<1>3. \A w \in User, l \in Request, k \in Nat : Has(w, l, k)' = Has(w, l, k)
  BY <1>2, TaskEnds
<1>4. TrackInv'
  BY <1>2, <1>3, TrackSame DEF KeptInv, TrackInv
<1>5. FilesInv'
  <2>1. \A w \in User : again[w] \subseteq again'[w] /\ files[w] \subseteq files'[w]
    BY <1>2 DEF OnceInv, MapInv
  <2>2. ASSUME NEW w \in User, NEW k \in files'[w], Stored(w, k)' = {}
        PROVE  k \in again'[w]
    <3>1. Stored(w, k) = {}
      BY <1>2, <2>2 DEF Stored
    <3>2. k \in files[w] \/ (w = v /\ k = Key(m) /\ Key(m) \notin files[v])
      BY <1>2, <2>2 DEF OnceInv, MapInv
    <3>3. k \in files[w] => k \in again[w]
      BY <3>1 DEF KeptInv, FilesInv
    <3>4. w = v /\ k = Key(m) /\ Key(m) \notin files[v] => k \in again'[w]
      BY <1>2 DEF OnceInv, MapInv
    <3> QED
      BY <2>1, <3>2, <3>3, <3>4
  <2> QED
    BY <1>2, <2>1, <2>2 DEF KeptInv, FilesInv
<1>6. CheckInv'
  <2> SUFFICES ASSUME NEW w \in User, NEW l \in Request, Chunked(l), l.size > 0,
                      \A i \in 1..l.size : InParts(w, l, i)'
               PROVE  Checking(w, l)'
    BY DEF CheckInv
  <2>1. \A i \in 1..l.size : InParts(w, l, i)
    BY <1>2 DEF InParts
  <2>2. CASE w = v /\ l = m
    <3> DEFINE S == Stored(v, Key(m))
    <3>1. S \in SUBSET GoodPart /\ \A p \in S : p.key = Key(m)
      BY DEF Inv, PartsInv, Stored
    <3>2. \A i \in 1..m.size : \E p \in S : p.index = i
      BY <2>1, <2>2 DEF InParts, Stored, Inv, PartsInv, GoodPart
    <3> HIDE DEF S
    <3>3. Cardinality(S) = m.size
      BY <3>1, <3>2, WholeIsAll
    <3> QED
      BY <1>2, <3>3 DEF S
  <2>3. CASE ~(w = v /\ l = m)
    <3>1. Checking(w, l)
      BY <2>1 DEF KeptInv, CheckInv
    <3>2. pool'[w] = IF w = v THEN pool[w] \ {t} ELSE pool[w]
      BY <1>2 DEF Ends, Inv, PoolInv
    <3> QED
      BY <1>1, <2>3, <3>1, <3>2 DEF Checking
  <2> QED
    BY <2>2, <2>3
<1> QED
  BY <1>4, <1>5, <1>6 DEF KeptInv

\* A task that shows a picture, and what is done with it, leave the map alone.
LEMMA ShowKept ==
    ASSUME Inv, OnceInv, KeptInv, NEW v \in User,
           (\E t \in pool[v] : Process(v, t)) \/ ImageProcessed(v)
    PROVE  KeptInv'
<1>1. online' = online /\ UNCHANGED serverVars /\ files' = files /\ parts' = parts /\ again' = again
      /\ wire' = wire
  BY DEF Process, ImageProcessed
<1>2. /\ \A w \in User, l \in Request, k \in Nat : Has(w, l, k)' = Has(w, l, k)
      /\ \A w \in User, m \in Request : Checking(w, m) => Checking(w, m)'
  <2>1. ASSUME NEW t \in pool[v], Process(v, t)
        PROVE  /\ \A w \in User, l \in Request, k \in Nat : Has(w, l, k)' = Has(w, l, k)
               /\ \A w \in User, m \in Request : Checking(w, m) => Checking(w, m)'
    <3>1. t.at = "show" /\ Ends(v, t) /\ UNCHANGED <<serverVars, wire, parts, shown>>
      BY <2>1 DEF Process
    <3>2. \A w \in User, l \in Request, k \in Nat : Has(w, l, k)' = Has(w, l, k)
      BY <3>1, TaskEnds
    <3>3. \A w \in User : pool'[w] = IF w = v THEN pool[w] \ {t} ELSE pool[w]
      BY <3>1 DEF Ends, Inv, PoolInv
    <3> QED
      BY <3>1, <3>2, <3>3 DEF Checking
  <2>2. CASE ImageProcessed(v)
    BY <1>1, <2>2 DEF ImageProcessed, Has, OnWire, InStore, InParts, Checking
  <2> QED
    BY <2>1, <2>2
<1>3. TrackInv'
  BY <1>1, <1>2, TrackSame DEF KeptInv, TrackInv
<1>4. FilesInv' /\ CheckInv'
  BY <1>1, <1>2, MapSame DEF KeptInv
<1> QED
  BY <1>3, <1>4 DEF KeptInv

\* Who leaves is not promised anything any more.
LEMMA LeavesKept ==
    ASSUME Inv, OnceInv, KeptInv, NEW u \in User, Leaves(u)
    PROVE  KeptInv'
<1>1. /\ online' = online \ {u} /\ UNCHANGED serverVars /\ UNCHANGED clientVars
      /\ pool' = pool /\ files' = files /\ parts' = parts /\ again' = again
      /\ wire' = [wire EXCEPT ![u] = <<>>]
  BY DEF Leaves, clientVars
<1>2. \A v \in online', m \in Request, c \in Nat : Has(v, m, c)' = Has(v, m, c)
  <2>1. \A v \in online' : v \in User /\ v # u /\ wire'[v] = wire[v]
    BY <1>1 DEF Inv, WireInv, KeptInv, TrackInv
  <2> QED
    BY <1>1, <2>1 DEF Has, OnWire, InStore, InParts
<1>3. TrackInv'
  BY <1>1, <1>2, TrackSame DEF KeptInv
<1>4. FilesInv' /\ CheckInv'
  BY <1>1, MapSame DEF KeptInv, Checking
<1> QED
  BY <1>3, <1>4 DEF KeptInv

\* One step per action.
LEMMA NextKept == Inv /\ OnceInv /\ KeptInv /\ [Next]_vars => KeptInv'
<1> SUFFICES ASSUME Inv, OnceInv, KeptInv, [Next]_vars PROVE KeptInv'
  OBVIOUS
<1>1. CASE UNCHANGED vars
  <2>1. UNCHANGED serverVars /\ UNCHANGED <<wire, clientVars>> /\ online' = online
        /\ pool' = pool /\ files' = files /\ parts' = parts /\ again' = again
    BY <1>1 DEF vars, clientVars
  <2>2. \A w \in User, l \in Request, k \in Nat : Has(w, l, k)' = Has(w, l, k)
    BY <2>1, ClientsSame
  <2>3. TrackInv'
    BY <2>1, <2>2, TrackSame DEF KeptInv, TrackInv
  <2>4. FilesInv' /\ CheckInv'
    BY <2>1, MapSame DEF KeptInv, Checking
  <2> QED
    BY <2>3, <2>4 DEF KeptInv
<1>2. ASSUME NEW u \in User, ServerStep(u) PROVE KeptInv'
  BY <1>2, QuietKept, SendKept DEF ServerStep
<1>3. ASSUME NEW u \in User, MainThread(u) PROVE KeptInv'
  BY <1>3, ReceiveKept, ShowKept DEF MainThread
<1>4. ASSUME NEW u \in User, PoolStep(u) PROVE KeptInv'
  BY <1>4, StoreKept, AssembleKept, NotYetKept, ShowKept DEF PoolStep
<1> QED
  BY <1>1, <1>2, <1>3, <1>4, LeavesKept DEF Next

\* While its recipient is there, an entry of m_fileChunks belongs to a picture
\* that is under way, or is the empty one that a task made which came to count
\* the chunks of a picture that had been put together: no chunk is left behind.
THEOREM NoChunksAreLeft == Spec => []NothingKept
<1>1. Inv /\ OnceInv /\ KeptInv => NothingKept
  <2> SUFFICES ASSUME Inv, OnceInv, KeptInv, NEW v \in online, NEW k \in files[v],
                      ~(k \in again[v] /\ Stored(v, k) = {})
               PROVE  Busy(v, k)
    BY DEF NothingKept
  <2>1. v \in User
    BY DEF KeptInv, TrackInv
  <2>2. PICK p \in parts[v] : p.key = k
    BY <2>1 DEF KeptInv, FilesInv, Stored
  <2>3. PICK m \in Request : m = p.of /\ Key(m) = k /\ p.index \in 1..m.size /\ Chunked(m)
    BY <2>1, <2>2 DEF Inv, PartsInv, GoodPart, OnceInv, KindInv
  <2>4. m.size \in Nat /\ p.index \in Nat /\ \A c \in 1..m.size : c \in Nat
    BY <2>3, RequestType
  <2>5. Has(v, m, p.index)
    BY <2>3 DEF Has, InParts
  <2>6. Tracked(v, m)
    BY <2>3, <2>4, <2>5 DEF KeptInv, TrackInv
  <2>7. CASE \A c \in 1..m.size : InParts(v, m, c)
    <3>1. Checking(v, m)
      BY <2>1, <2>3, <2>4, <2>7 DEF KeptInv, CheckInv
    <3> QED
      BY <2>3, <3>1 DEF Checking, Busy
  <2>8. ASSUME NEW c \in 1..m.size, ~InParts(v, m, c) PROVE Busy(v, k)
    <3>1. OnWire(v, m, c) \/ InStore(v, m, c) \/ ToCome(v, m, c)
      BY <2>6, <2>8 DEF Tracked, Has
    <3>2. ToCome(v, m, c) => \E u \in User : todo[u] # <<>> /\ Head(todo[u]) = m
      BY <2>1, <2>3, <2>4, <2>5, HeadToCome DEF OnceInv
    <3> QED
      BY <2>3, <3>1, <3>2 DEF OnWire, InStore, Busy, Req
  <2> QED
    BY <2>7, <2>8
<1> QED
  BY <1>1, InitInv, NextInv, InitOnce, NextOnce, InitKept, NextKept, PTL DEF Spec
------------------------------------------------------------------------------
\* m is on its way at v, or shown, or v could not save it.
UnderWay(v, m) == m \in unsaved[v] \/ \E k \in Nat : Handed(v, m, k) \/ Has(v, m, k)

\* The n-th packet of m, a request of u, was not sent in vain: it came to its
\* receiver, unless that is the sender, has gone, or m does not decode.
Reached(u, m, n) ==
    m.sound /\ Receiver(m, n) \in online /\ ~(m.group /\ Receiver(m, n) = u)
    => UnderWay(Receiver(m, n), m)

\* Nothing was said of a request that is still to do, and what its thread has
\* sent has reached its receiver, as has all of what is told to be a success.
ReachInv ==
    /\ \E Told : told \in [Request -> Told]
    /\ \A u \in User : \A i \in DOMAIN todo[u] :
          /\ \E j \in DOMAIN Requests[u] : todo[u][i] = Requests[u][j]
          /\ told[todo[u][i]] = "nothing"
    /\ \A u \in User, m \in Request : todo[u] # <<>> /\ Head(todo[u]) = m /\ stage[u] = "sending" =>
          \A n \in 1..(next[u] - 1) : Reached(u, m, n)
    /\ \A u \in User : \A j \in DOMAIN Requests[u] : told[Requests[u][j]] = "success" =>
          \A n \in 1..Packets(Requests[u][j]) : Reached(u, Requests[u][j], n)

\* The requests a thread has still to do, and the first of them.
LEMMA FirstIs ==
    ASSUME ServerInv, NEW u \in User, todo[u] # <<>>
    PROVE  /\ Head(todo[u]) \in Request /\ Head(todo[u]) = todo[u][1]
           /\ Len(todo[u]) \in Nat \ {0} /\ 1 \in DOMAIN todo[u]
           /\ DOMAIN Tail(todo[u]) = 1..(Len(todo[u]) - 1) /\ DOMAIN todo[u] = 1..Len(todo[u])
           /\ \A i \in DOMAIN Tail(todo[u]) :
                 Tail(todo[u])[i] = todo[u][i + 1] /\ i + 1 \in DOMAIN todo[u] /\ i + 1 # 1
<1>1. todo[u] \in Seq(Request)
  BY DEF ServerInv
<1>2. PICK s \in Seq(Request) : s = todo[u] /\ s # <<>>
  BY <1>1
<1>3. /\ Head(s) \in Request /\ Head(s) = s[1]
      /\ Len(s) \in Nat \ {0} /\ DOMAIN s = 1..Len(s)
      /\ Tail(s) \in Seq(Request) /\ Len(Tail(s)) = Len(s) - 1
      /\ \A i \in 1..(Len(s) - 1) : Tail(s)[i] = s[i + 1]
  BY <1>2, HeadTailProperties, LenProperties
<1> QED
  BY <1>2, <1>3, LenProperties

\* What was sent is not taken back.
LEMMA ReachedStays ==
    ASSUME online' \subseteq online,
           \A v \in online', m \in Request : m.sound /\ UnderWay(v, m) => UnderWay(v, m)'
    PROVE  \A u \in User, m \in Request, n \in Nat : Reached(u, m, n) => Reached(u, m, n)'
  BY DEF Reached, Receiver

\* A step that leaves the server's threads alone ...
LEMMA ReachKept ==
    ASSUME ReachInv, UNCHANGED serverVars, online' \subseteq online,
           \A v \in online', m \in Request : m.sound /\ UnderWay(v, m) => UnderWay(v, m)'
    PROVE  ReachInv'
<1>1. todo' = todo /\ stage' = stage /\ next' = next /\ told' = told
  BY DEF serverVars
<1>2. \A u \in User, m \in Request, n \in Nat : Reached(u, m, n) => Reached(u, m, n)'
  BY ReachedStays
<1>3. \A u \in User : \A j \in DOMAIN Requests[u] : Requests[u][j] \in Request
  BY DEF Request
<1>4. \A u \in User, m \in Request :
         todo'[u] # <<>> /\ Head(todo'[u]) = m /\ stage'[u] = "sending" =>
             \A n \in 1..(next'[u] - 1) : Reached(u, m, n)'
  BY <1>1, <1>2 DEF ReachInv
<1>5. \A u \in User : \A j \in DOMAIN Requests[u] : told'[Requests[u][j]] = "success" =>
         \A n \in 1..Packets(Requests[u][j]) : Reached(u, Requests[u][j], n)'
  BY <1>1, <1>2, <1>3 DEF ReachInv
<1>6. (\E Told : told' \in [Request -> Told])
      /\ \A u \in User : \A i \in DOMAIN todo'[u] :
             /\ \E j \in DOMAIN Requests[u] : todo'[u][i] = Requests[u][j]
             /\ told'[todo'[u][i]] = "nothing"
  BY <1>1 DEF ReachInv
<1> QED
  BY <1>4, <1>5, <1>6 DEF ReachInv

LEMMA InitReach == Init => ReachInv
<1> SUFFICES ASSUME Init PROVE ReachInv
  OBVIOUS
<1>1. told = [m \in Request |-> "nothing"] /\ todo = Requests
      /\ stage = [u \in User |-> "idle"]
  BY DEF Init
<1>2. \E Told : told \in [Request -> Told]
  <2>1. told \in [Request -> {"nothing"}]
    BY <1>1
  <2> QED
    BY <2>1
<1>3. \A u \in User : \A i \in DOMAIN todo[u] : todo[u][i] \in Request
  BY <1>1 DEF Request
<1>4. \A u \in User : \A j \in DOMAIN Requests[u] : told[Requests[u][j]] # "success"
  BY <1>1, <1>3
<1> QED
  BY <1>1, <1>2, <1>3, <1>4 DEF ReachInv

\* A thread that is done with its request, having sent all of it if it says so.
LEMMA ReturnReach ==
    ASSUME Inv, OnceInv, KeptInv, ReachInv, NEW u \in User, todo[u] # <<>>, NEW result, Return(u, result),
           UNCHANGED <<online, wire, clientVars>>,
           result = "success" => stage[u] = "sending" /\ next[u] > Packets(Req(u))
    PROVE  ReachInv'
<1>1. ServerInv /\ TodoInv
  BY DEF Inv, OnceInv
<1>2. PICK m \in Request : m = Head(todo[u]) /\ m = todo[u][1]
  BY <1>1, FirstIs
<1>3. /\ told' = [told EXCEPT ![m] = result] /\ todo' = [todo EXCEPT ![u] = Tail(@)]
      /\ stage' = [stage EXCEPT ![u] = "idle"] /\ next' = [next EXCEPT ![u] = 1]
  BY <1>2 DEF Return, Req
<1>4. PICK Told : told \in [Request -> Told]
  BY DEF ReachInv
<1>5. \A l \in Request : told'[l] = IF l = m THEN result ELSE told[l]
  BY <1>3, <1>4
<1>6. \E S : told' \in [Request -> S]
  <2>1. told' \in [Request -> Told \union {result}]
    BY <1>3, <1>4
  <2> QED
    BY <2>1
<1>7. \A w \in User, l \in Request, n \in Nat : Reached(w, l, n)' = Reached(w, l, n)
  <2>1. \A w \in User, l \in Request : UnderWay(w, l)' = UnderWay(w, l)
    <3>1. \A w \in User, l \in Request, c \in Nat : Has(w, l, c)' = Has(w, l, c)
      BY ClientsSame
    <3> QED
      BY <3>1 DEF clientVars, UnderWay, Handed, Showing, Posted, Shown
  <2>2. online' = online /\ online \subseteq User
    BY DEF KeptInv, TrackInv
  <2> QED
    BY <2>1, <2>2 DEF Reached, Receiver
<1>8. \A w \in User : todo'[w] = IF w = u THEN Tail(todo[u]) ELSE todo[w]
  BY <1>1, <1>3 DEF ServerInv
<1>9. ASSUME NEW w \in User, NEW i \in DOMAIN todo'[w]
      PROVE  \E k \in DOMAIN todo[w] : todo'[w][i] = todo[w][k] /\ (w = u => k # 1)
  <2>1. CASE w = u
    <3>1. todo'[w] = Tail(todo[u]) /\ i \in DOMAIN Tail(todo[u])
      BY <1>8, <1>9, <2>1
    <3>2. Tail(todo[u])[i] = todo[u][i + 1] /\ i + 1 \in DOMAIN todo[u] /\ i + 1 # 1
      BY <1>1, <3>1, FirstIs
    <3> QED
      BY <2>1, <3>1, <3>2
  <2>2. CASE w # u
    BY <1>8, <1>9, <2>2
  <2> QED
    BY <2>1, <2>2
<1>10. ASSUME NEW w \in User, NEW i \in DOMAIN todo'[w]
       PROVE  /\ \E j \in DOMAIN Requests[w] : todo'[w][i] = Requests[w][j]
              /\ told'[todo'[w][i]] = "nothing"
  <2>1. PICK k \in DOMAIN todo[w] : todo'[w][i] = todo[w][k] /\ (w = u => k # 1)
    BY <1>9
  <2>2. PICK j \in DOMAIN Requests[w] : todo[w][k] = Requests[w][j]
    BY DEF ReachInv
  <2>3. told[todo[w][k]] = "nothing"
    BY DEF ReachInv
  <2>4. todo[w][k] # m
    BY <1>1, <1>2, <2>1, FirstIs DEF TodoInv
  <2>5. todo[w][k] \in Request
    BY <2>2 DEF Request
  <2> QED
    BY <1>5, <2>1, <2>2, <2>3, <2>4, <2>5
<1>11. ASSUME NEW w \in User, NEW l \in Request,
              todo'[w] # <<>>, Head(todo'[w]) = l, stage'[w] = "sending", NEW n \in 1..(next'[w] - 1)
       PROVE  Reached(w, l, n)'
  <2>1. w # u => todo'[w] = todo[w] /\ stage'[w] = stage[w] /\ next'[w] = next[w]
    BY <1>3, <1>8
  <2>2. CASE w = u
    <3>1. next'[u] = 1
      BY <1>1, <1>3 DEF ServerInv
    <3> QED
      BY <1>11, <2>2, <3>1
  <2>3. CASE w # u
    BY <1>7, <1>11, <2>1, <2>3 DEF ReachInv
  <2> QED
    BY <2>2, <2>3
<1>12. ASSUME NEW w \in User, NEW j \in DOMAIN Requests[w], told'[Requests[w][j]] = "success",
              NEW n \in 1..Packets(Requests[w][j])
       PROVE  Reached(w, Requests[w][j], n)'
  <2>1. Requests[w][j] \in Request
    BY DEF Request
  <2>2. CASE Requests[w][j] # m
    BY <1>5, <1>7, <1>12, <2>1, <2>2 DEF ReachInv
  <2>3. CASE Requests[w][j] = m
    <3>1. result = "success" /\ stage[u] = "sending" /\ next[u] > Packets(m)
      BY <1>2, <1>5, <1>12, <2>1, <2>3 DEF Req
    <3>2. next[u] \in Nat /\ n \in 1..(next[u] - 1)
      <4>1. next[u] \in Nat /\ Packets(m) \in Nat
        <5>1. m.size \in Nat /\ Len(m.to) \in Nat
          BY RequestType, LenProperties
        <5> QED
          BY <1>1, <5>1 DEF ServerInv, Packets
      <4> QED
        BY <1>12, <2>3, <3>1, <4>1
    <3>3. w = u
      <4>1. PICK i \in DOMAIN Requests[u] : m = Requests[u][i]
        BY <1>1, <1>2, FirstIs DEF ReachInv
      <4> QED
        BY <2>3, <4>1, OnceAssumption
    <3>4. Reached(u, m, n)
      BY <1>2, <3>1, <3>2 DEF ReachInv
    <3> QED
      BY <1>7, <2>3, <3>3, <3>4
  <2> QED
    BY <2>2, <2>3
<1> QED
  BY <1>6, <1>10, <1>11, <1>12 DEF ReachInv
\* Any step of a server's thread but SendNext.
LEMMA QuietReach ==
    ASSUME Inv, OnceInv, KeptInv, ReachInv, NEW u \in User,
           SaveFile(u) \/ FindFriend(u) \/ FindGroup(u) \/ Reply(u)
    PROVE  ReachInv'
<1>1. todo[u] # <<>> /\ UNCHANGED <<online, wire, clientVars>>
  BY DEF SaveFile, FindFriend, FindGroup, Reply, Now
<1>2. \/ \E result \in {"save_failed", "offline", "nothing"} : Return(u, result)
      \/ Return(u, "success") /\ stage[u] = "sending" /\ next[u] > Packets(Req(u))
      \/ \E at \in {"saved", "sending"} : To(u, at) /\ next[u] = 1
  BY DEF SaveFile, FindFriend, FindGroup, Reply, Now, OnceInv, TodoInv
<1>3. CASE \E result \in {"save_failed", "offline", "nothing"} : Return(u, result)
  BY <1>1, <1>3, ReturnReach
<1>4. CASE Return(u, "success") /\ stage[u] = "sending" /\ next[u] > Packets(Req(u))
  BY <1>1, <1>4, ReturnReach
<1>5. CASE \E at \in {"saved", "sending"} : To(u, at) /\ next[u] = 1
  <2>1. /\ todo' = todo /\ next' = next /\ told' = told /\ next[u] = 1
        /\ \E at \in {"saved", "sending"} : stage' = [stage EXCEPT ![u] = at]
    BY <1>5 DEF To
  <2>2. /\ online' = online
        /\ \A w \in User, l \in Request : UnderWay(w, l)' = UnderWay(w, l)
    <3>1. \A w \in User, l \in Request, c \in Nat : Has(w, l, c)' = Has(w, l, c)
      BY <1>1, ClientsSame
    <3> QED
      BY <1>1, <3>1 DEF clientVars, UnderWay, Handed, Showing, Posted, Shown
  <2>3. \A w \in User, l \in Request, n \in Nat : Reached(w, l, n) => Reached(w, l, n)'
    <3>1. online \subseteq User
      BY DEF KeptInv, TrackInv
    <3> QED
      BY <2>2, <3>1, ReachedStays
  <2>4. ASSUME NEW w \in User, NEW l \in Request,
               todo'[w] # <<>>, Head(todo'[w]) = l, stage'[w] = "sending", NEW n \in 1..(next'[w] - 1)
        PROVE  Reached(w, l, n)'
    <3>1. w # u
      BY <2>1, <2>4
    <3>2. stage[w] = "sending" /\ n \in 1..(next[w] - 1) /\ n \in Nat
      BY <2>1, <2>4, <3>1 DEF KeptInv, TrackInv
    <3>3. Reached(w, l, n)
      BY <2>1, <2>4, <3>2 DEF ReachInv
    <3> QED
      BY <2>3, <3>2, <3>3
  <2>5. ASSUME NEW w \in User, NEW j \in DOMAIN Requests[w], told'[Requests[w][j]] = "success",
               NEW n \in 1..Packets(Requests[w][j])
        PROVE  Reached(w, Requests[w][j], n)'
    <3>1. Requests[w][j] \in Request /\ n \in Nat
      BY DEF Request
    <3>2. Reached(w, Requests[w][j], n)
      BY <2>1, <2>5 DEF ReachInv
    <3> QED
      BY <2>3, <3>1, <3>2
  <2>6. (\E Told : told' \in [Request -> Told])
        /\ \A w \in User : \A i \in DOMAIN todo'[w] :
               /\ \E j \in DOMAIN Requests[w] : todo'[w][i] = Requests[w][j]
               /\ told'[todo'[w][i]] = "nothing"
    BY <2>1 DEF ReachInv
  <2> QED
    BY <2>4, <2>5, <2>6 DEF ReachInv
<1> QED
  BY <1>2, <1>3, <1>4, <1>5

\* What a sequence has stays where it is when something is appended.
LEMMA AppendedTo ==
    ASSUME NEW S, NEW s \in Seq(S), NEW e, NEW r, r = Append(s, e)
    PROVE  /\ \A i \in DOMAIN s : i \in DOMAIN r /\ r[i] = s[i]
           /\ \E i \in DOMAIN r : r[i] = e
<1>1. PICK T : T = S \union {e}
  OBVIOUS
<1>2. PICK n \in Nat : n = Len(s) /\ DOMAIN s = 1..n
  BY LenProperties
<1>3. s \in Seq(T) /\ e \in T
  BY <1>1, <1>2, SeqDef
<1>4. DOMAIN r = 1..(n + 1) /\ r[n + 1] = e /\ \A i \in 1..n : r[i] = s[i]
  BY <1>2, <1>3, AppendProperties, LenProperties
<1> QED
  BY <1>2, <1>4

\* What is sent to somebody who is there is on its way.
LEMMA SendReach ==
    ASSUME Inv, OnceInv, KeptInv, ReachInv, NEW u \in User, SendNext(u)
    PROVE  ReachInv'
<1>1. ServerInv /\ WireInv /\ TodoInv /\ online \subseteq User
  BY DEF Inv, OnceInv, KeptInv, TrackInv
<1>2. PICK m \in Request : m = Req(u)
  BY <1>1, FirstIs DEF SendNext, Now, Req
<1>3. PICK k \in Nat : k = next[u]
  BY <1>1 DEF ServerInv
<1>4. PICK v : v = Receiver(m, k)
  OBVIOUS
<1>6. PICK e : e = [of |-> m, nr |-> k]
  OBVIOUS
<1>7. e.of = m /\ e.nr = k
  BY <1>6
<1>8. /\ todo' = todo /\ stage' = stage /\ told' = told /\ online' = online /\ UNCHANGED clientVars
      /\ next' = [next EXCEPT ![u] = k + 1]
      /\ \/ wire' = wire /\ (v \notin online \/ (m.group /\ v = u))
         \/ v \in online /\ wire' = [wire EXCEPT ![v] = Append(@, e)]
  BY <1>2, <1>3, <1>4, <1>6 DEF SendNext, Write, Receiver
<1>9. \A w \in User, l \in Request : UnderWay(w, l) => UnderWay(w, l)'
  <2>1. \A w \in User : \A i \in DOMAIN wire[w] : i \in DOMAIN wire'[w] /\ wire'[w][i] = wire[w][i]
    <3> SUFFICES ASSUME NEW w \in User, NEW i \in DOMAIN wire[w]
                 PROVE  i \in DOMAIN wire'[w] /\ wire'[w][i] = wire[w][i]
      OBVIOUS
    <3>1. wire[w] \in Seq(GoodPacket) /\ wire \in [User -> Seq(GoodPacket)]
      BY <1>1 DEF WireInv
    <3>2. wire'[w] = wire[w] \/ wire'[w] = Append(wire[w], e)
      BY <1>8, <3>1
    <3> QED
      BY <3>1, <3>2, AppendedTo
  <2>2. \A w \in User, l \in Request, n \in Nat : Has(w, l, n) => Has(w, l, n)'
    BY <1>8, <2>1 DEF Has, OnWire, InStore, InParts, clientVars
  <2> QED
    BY <1>8, <2>2 DEF UnderWay, Handed, Showing, Posted, Shown, clientVars
<1>10. \A w \in User, l \in Request, n \in Nat : Reached(w, l, n) => Reached(w, l, n)'
  BY <1>1, <1>8, <1>9, ReachedStays
<1>11. Reached(u, m, k)'
  <2>1. CASE wire' = wire /\ (v \notin online \/ (m.group /\ v = u))
    BY <1>4, <1>8, <2>1 DEF Reached, Receiver
  <2>2. CASE v \in online /\ wire' = [wire EXCEPT ![v] = Append(@, e)]
    <3>1. PICK old \in Seq(GoodPacket) : old = wire[v]
      BY <1>1, <2>2 DEF WireInv
    <3>2. wire'[v] = Append(old, e)
      BY <1>1, <2>2, <3>1 DEF WireInv
    <3>3. \E i \in DOMAIN wire'[v] : wire'[v][i] = e
      BY <3>1, <3>2, AppendedTo
    <3>4. OnWire(v, m, k)'
      BY <1>7, <3>3 DEF OnWire
    <3>5. UnderWay(v, m)'
      BY <3>4 DEF UnderWay, Has
    <3> QED
      BY <1>4, <3>5 DEF Reached, Receiver
  <2> QED
    BY <1>8, <2>1, <2>2
<1>12. ASSUME NEW w \in User, NEW l \in Request,
              todo'[w] # <<>>, Head(todo'[w]) = l, stage'[w] = "sending", NEW n \in 1..(next'[w] - 1)
       PROVE  Reached(w, l, n)'
  <2>1. n \in Nat
    OBVIOUS
  <2>2. n \in 1..(next[w] - 1) \/ (w = u /\ n = k)
    BY <1>1, <1>3, <1>8, <1>12 DEF ServerInv
  <2>3. w = u => l = m
    BY <1>2, <1>8, <1>12 DEF Req
  <2>4. n \in 1..(next[w] - 1) => Reached(w, l, n)
    BY <1>8, <1>12 DEF ReachInv
  <2> QED
    BY <1>10, <1>11, <2>1, <2>2, <2>3, <2>4
<1>13. ASSUME NEW w \in User, NEW j \in DOMAIN Requests[w], told'[Requests[w][j]] = "success",
              NEW n \in 1..Packets(Requests[w][j])
       PROVE  Reached(w, Requests[w][j], n)'
  <2>1. Requests[w][j] \in Request /\ n \in Nat
    BY DEF Request
  <2>2. Reached(w, Requests[w][j], n)
    BY <1>8, <1>13 DEF ReachInv
  <2> QED
    BY <1>10, <2>1, <2>2
<1>14. (\E Told : told' \in [Request -> Told])
       /\ \A w \in User : \A i \in DOMAIN todo'[w] :
              /\ \E j \in DOMAIN Requests[w] : todo'[w][i] = Requests[w][j]
              /\ told'[todo'[w][i]] = "nothing"
  <2>1. todo' = todo /\ told' = told
    BY <1>8
  <2> QED
    BY <2>1 DEF ReachInv
<1> QED
  BY <1>12, <1>13, <1>14 DEF ReachInv

\* A packet becomes a task, or a file that is shown.
LEMMA ReceiveReach ==
    ASSUME Inv, OnceInv, KeptInv, ReachInv, NEW v \in User, Receive(v)
    PROVE  ReachInv'
<1>1. WireInv /\ PoolInv /\ DoneInv /\ PlaceInv /\ KindInv /\ online \subseteq User
  BY DEF Inv, OnceInv, KeptInv, TrackInv
<1>2. PICK p \in GoodPacket : p = Head(wire[v])
  BY <1>1, HeadTailProperties DEF WireInv, Receive
<1>3. PICK m \in Request, c \in Nat : m = p.of /\ c = p.nr
  BY DEF GoodPacket
<1>4. Takes(v, m, c)
  BY <1>2, <1>3 DEF Receive, Takes
<1>5. PICK d : d = [of |-> m, nr |-> c, pieces |-> Whole(m)]
  OBVIOUS
<1>6. d.of = m /\ d.nr = c
  BY <1>5
<1>7. /\ UNCHANGED serverVars /\ online' = online /\ parts' = parts /\ posted' = posted
      /\ m.picture => /\ shown' = shown /\ unsaved' = unsaved
                      /\ pool' = [pool EXCEPT ![v] = @ \union
                             {IF Chunked(m) THEN Task(p, "store", {}) ELSE Task(p, "show", Whole(m))}]
      /\ ~m.picture => /\ pool' = pool
                       /\ \/ shown' = [shown EXCEPT ![v] = Append(@, d)] /\ unsaved' = unsaved
                          \/ shown' = shown /\ Drop(v, m)
  BY <1>2, <1>3, <1>5 DEF Receive
<1>13. /\ \A w \in User : unsaved[w] \subseteq unsaved'[w]
       /\ Drop(v, m) /\ m.sound => m \in unsaved'[v]
  BY <1>1, <1>7 DEF Drop, DoneInv
<1>8. \A w \in User, l \in Request, k \in Nat :
         OnWire(w, l, k) => OnWire(w, l, k)' \/ (w = v /\ l = m /\ k = c)
  BY <1>1, <1>3, <1>4, TakePacket
<1>9. \A w \in User : pool[w] \subseteq pool'[w]
  BY <1>1, <1>7 DEF PoolInv
<1>10. \A w \in User, l \in Request, k \in Nat : Shown(w, l, k) => Shown(w, l, k)'
  <2> SUFFICES ASSUME NEW w \in User, NEW l \in Request, NEW k \in Nat,
                      NEW i \in DOMAIN shown[w], shown[w][i].of = l, shown[w][i].nr = k
               PROVE  Shown(w, l, k)'
    BY DEF Shown
  <2>1. shown[w] \in Seq(GoodDone) /\ shown \in [User -> Seq(GoodDone)]
    BY <1>1 DEF DoneInv
  <2>2. shown'[w] = shown[w] \/ shown'[w] = Append(shown[w], d)
    BY <1>7, <2>1
  <2>3. i \in DOMAIN shown'[w] /\ shown'[w][i] = shown[w][i]
    BY <2>1, <2>2, AppendedTo
  <2> QED
    BY <2>3 DEF Shown
<1>11. m.sound => UnderWay(v, m)'
  <2>1. CASE m.picture /\ ~Chunked(m)
    <3>1. PICK t : t = Task(p, "show", Whole(m))
      OBVIOUS
    <3>2. t.at = "show" /\ t.of = m /\ t.nr = c
      BY <1>3, <3>1 DEF Task
    <3>3. t \in pool'[v]
      BY <1>1, <1>7, <2>1, <3>1 DEF PoolInv
    <3> QED
      BY <3>2, <3>3 DEF UnderWay, Handed, Showing
  <2>2. CASE m.picture /\ Chunked(m)
    <3>1. PICK t : t = Task(p, "store", {})
      OBVIOUS
    <3>2. t.at = "store" /\ t.of = m /\ t.nr = c
      BY <1>3, <3>1 DEF Task
    <3>3. t \in pool'[v]
      BY <1>1, <1>7, <2>2, <3>1 DEF PoolInv
    <3> QED
      BY <3>2, <3>3 DEF UnderWay, Has, InStore
  <2>3. CASE shown' = [shown EXCEPT ![v] = Append(@, d)]
    <3>1. PICK old \in Seq(GoodDone) : old = shown[v]
      BY <1>1 DEF DoneInv
    <3>2. PICK r : r = shown'[v]
      OBVIOUS
    <3>3. r = Append(old, d)
      BY <1>1, <2>3, <3>1, <3>2 DEF DoneInv
    <3>4. \E i \in DOMAIN r : r[i] = d
      BY <3>3, AppendedTo
    <3> QED
      BY <1>6, <3>2, <3>4 DEF UnderWay, Handed, Shown
  <2>4. Drop(v, m) /\ m.sound => UnderWay(v, m)'
    BY <1>13 DEF UnderWay
  <2> QED
    BY <1>7, <2>1, <2>2, <2>3, <2>4
<1>12. \A w \in online', l \in Request : l.sound /\ UnderWay(w, l) => UnderWay(w, l)'
  <2> SUFFICES ASSUME NEW w \in online', NEW l \in Request, l.sound, UnderWay(w, l)
               PROVE  UnderWay(w, l)'
    OBVIOUS
  <2>1. w \in User
    BY <1>1, <1>7
  <2>2. \A k \in Nat : Handed(w, l, k) => Handed(w, l, k)'
    BY <1>7, <1>9, <1>10, <2>1 DEF Handed, Showing, Posted
  <2>4. l \in unsaved[w] => l \in unsaved'[w]
    BY <1>13, <2>1
  <2>3. ASSUME NEW k \in Nat, Has(w, l, k) PROVE UnderWay(w, l)'
    <3>1. InStore(w, l, k) => InStore(w, l, k)'
      BY <1>9, <2>1 DEF InStore
    <3>2. InParts(w, l, k) => InParts(w, l, k)'
      BY <1>7 DEF InParts
    <3>3. Has(w, l, k)' \/ (w = v /\ l = m)
      BY <1>8, <2>1, <2>3, <3>1, <3>2 DEF Has
    <3> QED
      BY <1>11, <3>3 DEF UnderWay
  <2> QED
    BY <2>2, <2>3, <2>4 DEF UnderWay
<1> QED
  BY <1>7, <1>12, ReachKept
\* A chunk is stored, put together with the others, or found not to be the last.
LEMMA ChunkReach ==
    ASSUME Inv, OnceInv, KeptInv, ReachInv, NEW v \in User, NEW t \in pool[v],
           StoreChunk(v, t) \/ Assemble(v, t) \/ NotYet(v, t)
    PROVE  ReachInv'
<1>1. PoolInv /\ online \subseteq User /\ t.of \in Request
  BY DEF Inv, PoolInv, GoodTask, KeptInv, TrackInv
<1>2. UNCHANGED serverVars /\ online' = online /\ posted' = posted /\ shown' = shown /\ t.at # "show"
      /\ unsaved' = unsaved
  BY DEF StoreChunk, Assemble, NotYet
<1>3. \A w \in User : \A r \in pool[w] : r \in pool'[w] \/ (w = v /\ r = t)
  <2>1. \/ pool' = [pool EXCEPT ![v] = @ \ {t}]
        \/ \E s : pool' = [pool EXCEPT ![v] = (@ \ {t}) \union {s}]
    BY DEF StoreChunk, Assemble, NotYet, Becomes, Ends
  <2> QED
    BY <1>1, <2>1 DEF PoolInv
<1>4. \A w \in User, l \in Request, k \in Nat : Showing(w, l, k) => Showing(w, l, k)'
  BY <1>2, <1>3 DEF Showing
<1>5. \A w \in User, l \in Request, k \in Nat : Has(w, l, k) => Has(w, l, k)' \/ Showing(w, l, 0)'
  <2>1. CASE StoreChunk(v, t)
    BY <2>1, StoreOnce
  <2>2. CASE Assemble(v, t)
    <3>1. Showing(v, t.of, 0)'
      <4>1. PICK s : /\ s = [of |-> t.of, nr |-> 0, at |-> "show",
                             pieces |-> {[index |-> p.index, of |-> p.of] : p \in Stored(v, Key(t.of))}]
                     /\ pool' = [pool EXCEPT ![v] = (@ \ {t}) \union {s}]
        BY <2>2 DEF Assemble, Becomes
      <4>2. s.at = "show" /\ s.of = t.of /\ s.nr = 0
        BY <4>1
      <4>3. s \in pool'[v]
        BY <1>1, <4>1 DEF PoolInv
      <4> QED
        BY <4>2, <4>3 DEF Showing
    <3>2. \A w \in User, l \in Request, k \in Nat : ~(w = v /\ l = t.of) => (Has(w, l, k)' <=> Has(w, l, k))
      BY <2>2, AssembleOnce
    <3> QED
      BY <3>1, <3>2
  <2>3. CASE NotYet(v, t)
    <3>1. t.at # "store" /\ Ends(v, t) /\ UNCHANGED <<serverVars, wire, parts, shown>>
      BY <2>3 DEF NotYet
    <3> QED
      BY <3>1, TaskEnds
  <2> QED
    BY <2>1, <2>2, <2>3
<1>6. \A w \in online', l \in Request : l.sound /\ UnderWay(w, l) => UnderWay(w, l)'
  <2>1. \A w \in User, l \in Request, k \in Nat :
           Posted(w, l, k)' = Posted(w, l, k) /\ Shown(w, l, k)' = Shown(w, l, k)
    BY <1>2 DEF Posted, Shown
  <2>2. \A w \in User, l \in Request, k \in Nat : Handed(w, l, k) => Handed(w, l, k)'
    BY <1>4, <2>1 DEF Handed
  <2>3. \A w \in User, l \in Request, k \in Nat : Has(w, l, k) => Has(w, l, k)' \/ Handed(w, l, 0)'
    BY <1>5 DEF Handed
  <2> QED
    BY <1>1, <1>2, <2>2, <2>3 DEF UnderWay
<1> QED
  BY <1>2, <1>6, ReachKept

\* What is put together, and decodes, is handed to the main thread.
LEMMA ProcessReach ==
    ASSUME Inv, OnceInv, KeptInv, ReachInv, NEW v \in User, NEW t \in pool[v], Process(v, t)
    PROVE  ReachInv'
<1>1. PoolInv /\ DoneInv /\ online \subseteq User
  BY DEF Inv, KeptInv, TrackInv
<1>2. /\ UNCHANGED serverVars /\ online' = online /\ wire' = wire /\ parts' = parts /\ shown' = shown
      /\ t.at = "show" /\ Ends(v, t)
  BY DEF Process
<1>3. PICK m, c : m = t.of /\ c = t.nr
  OBVIOUS
<1>4. PICK d : d = [of |-> m, nr |-> c, pieces |-> t.pieces]
  OBVIOUS
<1>5. d.of = m /\ d.nr = c
  BY <1>4
<1>6. \/ posted' = [posted EXCEPT ![v] = Append(@, d)] /\ unsaved' = unsaved
      \/ posted' = posted /\ Drop(v, m)
  BY <1>3, <1>4 DEF Process
<1>14. /\ \A w \in User : unsaved[w] \subseteq unsaved'[w]
       /\ Drop(v, m) /\ m.sound => m \in unsaved'[v]
  BY <1>1, <1>6 DEF Drop, DoneInv
<1>7. \A w \in User : \A i \in DOMAIN posted[w] : i \in DOMAIN posted'[w] /\ posted'[w][i] = posted[w][i]
  <2> SUFFICES ASSUME NEW w \in User, NEW i \in DOMAIN posted[w]
               PROVE  i \in DOMAIN posted'[w] /\ posted'[w][i] = posted[w][i]
    OBVIOUS
  <2>1. PICK old \in Seq(GoodDone) : old = posted[w]
    BY <1>1 DEF DoneInv
  <2>2. posted'[w] = old \/ posted'[w] = Append(old, d)
    BY <1>1, <1>6, <2>1 DEF DoneInv
  <2> QED
    BY <2>1, <2>2, AppendedTo
<1>8. m.sound => Posted(v, m, c)' \/ m \in unsaved'[v]
  <2> SUFFICES ASSUME posted' = [posted EXCEPT ![v] = Append(@, d)] PROVE Posted(v, m, c)'
    BY <1>6, <1>14
  <2>1. PICK old \in Seq(GoodDone) : old = posted[v]
    BY <1>1 DEF DoneInv
  <2>2. posted'[v] = Append(old, d)
    BY <1>1, <2>1 DEF DoneInv
  <2>3. \E i \in DOMAIN posted'[v] : posted'[v][i] = d
    BY <2>1, <2>2, AppendedTo
  <2> QED
    BY <1>5, <2>3 DEF Posted
<1>9. \A w \in User : \A r \in pool[w] : r \in pool'[w] \/ (w = v /\ r = t)
  BY <1>1, <1>2 DEF PoolInv, Ends
<1>10. \A w \in User, l \in Request, k \in Nat : Has(w, l, k)' = Has(w, l, k)
  BY <1>2, TaskEnds
<1>11. \A w \in User, l \in Request, k \in Nat : l.sound /\ Showing(w, l, k) =>
           Showing(w, l, k)' \/ Posted(w, l, k)' \/ l \in unsaved'[w]
  BY <1>3, <1>8, <1>9 DEF Showing
<1>12. \A w \in User, l \in Request, k \in Nat :
           (Posted(w, l, k) => Posted(w, l, k)') /\ Shown(w, l, k)' = Shown(w, l, k)
  BY <1>2, <1>7 DEF Posted, Shown
<1>13. \A w \in online', l \in Request : l.sound /\ UnderWay(w, l) => UnderWay(w, l)'
  <2>1. \A w \in User, l \in Request, k \in Nat : l.sound /\ Handed(w, l, k) =>
           Handed(w, l, k)' \/ l \in unsaved'[w]
    BY <1>11, <1>12 DEF Handed
  <2> QED
    BY <1>1, <1>2, <1>10, <1>14, <2>1 DEF UnderWay
<1> QED
  BY <1>2, <1>13, ReachKept

\* ... which shows it.
LEMMA ImageReach ==
    ASSUME Inv, OnceInv, KeptInv, ReachInv, NEW v \in User, ImageProcessed(v)
    PROVE  ReachInv'
<1>1. DoneInv /\ online \subseteq User
  BY DEF Inv, KeptInv, TrackInv
<1>2. /\ UNCHANGED serverVars /\ online' = online /\ wire' = wire /\ parts' = parts /\ pool' = pool
      /\ unsaved' = unsaved /\ posted[v] # <<>> /\ posted' = [posted EXCEPT ![v] = Tail(@)]
      /\ shown' = [shown EXCEPT ![v] = Append(@, Head(posted[v]))]
  BY DEF ImageProcessed
<1>3. PICK q \in Seq(GoodDone) : q = posted[v] /\ q # <<>>
  BY <1>1, <1>2 DEF DoneInv
<1>4. PICK old \in Seq(GoodDone) : old = shown[v]
  BY <1>1 DEF DoneInv
<1>5. PICK d : d = Head(q) /\ d = q[1]
  BY <1>3
<1>6. /\ \A w \in User : w # v => posted'[w] = posted[w] /\ shown'[w] = shown[w]
      /\ posted'[v] = Tail(q) /\ shown'[v] = Append(old, d)
  BY <1>1, <1>2, <1>3, <1>4, <1>5 DEF DoneInv
<1>7. \A w \in User, l \in Request, k \in Nat : Shown(w, l, k) => Shown(w, l, k)'
  <2>1. \A i \in DOMAIN old : i \in DOMAIN shown'[v] /\ shown'[v][i] = old[i]
    BY <1>4, <1>6, AppendedTo
  <2> QED
    BY <1>4, <1>6, <2>1 DEF Shown
<1>8. \A w \in User, l \in Request, k \in Nat : Posted(w, l, k) => Posted(w, l, k)' \/ Shown(w, l, k)'
  <2> SUFFICES ASSUME NEW w \in User, NEW l \in Request, NEW k \in Nat,
                      NEW i \in DOMAIN posted[w], posted[w][i].of = l, posted[w][i].nr = k
               PROVE  Posted(w, l, k)' \/ Shown(w, l, k)'
    BY DEF Posted
  <2>1. CASE w # v
    BY <1>6, <2>1 DEF Posted
  <2>2. CASE w = v /\ i = 1
    <3>1. PICK r : r = shown'[v] /\ r = Append(old, d)
      BY <1>6
    <3>2. \E j \in DOMAIN r : r[j] = d
      BY <3>1, AppendedTo
    <3> QED
      BY <1>3, <1>5, <2>2, <3>1, <3>2 DEF Shown
  <2>3. CASE w = v /\ i # 1
    <3>1. PICK n \in Nat : n = Len(q) /\ DOMAIN q = 1..n
      BY <1>3, LenProperties
    <3>2. DOMAIN Tail(q) = 1..(n - 1) /\ \A j \in 1..(n - 1) : Tail(q)[j] = q[j + 1]
      BY <1>3, <3>1, HeadTailProperties, LenProperties
    <3>3. i - 1 \in 1..(n - 1) /\ i - 1 + 1 = i
      BY <1>3, <2>3, <3>1
    <3>4. i - 1 \in DOMAIN posted'[v] /\ posted'[v][i - 1].of = l /\ posted'[v][i - 1].nr = k
      BY <1>3, <1>6, <2>3, <3>2, <3>3
    <3> QED
      BY <2>3, <3>4 DEF Posted
  <2> QED
    BY <2>1, <2>2, <2>3
<1>9. \A w \in User, l \in Request : UnderWay(w, l) => UnderWay(w, l)'
  <2>1. \A w \in User, l \in Request, k \in Nat :
           Has(w, l, k)' = Has(w, l, k) /\ Showing(w, l, k)' = Showing(w, l, k)
    BY <1>2 DEF Showing, Has, OnWire, InStore, InParts
  <2>2. \A w \in User, l \in Request, k \in Nat : Handed(w, l, k) => Handed(w, l, k)'
    BY <1>7, <1>8, <2>1 DEF Handed
  <2> QED
    BY <1>2, <2>1, <2>2 DEF UnderWay
<1> QED
  BY <1>1, <1>2, <1>9, ReachKept

\* Who leaves is not waited for any more.
LEMMA LeavesReach ==
    ASSUME Inv, OnceInv, KeptInv, ReachInv, NEW u \in User, Leaves(u)
    PROVE  ReachInv'
<1>1. /\ online' = online \ {u} /\ UNCHANGED serverVars
      /\ pool' = pool /\ parts' = parts /\ posted' = posted /\ shown' = shown
      /\ unsaved' = unsaved /\ wire' = [wire EXCEPT ![u] = <<>>]
  BY DEF Leaves, clientVars
<1>2. \A w \in online' : w \in User /\ wire'[w] = wire[w]
  BY <1>1 DEF Inv, WireInv, KeptInv, TrackInv
<1>3. \A w \in online', l \in Request : UnderWay(w, l) => UnderWay(w, l)'
  BY <1>1, <1>2 DEF UnderWay, Handed, Showing, Posted, Shown, Has, OnWire, InStore, InParts
<1> QED
  BY <1>1, <1>3, ReachKept

\* One step per action.
LEMMA NextReach == Inv /\ OnceInv /\ KeptInv /\ ReachInv /\ [Next]_vars => ReachInv'
<1> SUFFICES ASSUME Inv, OnceInv, KeptInv, ReachInv, [Next]_vars PROVE ReachInv'
  OBVIOUS
<1>1. CASE UNCHANGED vars
  <2>1. UNCHANGED serverVars /\ online' = online
    BY <1>1 DEF vars
  <2>2. \A w \in online', l \in Request : UnderWay(w, l) => UnderWay(w, l)'
    BY <1>1 DEF vars, clientVars, UnderWay, Handed, Showing, Posted, Shown, Has, OnWire, InStore, InParts
  <2> QED
    BY <2>1, <2>2, ReachKept
<1>2. ASSUME NEW u \in User, ServerStep(u) PROVE ReachInv'
  BY <1>2, QuietReach, SendReach DEF ServerStep
<1>3. ASSUME NEW u \in User, MainThread(u) PROVE ReachInv'
  BY <1>3, ReceiveReach, ImageReach DEF MainThread
<1>4. ASSUME NEW u \in User, PoolStep(u) PROVE ReachInv'
  BY <1>4, ChunkReach, ProcessReach DEF PoolStep
<1> QED
  BY <1>1, <1>2, <1>3, <1>4, LeavesReach DEF Next

\* What u was told is a success has been shown to each receiver who is there,
\* is about to be, could not be saved by his client, or is with him or on its way
\* to him, chunk by chunk.
SuccessHolds == \A u \in User : \A j \in DOMAIN Requests[u] :
    LET m == Requests[u][j] IN
    told[m] = "success" /\ m.sound =>
        \A n \in 1..Packets(m) :
            LET v == Receiver(m, n) IN
            v \in online /\ ~(m.group /\ v = u) =>
                \/ m \in unsaved[v] \/ \E k \in Nat : Handed(v, m, k)
                \/ Chunked(m) /\ \A c \in 1..m.size : Has(v, m, c)
                \/ ~Chunked(m) /\ \E k \in Nat : OnWire(v, m, k)

\* "success" is never said in vain: nothing that was sent to somebody who is
\* still there, and whose client can save it, is missing a chunk or has been
\* dropped, whichever tasks overlap and whoever else has gone.  It is the safety
\* half of SuccessIsShown, and says it of the members of a group, too.
THEOREM SuccessIsMeant == Spec => []SuccessHolds
<1>1. Inv /\ OnceInv /\ KeptInv /\ ReachInv => SuccessHolds
  <2> SUFFICES ASSUME Inv, OnceInv, KeptInv, ReachInv, NEW u \in User, NEW j \in DOMAIN Requests[u],
                      NEW m, m = Requests[u][j], told[m] = "success", m.sound,
                      NEW n \in 1..Packets(m), NEW v, v = Receiver(m, n),
                      v \in online, ~(m.group /\ v = u),
                      ~(m \in unsaved[v] \/ \E k \in Nat : Handed(v, m, k))
               PROVE  \/ Chunked(m) /\ \A c \in 1..m.size : Has(v, m, c)
                      \/ ~Chunked(m) /\ \E k \in Nat : OnWire(v, m, k)
    BY DEF SuccessHolds
  <2>1. m \in Request /\ v \in User
    BY DEF Request, KeptInv, TrackInv
  <2>2. Reached(u, m, n)
    BY DEF ReachInv
  <2>3. PICK k \in Nat : Has(v, m, k)
    BY <2>2 DEF Reached, UnderWay
  <2>4. CASE Chunked(m)
    <3>1. Tracked(v, m)
      BY <2>1, <2>3, <2>4 DEF KeptInv, TrackInv
    <3>2. \A c : ~ToCome(v, m, c)
      BY DEF ToCome, ReachInv
    <3> QED
      BY <2>4, <3>1, <3>2 DEF Tracked
  <2>5. CASE ~Chunked(m)
    <3>1. ~InStore(v, m, k) /\ ~InParts(v, m, k)
      BY <2>1, <2>5 DEF OnceInv, KindInv, InStore, InParts
    <3>2. OnWire(v, m, k)
      BY <2>3, <3>1 DEF Has
    <3> QED
      BY <2>5, <3>2
  <2> QED
    BY <2>4, <2>5
<1> QED
  BY <1>1, InitInv, NextInv, InitOnce, NextOnce, InitKept, NextKept, InitReach, NextReach, PTL DEF Spec
=============================================================================
