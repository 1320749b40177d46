--------------------------- MODULE MediaTransfer ----------------------------
(***************************************************************************)
(* Pictures and files, from the server's threads to the recipient's page.  *)
(* A picture for a friend is cut into chunks, one packet each; a picture   *)
(* for a group and any file is one packet per recipient.  The client hands *)
(* every packet of a picture to its thread pool and goes on, so chunks are *)
(* stored and counted by tasks that overlap, under a lock that is released *)
(* between the two; the task that finds the last chunk there assembles.    *)
(*                                                                         *)
(* A connection that is lost does not come back: a client reconnects but   *)
(* does not log in again, and only who has logged in is in the online      *)
(* list.  m_fileTotalChunks is written and never read; it is left out.     *)
(*                                                                         *)
(* The cached list of a group may name a member twice, who then gets two   *)
(* packets: list_update_group_member_by_gid appends to it unchecked.       *)
(***************************************************************************)
EXTENDS Integers, Sequences, FiniteSets

CONSTANTS
    User,
    Requests   \* for each user the requests made, in order

Request == UNION {{Requests[u][i] : i \in DOMAIN Requests[u]} : u \in User}

\* size is the number of chunks the text of a picture comes to; sound, that it
\* is not empty and decodes; copy tells requests apart: its file id.
ASSUME RequestsAssumption ==
    /\ Requests \in [User -> Seq([copy : Nat, from : User, to : Seq(User),
                                  group : BOOLEAN, picture : BOOLEAN,
                                  size : Nat, sound : BOOLEAN])]
    /\ \A m \in Request : m.sound => m.size > 0
    /\ \A m1, m2 \in Request : m1.copy = m2.copy => m1 = m2

\* A file id is drawn for every picture and file that is sent.
ASSUME OnceAssumption ==
    \A u, w \in User : \A i \in DOMAIN Requests[u], j \in DOMAIN Requests[w] :
        Requests[u][i] = Requests[w][j] => u = w /\ i = j

VARIABLES
    todo,     \* requests of a user that its server thread has still to handle
    stage,    \* how far that thread is with the first of them
    next,     \* the chunk or the member it comes to next
    told,     \* what the sender was told
    online,   \* the users in the online list
    wire,     \* packets [of, nr] under way to a client, numbered from 1
    pool,     \* tasks [of, nr, at, pieces] of a client's thread pool
    files,    \* keys of m_fileChunks
    parts,    \* its chunks [key, index, of]
    posted,   \* pictures done, whose signal is queued for the main thread
    shown,    \* what was handed to loadCacheMsg
    unsaved,  \* ghost: what could not be written to the disk, and is not shown
    again     \* ghost: tasks that found no entry, and so made one

serverVars == <<todo, stage, next, told>>
clientVars == <<pool, files, parts, posted, shown, unsaved, again>>
vars == <<serverVars, online, wire, clientVars>>

\* A picture for a friend comes in chunks, all else in packets that are whole.
Chunked(m) == m.picture /\ ~m.group

\* A picture as it is assembled: which chunk of what came to which place; nr is
\* that of its packet, if it came whole.
Piece == [index : Nat, of : Request]
Done == [of : Request, nr : Nat, pieces : SUBSET Piece]
Whole(m) == {[index |-> i, of |-> m] : i \in 1..m.size}

TypeOK ==
    /\ todo \in [User -> Seq(Request)]
    /\ stage \in [User -> {"idle", "saved", "sending"}]
    /\ next \in [User -> Nat]
    /\ told \in [Request -> {"nothing", "save_failed", "offline", "success"}]
    /\ online \subseteq User
    /\ \A u \in User : wire[u] \in Seq([of : Request, nr : Nat])
    /\ \A u \in User : pool[u] \subseteq
          [of : Request, nr : Nat, at : {"store", "check", "show"}, pieces : SUBSET Piece]
    /\ \A u \in User : posted[u] \in Seq(Done) /\ shown[u] \in Seq(Done)
    /\ unsaved \in [User -> SUBSET Request]
    /\ \A u \in User : \A p \in parts[u] : p.key \in files[u]

Init ==
    /\ todo = Requests
    /\ stage = [u \in User |-> "idle"]
    /\ next = [u \in User |-> 1]
    /\ told = [m \in Request |-> "nothing"]
    /\ online = User
    /\ wire = [u \in User |-> <<>>]
    /\ pool = [u \in User |-> {}]
    /\ files = [u \in User |-> {}]
    /\ parts = [u \in User |-> {}]
    /\ posted = [u \in User |-> <<>>]
    /\ shown = [u \in User |-> <<>>]
    /\ unsaved = [u \in User |-> {}]
    /\ again = [u \in User |-> {}]

------------------------------------------------------------------------------
(* The server: one thread per user here, so that requests of two overlap.  *)

Now(u, at) == todo[u] # <<>> /\ stage[u] = at
Req(u) == Head(todo[u])

\* The handler returns, having told the sender how it went, or nothing.
Return(u, result) ==
    /\ told' = [told EXCEPT ![Req(u)] = result]
    /\ todo' = [todo EXCEPT ![u] = Tail(@)]
    /\ stage' = [stage EXCEPT ![u] = "idle"]
    /\ next' = [next EXCEPT ![u] = 1]

To(u, at) ==
    /\ stage' = [stage EXCEPT ![u] = at]
    /\ UNCHANGED <<todo, next, told>>

\* thread_save_file, for pictures only.
SaveFile(u) ==
    /\ Now(u, "idle")
    /\ \/ To(u, "saved")
       \/ Req(u).picture /\ Return(u, "save_failed")
    /\ UNCHANGED <<online, wire, clientVars>>

\* For a friend: list_friend_online.
FindFriend(u) ==
    /\ Now(u, "saved") /\ ~Req(u).group
    /\ IF Req(u).to[1] \in online THEN To(u, "sending") ELSE Return(u, "offline")
    /\ UNCHANGED <<online, wire, clientVars>>

\* For a group: the names, without which nothing is said, and the members.
FindGroup(u) ==
    /\ Now(u, "saved") /\ Req(u).group
    /\ To(u, "sending") \/ Return(u, "nothing")
    /\ UNCHANGED <<online, wire, clientVars>>

\* thread_write_data to a user who may have gone meanwhile.
Write(v, packet) ==
    wire' = IF v \in online THEN [wire EXCEPT ![v] = Append(@, packet)] ELSE wire

PacketsDown(m) ==   \* Mutant: the number of chunks is rounded down.
    IF m.group THEN Len(m.to) ELSE IF Chunked(m) THEN m.size - 1 ELSE 1

Packets(m) ==
    IF m.group THEN Len(m.to) ELSE IF Chunked(m) THEN m.size ELSE 1

Receiver(m, i) == IF m.group THEN m.to[i] ELSE m.to[1]

\* thread_send_chunked, the one write of a file, or one turn of the loop over
\* the members, the sender left out.
SendNext(u) ==
    LET m == Req(u) IN
    /\ Now(u, "sending") /\ next[u] <= Packets(m)
    /\ IF m.group /\ m.to[next[u]] = u
         THEN UNCHANGED wire
         ELSE Write(Receiver(m, next[u]), [of |-> m, nr |-> next[u]])
    /\ next' = [next EXCEPT ![u] = @ + 1]
    /\ UNCHANGED <<todo, stage, told, online, clientVars>>

Reply(u) ==
    /\ Now(u, "sending") /\ next[u] > Packets(Req(u))
    /\ Return(u, "success")
    /\ UNCHANGED <<online, wire, clientVars>>

Leaves(u) ==
    /\ u \in online
    /\ online' = online \ {u}
    /\ wire' = [wire EXCEPT ![u] = <<>>]
    /\ UNCHANGED <<serverVars, clientVars>>

------------------------------------------------------------------------------
(* The client.                                                             *)

Task(p, at, pieces) == [of |-> p.of, nr |-> p.nr, at |-> at, pieces |-> pieces]
Becomes(v, t, new) == pool' = [pool EXCEPT ![v] = (@ \ {t}) \union {new}]
Ends(v, t) == pool' = [pool EXCEPT ![v] = @ \ {t}]

\* m does not decode or cannot be saved: it is not handed on.
Drop(v, m) == unsaved' = [unsaved EXCEPT ![v] = @ \union {l \in {m} : l.sound}]

\* client_reply_info: a picture goes to the pool; a file is saved and shown, if
\* it can be opened for writing.
Receive(v) ==
    /\ wire[v] # <<>>
    /\ wire' = [wire EXCEPT ![v] = Tail(@)]
    /\ LET p == Head(wire[v]) IN
       IF p.of.picture
         THEN /\ pool' = [pool EXCEPT ![v] = @ \union
                   {IF Chunked(p.of) THEN Task(p, "store", {}) ELSE Task(p, "show", Whole(p.of))}]
              /\ UNCHANGED <<shown, unsaved>>
         ELSE /\ \/ /\ p.of.sound
                    /\ shown' = [shown EXCEPT ![v] =
                          Append(@, [of |-> p.of, nr |-> p.nr, pieces |-> Whole(p.of)])]
                    /\ UNCHANGED unsaved
                 \/ Drop(v, p.of) /\ UNCHANGED shown
              /\ UNCHANGED pool
    /\ UNCHANGED <<serverVars, online, files, parts, posted, again>>

\* handleFileChunk, first section: m_fileChunks[file_id][chunk_index].
OneKey(m) == 0   \* Mutant: one buffer for all pictures.
Key(m) == m.copy

StoreChunk(v, t) ==
    /\ t \in pool[v] /\ t.at = "store"
    /\ parts' = [parts EXCEPT ![v] =
          {p \in @ : p.key # Key(t.of) \/ p.index # t.nr} \union
              {[key |-> Key(t.of), index |-> t.nr, of |-> t.of]}]
    /\ files' = [files EXCEPT ![v] = @ \union {Key(t.of)}]
    /\ Becomes(v, t, Task(t, "check", {}))
    /\ UNCHANGED <<serverVars, online, wire, posted, shown, unsaved, again>>

Stored(v, k) == {p \in parts[v] : p.key = k}

KeepEntry(v, k) == UNCHANGED <<files, parts>>   \* Mutant: nothing is removed.
RemoveEntry(v, k) ==
    /\ files' = [files EXCEPT ![v] = @ \ {k}]
    /\ parts' = [parts EXCEPT ![v] = @ \ Stored(v, k)]

\* Second section: as many chunks as there are in all?
AllThere(k, m) == k = m.size

Assemble(v, t) ==
    LET k == Key(t.of) IN
    /\ t \in pool[v] /\ t.at = "check"
    /\ AllThere(Cardinality(Stored(v, k)), t.of)
    /\ RemoveEntry(v, k)
    /\ Becomes(v, t, [of |-> t.of, nr |-> 0, at |-> "show",
                      pieces |-> {[index |-> p.index, of |-> p.of] : p \in Stored(v, k)}])
    /\ UNCHANGED <<serverVars, online, wire, posted, shown, unsaved, again>>

\* Asking how many there are makes an entry where there is none.
NotYet(v, t) ==
    LET k == Key(t.of) IN
    /\ t \in pool[v] /\ t.at = "check"
    /\ ~AllThere(Cardinality(Stored(v, k)), t.of)
    /\ files' = [files EXCEPT ![v] = @ \union {k}]
    /\ again' = IF k \in files[v] THEN again ELSE [again EXCEPT ![v] = @ \union {k}]
    /\ Ends(v, t)
    /\ UNCHANGED <<serverVars, online, wire, parts, posted, shown, unsaved>>

\* processCompleteFile, or the task of a picture that came whole: it is decoded
\* and saved, and what could not be saved is not shown.
Process(v, t) ==
    /\ t \in pool[v] /\ t.at = "show"
    /\ \/ /\ t.of.sound
          /\ posted' = [posted EXCEPT ![v] =
                Append(@, [of |-> t.of, nr |-> t.nr, pieces |-> t.pieces])]
          /\ UNCHANGED unsaved
       \/ Drop(v, t.of) /\ UNCHANGED posted
    /\ Ends(v, t)
    /\ UNCHANGED <<serverVars, online, wire, files, parts, shown, again>>

\* onImageProcessed.
ImageProcessed(v) ==
    /\ posted[v] # <<>>
    /\ shown' = [shown EXCEPT ![v] = Append(@, Head(posted[v]))]
    /\ posted' = [posted EXCEPT ![v] = Tail(@)]
    /\ UNCHANGED <<serverVars, online, wire, pool, files, parts, unsaved, again>>

------------------------------------------------------------------------------
ServerStep(u) ==
    SaveFile(u) \/ FindFriend(u) \/ FindGroup(u) \/ SendNext(u) \/ Reply(u)

MainThread(v) == Receive(v) \/ ImageProcessed(v)

PoolStep(v) == \E t \in pool[v] :
    StoreChunk(v, t) \/ Assemble(v, t) \/ NotYet(v, t) \/ Process(v, t)

Next == \E u \in User : ServerStep(u) \/ MainThread(u) \/ PoolStep(u) \/ Leaves(u)

Spec == Init /\ [][Next]_vars

\* Threads go on, the pool runs every task, and the event loop all events.
FairSpec ==
    /\ Spec
    /\ \A u \in User : WF_vars(ServerStep(u))
    /\ \A u \in User : WF_vars(Receive(u)) /\ WF_vars(ImageProcessed(u))
    /\ \A u \in User : WF_vars(PoolStep(u))

------------------------------------------------------------------------------
\* What is shown was put together from all chunks of that one picture, each in
\* its place, however the tasks of several pictures overlapped.
ShownWhole ==
    \A u \in User : \A i \in DOMAIN shown[u] : shown[u][i].pieces = Whole(shown[u][i].of)

\* No picture and no file is shown more often than its recipient stands in the
\* list it was sent to: once to a friend, and once to a member who stands there
\* once.
Copies(v, m) == IF m.group THEN Cardinality({n \in DOMAIN m.to : m.to[n] = v}) ELSE 1

ShownOnce == \A u \in User, m \in Request :
    Cardinality({i \in DOMAIN shown[u] : shown[u][i].of = m}) <= Copies(u, m)

\* Chunks are kept only while a picture is under way, and an entry stays for
\* good only if its recipient has gone or a task found the picture already
\* assembled: then it is empty.
Busy(v, k) ==
    \/ \E u \in User : todo[u] # <<>> /\ Key(Req(u)) = k
    \/ \E t \in pool[v] : Key(t.of) = k
    \/ \E i \in DOMAIN wire[v] : Key(wire[v][i].of) = k

NothingKept == \A v \in online : \A k \in files[v] :
    Busy(v, k) \/ (k \in again[v] /\ Stored(v, k) = {})

\* A sender who is told "success" is right, in the end: what was sent to a
\* friend is shown, unless it does not decode, the friend has gone, or his client
\* could not save it.
SuccessIsShown == \A m \in Request :
    (~m.group /\ m.sound /\ told[m] = "success") ~>
        (m.to[1] \notin online \/ m \in unsaved[m.to[1]] \/ \E i \in DOMAIN shown[m.to[1]] : shown[m.to[1]][i].of = m)
=============================================================================
