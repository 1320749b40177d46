# TLA+ model of Chat-libevent

Chat-libevent is a chat system: a C++ server built on libevent and MySQL
(`chatServer/`) and a Qt client (`chatClient/`).  This directory holds TLA+
modules that model parts of it, TLC configurations that check them on small
instances, and TLAPS proofs about most of them.  `PROJECT.json` lists the
components, the runs, for each property a mutant of the model that breaks it,
the source lines each definition stands for, the hazards of the code and the
theorems.

## The system

**Server.**  `main` builds a `ChatServer`, which creates the tables, loads the
groups into memory and starts three `ChatThread`s.  Accepted connections
(bufferevents) are dealt to the threads in turn; a thread runs the callbacks of
its connections one at a time, so a handler runs to its end before the thread
does anything else, but handlers of different threads interleave.  All threads
share one `DataBase` and one `ChatInfo`.

| component | state | operations | interacts with |
|---|---|---|---|
| `DataBase` connection | `mysql`, one `unique_ptr<MYSQL>` for the whole process; `mutex_`, a shared mutex | `database_connect`, `database_disconnect`, queries (shared lock), `exec_update` (exclusive lock) | every handler opens, uses and closes it |
| group handlers | `chat_group.groupmember`, `chat_user.grouplist`, `ChatInfo::group_info` | `thread_create_group`, `thread_join_group`, `thread_group_chat`, `thread_image_group_chat`, `thread_transer_file`, `thread_query_group_by_gid`, loading at start | `DataBase`, `ChatInfo`, online list |
| connections and login | bufferevents, `ChatInfo::online_user`, `cur_thread` | accept, `thread_login`, `thread_private_chat`, `thread_client_offline`, `thread_event_cb` | `DataBase`; writes to connections of other threads |
| `SnowflakeIDGenerator` | last timestamp, sequence, a mutex | `generate_uid`, `generate_gid` | registration and group creation |
| registration and friends | `chat_user` rows, `friendlist` | `thread_register`, `thread_add_friend` | `DataBase`, online list |
| framing | the input buffer of a connection | `thread_read_cb`, `thread_read_data`, `thread_write_data` | all handlers |
| images and files | files under the storage path, chunks | `thread_image_private_chat`, `thread_send_chunked` | online list, client reassembly |

**Client.**  A Qt program with one event loop, one socket, a thread pool for
pictures and an SQLite file that outlives it.  The `Ela*` headers, and the two
long `Def.h` and `ElaDef.h` of icon names, are a third-party widget library.

| component | state | operations | interacts with |
|---|---|---|---|
| `ClientConServer` | the socket, `m_currentRetry`, `m_reconnectTimer` | connect, `handle_error`, the retry tick, `clinet_write_data`, reading packets | the sign-in button, `ClientRequestHandler` |
| `ClientRequestHandler` | `m_pendingRequests`, `m_timeoutTimer` | `addPendingRequest`, the replies, `checkTimeouts`, notifications turned into signals | every page |
| `DbCacheHelper`, `DatabaseManager`, the DAOs | the tables of users and groups | `getUserInfo`, `getGroupInfo`: from the table or from the server | `ClientRequestHandler` |
| `LandPage`, `RegisterPage` | the sign-in button | login and registration requests | `ClientConServer` |
| `ArchPage` and the contact page | `cache`, `pendingCallbacks`, the tree of contacts | filled after a login; groupings, drag and drop | `DbCacheHelper` |
| `MessagePage`, `ConversationPage` | cards, pages, tabs and where they are | a message that arrives, cards, tabs | `DbCacheHelper` |
| pictures and files on the client | `m_fileChunks`, the thread pool | `handle_image_chunk`, `processCompleteFile`, `onImageProcessed` | the server's `thread_send_chunked`, `MessagePage` |
| `LLMChatPage` | the reply, the label it is written to, what was read | send, `readyRead`, `finished`, clear | a language model over HTTP |
| `AddPage`, `NoticePage`, `UserPage`, `EditInfoPage` and others | what they show | searches, requests for friendship | `ClientRequestHandler` |

**What is hard here.**  Handlers on different threads share one database
connection, which each of them opens and closes; lists in the database are
read, changed in memory and written back without a transaction; the same
membership lives in three places; a pointer to a connection is used after the
lock it was found under; exceptions nothing catches end the process, which
comes back with what the tables hold; ids are cut to eight digits.  On the
client, replies race a timer that drops requests without a word to whoever
waits for them; two requests can draw one id; answers from the table overtake
those of the server; chunks of a picture are counted by tasks that overlap; a
stream is cut anywhere; and what a callback points to may be gone when it runs.

**What makes each part correct.**
- connection: no statement runs on a closed object, none leaks, outside its
  lock it looks atomic;
- groups: no member is lost or doubled, who is told "success" is in the group,
  the three places agree when nothing runs, a group one can find never kills
  the server, a restart brings the groups back;
- online list: it names exactly the connections of the users logged in, a
  message goes to an open connection of its addressee, who goes away is
  forgotten;
- ids: unique and increasing as far as the cut allows, every call returns;
- client connection and requests: trying to reconnect ends, the button comes
  back, the timer runs while anything is pending;
- cache and contacts: a stored name is the server's, the contact page is filled
  with every contact or not at all, and no answer leaves it waiting;
- messages: in order and once, none lost but by a dropped look-up, the page that
  is clicked comes to the front;
- pictures: whole, once, nothing kept, "success" means it arrives;
- language model: an answer is shown whole under its own question.

## Modules

| module | what it is |
|---|---|
| `DbSession` | the MySQL connection seen from outside its lock, and the life and death of the process; the handler modules extend it |
| `DatabaseCalls` | abstract: `DbSession` as a specification of calls that take effect at one moment |
| `MysqlHandle` | the same component at the grain of `mutex_`; refines `DatabaseCalls` |
| `MysqlHandleProofs` | theorems about `MysqlHandle` |
| `GroupDirectory` | abstract: what a directory of groups promises |
| `GroupService` | the group handlers; `group_info` and `chat_group` each refine `GroupDirectory` |
| `MCGroupService` | its instances for TLC |
| `GroupServiceProofs` | theorems about `GroupService` |
| `FriendService`, `MCFriendService` | registration and friends |
| `FriendServiceProofs` | theorems about `FriendService` |
| `OnlineUsers`, `MCOnlineUsers` | connections, login, the online list, forwarding |
| `OnlineUsersProofs` | theorems about `OnlineUsers` |
| `PacketQueue` | abstract: what one direction of a connection promises |
| `PacketFraming`, `MCPacketFraming` | length and text over a byte stream, both readers; refines `PacketQueue` |
| `SnowflakeId` | the id generator |
| `FoundationProofs` | theorems about what every request rests on, `SnowflakeId` and `PacketFraming` |
| `ClientLink` | the client's socket, retries and sign-in button |
| `ClientRequests` | pending requests, their ids and their timer; extends `ClientLink` |
| `ProfileCache` | look-ups through the tables; extends `ClientRequests` |
| `ContactLoading`, `MCContactLoading` | from the sign-in page to the filled contact page; composes the three with `ArchPage` |
| `MessagePage`, `MCMessagePage` | messages, cards and tabs; composes `ClientRequests` and `ProfileCache` with `MessagePage` |
| `ClientProofs` | theorems about both compositions |
| `MediaTransfer`, `MCMediaTransfer` | pictures and files from a server thread to the recipient's page |
| `MediaTransferProofs` | theorems about `MediaTransfer` |
| `LlmChat`, `LlmChatProofs` | the page of the language model and its theorems |

### DbSession, DatabaseCalls and MysqlHandle

`mysql` is the unique_ptr: an address or null in `MysqlHandle`, whether it holds
anything in `DbSession`.  Each critical section of `mutex_` is two actions in
`MysqlHandle` (lock and work, finish and unlock); the lock itself is the pair
`writer`, `readers`.  A statement on the null pointer ends the process
(`mysql_query` dereferences it).  `DatabaseCalls` remembers for each session
which connection its last statement ran on (`ranOn`) and lets it be only the one
held at the moment of the statement; `MysqlHandle` fills it in at the end of a
statement with the object it was begun on, so that an object closed or replaced
in between is no step of `DatabaseCalls`.  The rows a query returns are taken to
stay readable after `mysql_free_result`, as they do in practice.

### GroupService

A row of `chat_group` is its member list (`groupMember`), a row of `chat_user`
its grouplist (`groupList`), the map `groupInfo`.  One action is one critical
section of `DataBase` or `ChatInfo`; `pc` and `job` are a thread's place in its
handler and the handler's locals.  Any statement may fail (`Fault`, bounded);
the code's reaction (return, go on, answer) is modelled for each.  Text is
abstracted to one fact: `Within[u]`, the uids whose decimal text contains `u`'s,
which is what `std::string::find` on the joined list sees.  Requests come from
the clients as the Qt client sends them: a creation with the friends selected
(possibly none), joins, messages and queries.  They name any group that has a
row, for that is what a search finds, also while its creation is on the way from
the row to the map.  A push into a list the map does not have yet is lost:
`early` remembers whose.  `map::at` on a gid that is not in the map and `stoull`
on an empty member end the process; a restart loads the map from the table.
`apart` is a ghost: it stays true until two writing requests about one group or
one user overlap, a death cuts one off, or a uid is taken for another.

The statements are composed by `sprintf` in buffers of 256 characters
(data_base.cpp:478-513, 525-546, and 335-357 for friends), which long lists
overflow; the lists of the instances are short and the models have no such
limit.  `list_get_list_by_gid` returns a reference that its callers copy after
`map_mutex` is released (chat_info.cpp:217-221, chat_thread.cpp:759 and 827);
the look-up and the copy are one step here.

### FriendService

A row of `chat_user` is its `username` (`userName`, `NoName` where there is no
row) and its `friendlist`.  The two columns of a friendship are brought up to
date one after the other (`job.owner` says whose turn it is), each by a read and
a write in separate locked sections, and the code goes on to the second and to
the answer "success" whatever becomes of the first: so does the model.
A registration inserts a row under a generated uid and then asks for the uid of
the *name*; the check that the name is free is commented out in the code, so any
number of users may take one name, and a registration may be told an older
namesake's uid.  `apart` is a ghost:
it stays true until two requests for friendship that share a user overlap, a
statement fails or the process dies, and the properties that need such quiet
say so.

### OnlineUsers

`open` are the bufferevents that exist, `owner` the thread of each, `user` the
uid the client was told it is logged in as, `online` the list.  A message is a
look-up under the lock (`Seek`) and a write after it (`Send`).  Freed addresses
are reused by `Accept`.  A user may log in as often as he likes, over one
connection or several; nothing in the code prevents it.  With two entries of one
user `list_delete_user`, which goes by the uid, may take the wrong one when he
goes offline, and a connection that is logged in over twice has two entries of
which `list_delete_user_by_bev` takes one: `single` is a ghost that stays true
until one of the two happens.  `apart` is a ghost that stays true until a
connection is freed while a handler has looked it up and not yet written to it:
from then on the address may serve another connection, and the message goes
there, or is written to freed memory.

### PacketFraming

One direction of one connection.  The stream is a count of bytes written,
arrived and taken, and each packet knows its position (`at`), so that a reader
that has lost step simply stands where no packet begins; what it then reads as
a length is any member of `Misread`.  `Arrive` brings some more bytes and starts
the read callback; each turn of its loop is `Wait`, `HandOver`, `Discard` or
`Reject`.  The two readers differ in two places: after a text that does not
parse the server's callback returns and the client's goes on, and a length out
of range is left in the buffer by the server (where it stays for as long as the
connection lasts) and skipped by the client, which then reads text as lengths.
Sizes out of range come from the clients, which do not limit pictures and files,
and texts that do not parse from strings Qt accepts and jsoncpp does not.

### SnowflakeId

A stamp is the pair of timestamp and sequence an id is made from, an id is its
remainder (`Id`).  One action is the whole of `generate_id` unless it has to
wait; then the mutex is kept through `wait`, `reread`.  `issued` remembers all
stamps over all processes.  The constants are scaled down for TLC: two sequence
numbers to a millisecond, four id units to a millisecond, ids modulo 13.  For
the code's constants (2^22, 4096, 10^8) the largest `Window` that meets
`WindowAssumption` is 5125 milliseconds.

### ClientLink, ClientRequests and ProfileCache

`ClientLink` is the state of the socket.  `handle_error` is `Fails`: after some
errors the retry timer goes on, after the others it is stopped and the button
frozen.  A tick that finds the socket in use calls `abort()`, which is the C
function: the process ends and may be launched again (`Launch`).

`ClientRequests` has the map of pending requests as a set of entries with an id
and what is to be done with the answer.  An id is milliseconds and a random
number, so that two requests made close together can draw the same one; it is
modelled by the number of the first request that drew it, and `clash` remembers
that it happened.  Of two entries with one id the second replaces the first.
Time is abstracted to what the timer can tell: it fires every five seconds and
drops entries older than ten, so an entry it finds for the first time (`seen`)
stays.  `wire` is what is out, in order; the server's answer is merged into the
moment the client takes it.  A failing database or an unknown user at the server
means no answer.  What is written without a connection is lost; so is everything
that is out when the connection goes.

`ProfileCache` keeps one name for each uid and gid, which is all the pages use
of a row.  A look-up that finds a row with a name is answered by a zero timer,
any other by the server; the callback stores what came and hands it on.  The
answer of a wrong request (two drew one id) lacks the fields that are asked for,
which then read as empty.

### ContactLoading

`ArchPage::cache` is `slots`, its counter `waiting`, and `shown` what the
contact page was filled with.  The button, the login, the look-ups, the timer,
further requests that keep it busy (`Sends`), failures, ends and launches are
actions of one specification over all the state of the three modules.

### MessagePage

One message goes through up to three look-ups (`PageTodo`): of its card, of the
sender in a group, and of a group's members for the dock of its page.  Cards and
pages are `cards`, the messages on them `bubbles`; `tabs` is the tab widget,
`place` the remembered index of each page, which closing another tab leaves as
it was.  A message noted on the card of a sender who has none ends the process
(a null pointer): `crash` names it.  The connection stays up here;
`ContactLoading` has its loss.  `jumped` is a ghost: it becomes true when of two
look-ups for one page that are out together the table has one and the server is
asked for the other, since the table's answer then comes first.  The two need
not be of one subject: the senders of two messages to a group may be one that
the server is asked for and one that the table has.

### MediaTransfer

The server's side is one thread per user, who sends one request after another.
`wire` holds chunks (or one whole packet) of each recipient; the client's main
thread gives every packet to the pool.  A task stores its chunk under a lock,
releases it and takes it again to count: `StoreChunk`, then `Assemble` or
`NotYet`.  A picture is the set of its chunks with the place each came to, so
that a lost, swapped or foreign chunk is seen.  Counting creates an entry where
an earlier task has removed it (`again`).  The list of a group may name a member
twice (a creation and his own join may both push him), who then gets two packets
and is shown both.  What cannot be decoded, opened for writing or saved is not
shown, and nobody is told: `unsaved` remembers it.  The result of a file's
`write` is not looked at by the code, so a full disk is not seen either and the
file counts as shown.  A connection that is lost does not
come back, since a client that reconnects is not in the online list.

### LlmChat

A reply is a number of lines; `taken` are those read and `half` says that half
of the next was.  A line in two reads is dropped by the code, which parses each
part by itself: `split`.  Between `[DONE]` and the end of the reply the next
question is allowed; it aborts the old reply, and `abort()` runs the handler of
`finished()` inside: `SendEarly` does both, in that order.  Clearing deletes the
labels but keeps the pointer to the one being filled.  A step through an invalid
pointer ends the process or is not noticed: undefined behaviour is a choice of
the two.  `orphaned`, `answered`, `split` and `hasty` are ghosts.

## Runs

| run | instance | shows |
|---|---|---|
| `mysql_handle` | 3 threads, 2 addresses | no statement's object is closed or replaced under it; no leak; refines `DatabaseCalls` |
| `group_service` | 2 threads, 3 uids of which 2 registered, 1 gid, 3 requests, 1 fault | rows keep distinct members; grouplists name groups that exist; the map misses nobody but those pushed too early, `map::at` throws only in the window of a creation or without the groups; the map refines the directory |
| `group_apart` | 2 threads, 3 uids of which one's text occurs in another's, 2 gids, 3 requests, no fault | while requests keep apart the three places agree, and the table refines the durable directory |
| `group_lost_update` | 2 threads | violated: a joiner told "success" is overwritten in the row by a creation |
| `friends` | 2 threads, 3 uids, 2 names, 4 requests, 1 fault | lists name users only, in any interleaving; in quiet friendship is mutual and lasting; the uid told has the name registered |
| `online_threads` | 2 threads, 2 users, 2 addresses, 3 connections, 3 requests | until somebody listed twice goes offline, or a connection is logged in over twice, the list matches the logins, and messages reach their addressee until a connection is freed under a look-up; who is gone is forgotten (liveness) |
| `framing` | header of 2 bytes, texts of 1, 2 and 3 of which 3 is out of range, 3 packets, either reader | in order and once, everything handed over in the end |
| `snowflake` | 2 threads, 5 calls, one crash, the clock set back once | stamps increase, ids are distinct in the window, every call returns |
| `client_contacts` | 2 friends and a group, 3 requests and 1 retry in a run of the client, any number of runs | tables stay true over launches; the page is complete or empty and filled unless a look-up was dropped; the timer runs; the button comes back; retrying ends |
| `message_page` | 1 user, 1 group, 3 messages, 5 requests | order, loss and death as said above; a click shows its page; every message is shown or its look-up dropped |
| `media` | 3 users; two pictures of 2 chunks for one friend at once, then a file for a group that names him twice | whole, once for each place in the list, nothing kept, "success" is shown in the end or could not be saved |
| `llm_chat` | 3 pieces, 3 questions | pieces of one's own answer, all of them; invalid pointers only after haste |

`group_lost_update` is the one finding: a doc promises what the code does not
do. In its trace a creation is about to write the member it names
(chat_thread.cpp:655) when another user joins: both read the row, and the later
of the two writes drops what the earlier wrote.  Two joins, which make the same
two calls (chat_thread.cpp:749), race in the same way.  Other races are told by
the ghosts that the properties exclude: the connection another handler closes
between a handler's connect and its query (`NullUse` in `DbSession` ends the
process), the uid whose text occurs in another's, so that its joiner is taken
for a member and never written (`TakenFor`), the join that comes before the map
has its group (`early`), the user listed twice (`single`), the address freed
under a look-up (`apart` in `OnlineUsers`), what a client cannot save
(`unsaved`), the doubled id (`clash`), the look-up overtaken by the table
(`jumped`), the split line (`split`).

**Bounds.** Two threads are enough for every race of two handlers and three
requests for a race followed by a request that sees its outcome; one fault lets
each statement of each handler fail.  `group_apart` goes no further from a state
in which requests have got into each other's way (`CONSTRAINT Undisturbed`): its
two properties promise nothing from there on, and it cannot be undone.  Two
addresses and three connections let an address be reused while another
connection is open.  Three packets let one of each kind come before, between and
after others, and the stream is cut at every byte.  The generator's bounds let
the sequence wrap, the clock pass the window and the process restart.  Three
contacts are the fewest for which one look-up can be answered from the table,
one by the server and one dropped, with a friend and a group among them, and as
many requests are enough to send them all; a later run of the client finds what
an earlier one stored.  The three messages are one for the group and two from
the sender himself, so that his look-up is out when the second arrives and may
be in the table when the third does; five requests let each of them be asked of
the server.  Two pictures of two chunks are the fewest whose chunks interleave,
and a list that names a member twice the shortest with which a packet is rightly
shown again; three pieces the fewest of which one in the middle can be lost; and
the third question is the one that follows an early one.

Deadlock is checked except in three runs that may really stop: `message_page`
(the process has ended, or nothing is left to do), `media` (everything is
delivered or everybody has left) and `llm_chat` (the process has ended).

**Fairness.** `OnlineUsers!FairSpec`: a thread that is in a callback goes on
with it (weak fairness of `Work`), and an event loop gets round to a connection
that has ended even if other requests keep arriving (strong fairness of
`ConnectionEnds`, because a thread may be busy whenever it looks: libevent
serves all active events of a round before it polls again).
`PacketFraming!FairFramingSpec`: bytes written arrive while the connection
stands, and a running callback goes on.  `SnowflakeId!FairSpec`: time passes,
and a thread that can take the mutex again and again takes it some time.
`ContactLoading!FairSpec`: an attempt to connect ends one way or the other, and
the timers, which the event loop runs, fire; the server owes no answer and the
network no connection.  `MessagePage!FairPageSpec`: the timers fire.
`MediaTransfer!FairSpec`: a server thread goes on, the client's event loop takes
what has arrived and what was posted, and the pool runs its tasks. `LlmChat`
states safety only.

## Proofs

`MysqlHandleProofs`: `TypeCorrect`, `StatementsKeepTheirHandle`,
`HandlesNeverLeak`, `ClosedWhenQuiescent` and `ImplementsDatabaseCalls`, for
every set of threads and addresses.  The inductive invariant says who holds the
lock at each place and which object each thread has in hand; the refinement
follows step by step, and rests on it where a statement ends: the object it was
begun on is the one held then, because a reader keeps every writer out.

`GroupServiceProofs`: `TypeCorrect`, `RowsHaveNoDuplicates` and
`ListsNameOnlyGroups`, for every set of threads, users and groups and every
bound.  Distinct members need that the row a handler read, which it is about to
write back with one uid appended, is itself distinct and does not hold that uid
(`RowInv`); grouplists need that the group of a job is in the table from the
insert on and rows never disappear (`ListInv`).
`MembersAreCached`, `MapMissesOnlyEarly` and `MapImplementsDirectory` hold for
clients that name any group there is a row for.  Somebody may then join between
the insert of a row and the entry in the map, finds no entry to be pushed to,
and is told success or ends the process: he is `early`, and the second theorem
says that only that window, or groups that could not be loaded, leads there.
Their invariant (`MapInv`) says that whoever was told success and is not early
is in the map, what a handler has still to bring there at each of its places,
and, once the groups are loaded, that every group of the table is in the map or
being created and every member in the table is in the map, early, or in the
hands of such a handler.  The refinement of `GroupDirectory` goes action by
action: `PushMember` and `CacheGroup` enter a member, the answer tells him, a
death is a reset, everything else is a stutter.
`PlacesAgreeApart` and `TableImplementsDirectory` are about the time while
nothing is disturbed (`Undisturbed`): no statement has failed, no two writing
requests about one group or one user have overlapped, and no uid was taken for
another.  Any number of handlers may run meanwhile.  Drop one of the three and
TLC finds the places apart: two handlers lose an update of a row, the result of
a failed statement is not looked at before the next place is written, and a uid
whose text occurs in the list is pushed to the map but not written to the row.
`ApartInv` says, at each place of a handler, which of the three it has still to
write to (`BringsAt` for the map, `Lacks` for the grouplist) and that apart from
what all the handlers have still to write the places agree; that requests under
way do not overlap, so that what one handler writes leaves alone what another
has read; and that the members named of a creation are in its row or still to
come, since only those are told (`CreateKnows`).

`FriendServiceProofs`: `TypeCorrect` and `ListsNameOnlyUsers`, for every set of
threads, users and names and every bound.  A list that is written back is the
one read with a friend appended; that it names users needs that the two uids of
a request and everything in a list once read have rows, which no step removes,
and that a user is the head of his list needs that the list read was his.
`FriendshipIsMutual` and `FriendsAreKept` are about the time while `apart`
holds: `PairInv` says that requests under way then share no user, and of the one
request that has a pair of users, at each place, which of the two lists names
the other already and that the list it read is the one in the table.
`ToldUidHasTheName` holds however many users take one name: by `NameInv` the uid
a registration has in hand for its answer is of a row with its name, and a row
once filled keeps its name.

`OnlineUsersProofs`: `OnlineTypes`, `ListIsRight` and `MessagesFindTheirUser`,
for any threads, users and connections, and users who log in as often as they
like.  The invariant is a conjunction: what each place of a callback knows
(`ThreadInv`); that every entry is of an open connection and the user logged in
over it, and no connection has two (`EntryInv`); and that whoever was told
success has an entry unless a callback is between the two halves of a login or a
leave (`PresentInv`).  It holds while `single` does.  That is needed where
somebody goes offline, because `std::find_if` takes the first entry of a user:
`WithoutUser` removes the one of the connection only if there is no other.

`FoundationProofs`, on `PacketFraming`: `FramingTypeCorrect`, `ReaderInStep` and
`ImplementsQueue`, for every header length, set of sizes and limit.  The
inductive invariant says that the packets lie end to end, so that taking one
from the front leads to the front of the next; that the last packet handed over
ends before the reader's position; and that every packet that ends before it and
was not handed over could not be parsed or came after a length out of range.
On `SnowflakeId`: `TypeCorrect`, `StampsOrdered` and `IdsDistinctWithinWindow`,
for all constants that meet the module's assumptions.  The inductive invariant
places every issued stamp before the clock, or at the generator's last timestamp
with a sequence not above its own; while a thread waits with the mutex held, not
after its last timestamp.  That ids in the window are distinct is arithmetic on
top of it: equal remainders make the difference a multiple of the modulus, and
the window holds none.

`ClientProofs`, on `ContactLoading`: `ContactTypes`, `TimerAlwaysRuns`,
`TablesAreTrue`, `ButtonComesBack` and `ContactsAreComplete`, for every list of
contacts and every bound.  `TablesAreTrue` rests on what is stored: the name and
the id in a row come out of the same answer, so that a wrong answer writes
nothing or the truth (`RowsInv`).  `ButtonComesBack` needs that before the
sign-in nothing but logins is out (`LoginsOnly`), so that an answer that is lost
is a login's.  `ContactsAreComplete` says that the page is filled neither early
nor with a slot missing: by `LoadInv` each look-up that is out is of a contact
that has no name yet, no contact has two, the counter is the number of contacts
without one, and until two requests draw one id what is out under an entry's id
is its own request.  `ContactsAreAwaited` is the converse, the safety half of
`ContactsShown`: the page is empty only while contacts are open, and each open
one is sought, at the server or from the table, unless a look-up was missed.
`AwaitInv` needs no two entries under one id and, on the way through an answer
that asks more, that the contacts just welcomed are the open ones and that a
look-up which leaves one queue has filled its slot or entered the other.  What a
batch of look-ups becomes is computed with `Picked`, a choice function over
places rather than a recursion, so that lemmas can be stated about it.

On `MessagePage`: `PagesAreInOrder`, `OnlyStrangersCrash`, `ClicksShowTheirPage`
and `TablesStayTrue`, for any users, groups and list of messages.  The order on
a page follows from the order of what waits for it (`PageInv`): two look-ups for
one page wait in one queue, at the server or for the timer of the table, in the
order of their messages (`Order`); all that is on the page is older than what
still waits for it (`Later`); and a sender's look-up that waits is of an older
message than any card's, because it is made when that message's card was the
first in the queue.  The proof found the earlier form of `jumped` too weak,
which compared look-ups of one subject only: with two members of a group, one
known to the table, the later message was shown first and the ghost said
nothing.  The crash needs only that an answer which reached its own callback
makes the card it is for before the content is added (`CrashInv`).  That a click
shows its page in spite of remembered places that have moved needs that no page
has two tabs (`TabInv`): a place is used only if the page is there, and any
other tab of it is removed before a new one is added.

`MessagesAreFollowed` accounts for every message, for any traffic and
also when ids clash or messages overtake each other: while the client runs a
message that has arrived is on its page, once, or being looked up, or lost with
a look-up of its, and in one of these places only.  It is the safety half of
`MessagesShown`.  Its invariant (`Held`) is stated for a set of messages in hand
besides: an answer takes the look-up out of the list before its callback asks
for the next, so that in the middle of a step a message is in no place.  The
look-ups of a group's members (`dock`) are of no message and are left out of
it.  `MessagesAreTimed` says of these look-ups what `TimerAlwaysRuns` says of
the contacts': none waits at the server without the timer that would drop it.

`MediaTransferProofs`: `PicturesAreWhole`, `NothingIsShownTwice`,
`NoChunksAreLeft` and `SuccessIsMeant`, for all requests, users and
interleavings of pool tasks.  For the first the invariant says of every chunk
under way, in a task or stored which picture it is of, and that its place is one
of that picture's; that all places are taken once as many chunks are stored as
the picture has is counting (`FS_Injection`).  `OnceInv` adds where each packet
is: still to come, on the wire, at the task that stores it, or stored, and in
one place only, and nowhere once its picture has been put together, so that no
second task finds it whole.  A packet bears the number of its place in the list
it is sent along; `CopyInv` and `SingleInv` say that what is shown of a group's
picture or file bears one of the numbers at which its recipient stands, each at
most once, so that he is shown no more than the list has of him. `KeptInv` adds,
for a recipient who has not gone, that the chunks of a picture are all accounted
for and that a task is about to count them when they are all stored.  It does
not hold of somebody who has gone in the middle, whose entry stays:
`NothingKept` leaves him out.  `SuccessIsMeant` is the safety half of
`SuccessIsShown`: of what the sender was told is a success each receiver who is
still there, and whose client did not fail to save it, has been shown it, or has
it put together, or has every chunk of it with him or on the wire.  `ReachInv`
says that of each packet the thread has sent so far, and that nothing is told of
a request that is still to do; the theorem says it of the members of a group and
of files, too, where the liveness property is about friends.  `OnceAssumption`
states what the callers of the module see to: a file id is drawn for every
picture and file.

`LlmChatProofs`: `PiecesAreOwn`, `AnswersAreWhole` and `OnlyHasteCrashes`, for
any number of pieces and questions.  The invariant has five parts: where the
pointers are (`PlaceInv`), what has been read of the current reply (`TextInv`),
that labels show pieces in order (`ShownInv`), that the label being filled is
that of the current reply unless it was orphaned (`LabelInv`), and how much each
finished answer has (`CompleteInv`).

The theorems rest on the assumptions the modules name.  Those on bounds and
counts say that they are numbers.  `SubjectAssumption`, `TagAssumption` and
`MembersAssumption` say that ids of users, ids of groups and the marks the
models use beside them are different values; `TrafficAssumption` that a message
is for a group or shown on its sender's page.  No theorem assumes anything
of what clients do beyond what their actions say: what the code does not prevent
is left in, and a ghost says when it has happened.

Only model-checked is liveness (`GoneIsForgotten`, `EveryCallReturns`,
`EveryPacketHanded`, `RetriesEnd`, `ContactsShown`, `MessagesShown`,
`SuccessIsShown`), which is out of the prover's reach together with `ENABLED`;
of the last three the safety half is proved, that nothing is forgotten on the
way.  TLC found the invariants of those three proofs (`AwaitInv`, `FollowInv`,
`ReachInv`) to hold on the bounds of the runs before they were proved.
Every other property of a passing run is stated by a theorem.

## What is not modelled, and the plan

Left out for good, because nothing in it is a matter of state or order:
- the third-party widgets, close to half of the lines of the repository;
- layout, painting, animation and input checks of the pages (most of
  `conversationpage`, `editinfopage`, `userpage`, `landpage`, `registerpage`,
  the delegates and dialogs);
- logging, formatting of times, the screenshot page, `main`;
- `friendshipdao` and the queries of the other DAOs, which nothing calls.

Left out so far:
- the tree of `ContactModel`, with groupings and drag and drop
  (`delGroupingItem` deletes an item it has just deleted with its parent);
- `AddPage` and `NoticePage`, whose loading mask goes only with a reply, which
  the timer may have dropped; the fuzzy search, their one query;
- the member rows of a group in the client's tables;
- what happens to the conversations when somebody joins a group, which the
  client looks up by the group's name;
- pictures inside a message: a picture is a message of its own here.

Next, in this order: `ContactModel`; `AddPage` and `NoticePage` over
`ClientRequests`.
