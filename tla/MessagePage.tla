---------------------------- MODULE MessagePage -----------------------------
(***************************************************************************)
(* What becomes of a message that reaches the client.  loadCacheMsg looks  *)
(* up whom it is from, or the group it is for; the callback sees to the    *)
(* conversation's card and page (addMsgCard) and puts the message there    *)
(* (addMsgContent), a group's after one more look-up, of the sender.       *)
(* Answers come from the table or from the server, so a message may be     *)
(* overtaken, or lost when its look-up is dropped.  addMsgContent also     *)
(* notes the message on the sender's own card, which a sender known only   *)
(* from a group does not have: the null pointer ends the process.          *)
(*                                                                         *)
(* A click on a card shows its page in a tab.  Tabs are closed, and those  *)
(* behind them move up, but the remembered places stay as they were.       *)
(*                                                                         *)
(* The connection stays up here: ContactLoading has what its loss does.    *)
(* The samples the constructor adds, two messages and a group, are left    *)
(* out: they come in as any other.                                         *)
(***************************************************************************)
EXTENDS ProfileCache

CONSTANT Traffic   \* the messages [from, to] that arrive; to is from or a group

Message == [from : User, to : Subject]

ASSUME TrafficAssumption ==
    /\ Traffic \in Seq(Message)
    /\ \A i \in DOMAIN Traffic : Traffic[i].to \in Group \union {Traffic[i].from}

\* The members of a group are asked for under no uid or gid.
ASSUME MembersAssumption == "members" \notin Subject

VARIABLES
    arrived,   \* how many have arrived
    cards,     \* keys of _ssidLinkCardHash with a card and a page
    bubbles,   \* the messages on each page
    tabs,      \* the pages that have a tab, in order
    current,   \* the place of the tab that is shown; 0: there is none
    place,     \* _tabSSIDLinkIndex; 0: not in it
    wanted,    \* ghost: the card clicked last, if no tab was closed since
    crash,     \* the message whose sender had no card; 0: none
    lost,      \* ghost: messages whose look-up was dropped
    jumped     \* ghost: of two look-ups for a page that were out together, the
               \* table had one and the server was asked for the other

tabVars == <<tabs, current, place, wanted>>
pageVars == <<arrived, cards, bubbles, crash, lost, jumped>>
messageVars == <<linkVars, requestVars, cacheVars, tabVars, pageVars>>

PageTodo == [no : DOMAIN Traffic, step : {"card", "bubble", "dock"}, of : Subject]

PageTypeOK ==
    /\ RequestTypeOK(Subject \union {"members"}, PageTodo)
    /\ CacheTypeOK(PageTodo)
    /\ arrived \in 0..Len(Traffic)
    /\ cards \subseteq Subject
    /\ bubbles \in [Subject -> Seq(1..arrived)]
    /\ tabs \in Seq(cards)
    /\ current \in 0..Len(tabs)
    /\ place \in [Subject -> Nat]
    /\ wanted \in SUBSET cards
    /\ crash \in 0..arrived
    /\ lost \subseteq 1..arrived
    /\ jumped \in BOOLEAN

PageInit ==
    /\ running = TRUE /\ socket = "connected"
    /\ retries = 0 /\ retryTimer = FALSE /\ signIn = FALSE
    /\ RequestInit /\ CacheInit
    /\ arrived = 0
    /\ cards = {}
    /\ bubbles = [s \in Subject |-> <<>>]
    /\ tabs = <<>> /\ current = 0 /\ wanted = {}
    /\ place = [s \in Subject |-> 0]
    /\ crash = 0
    /\ lost = {}
    /\ jumped = FALSE

------------------------------------------------------------------------------
Of(step, no, s) == [of |-> s, todo |-> [no |-> no, step |-> step, of |-> s]]
Members(no, g) == [of |-> "members", todo |-> [no |-> no, step |-> "dock", of |-> g]]

\* The messages whose look-ups are among todos.
Gone(todos) == {t.no : t \in {d \in todos : d.step # "dock"}}

\* The pages that the messages of such look-ups are for.
Pages(looks) == {Traffic[no].to : no \in Gone({q.todo : q \in looks})}

\* Look-ups, and the ghosts that say what they may come to.
Looks(new, rest, queue, line) ==
    /\ LookUp(new, rest, queue, line)
    /\ jumped' = \/ jumped
                 \/ Pages(Range(FromTable(new))) \cap Pages(rest) # {}
                 \/ Pages(Range(FromServer(new))) \cap Pages(Range(queue)) # {}
    /\ lost' = lost \union Gone(Forgotten(FromServer(new), rest))

Asks(new) == FromServer(new) # <<>>

\* client_reply_info or onImageProcessed: loadCacheMsg.
MessageArrives ==
    LET new == <<Of("card", arrived', Traffic[arrived'].to)>> IN
    /\ running /\ arrived < Len(Traffic)
    /\ arrived' = arrived + 1
    /\ Looks(new, pending, local, wire)
    /\ StopWhenEmpty(Asks(new))
    /\ UNCHANGED <<linkVars, dbOpen, rows, tabVars, cards, bubbles, crash>>

\* addMsgCard; the page of a group asks for all its members.
WithCard(id) == cards \union ({id} \cap Subject)
Dock(no, id) == IF id \in Group \ cards THEN <<Members(no, id)>> ELSE <<>>

Insert(s, no) == bubbles' = [bubbles EXCEPT ![s] = Append(@, no)]

\* Nothing is looked up.
Rests(rest, queue, line) ==
    /\ pending' = rest /\ local' = queue /\ wire' = line
    /\ UNCHANGED <<asked, clash, jumped, lost>>

\* addMsgContent for a message whose card, or whose sender's, is missing.
Crashes(no) ==
    /\ running' = FALSE
    /\ crash' = no
    /\ UNCHANGED <<socket, retries, retryTimer, signIn, bubbles>>

\* The callback of loadCacheMsg got id: addMsgCard, then addMsgContent.
ContentFirst(id) == cards   \* Mutant: the content is added before the card.
CardFirst(id) == WithCard(id)

CardReady(no, id, rest, queue, line) ==
    LET m == Traffic[no]
        known == {m.from, m.to} \subseteq CardFirst(id)
    IN  /\ cards' = WithCard(id)
        /\ \/ ~known /\ Crashes(no) /\ Rests(rest, queue, line)
           \/ /\ known /\ m.to \in User
              /\ Insert(m.to, no)
              /\ Rests(rest, queue, line)
              /\ UNCHANGED <<linkVars, crash>>
           \/ /\ known /\ m.to \in Group
              /\ Looks(Dock(no, id) \o <<Of("bubble", no, m.from)>>, rest, queue,
                    line)
              /\ UNCHANGED <<linkVars, bubbles, crash>>

\* The callback of addMsgContent, or that of the members.
NoteReady(todo, rest, queue, line) ==
    /\ IF todo.step = "bubble" THEN Insert(Traffic[todo.no].to, todo.no)
                               ELSE UNCHANGED bubbles
    /\ Rests(rest, queue, line)
    /\ UNCHANGED <<linkVars, cards, crash>>

Ready(todo, id, rest, queue, line) ==
    IF todo.step = "card" THEN CardReady(todo.no, id, rest, queue, line)
                          ELSE NoteReady(todo, rest, queue, line)

TableKnows(q) ==
    /\ TableAnswers(q)
    /\ Ready(q.todo, q.todo.of, pending, Tail(local), wire)
    /\ timer' = (timer \/ pending' # pending)
    /\ UNCHANGED <<arrived, tabVars>>

\* An answer from the server; in a clash it may be one to another question.
IdIn(r, s) == IF SameKind(r, s) THEN r.of ELSE NoRow

Resolved(r) ==
    /\ \/ \E e \in EntryOf(r) :
             /\ IF e.todo.step = "dock" THEN UNCHANGED rows ELSE Store(r, e.todo.of)
             /\ Ready(e.todo, IdIn(r, e.todo.of), Left(r), local, Tail(wire))
       \/ /\ EntryOf(r) = {}
          /\ Rests(pending, local, Tail(wire))
          /\ UNCHANGED <<linkVars, rows, cards, bubbles, crash>>
    /\ StopWhenEmpty(pending' # Left(r))
    /\ UNCHANGED <<dbOpen, arrived, tabVars>>

AnswerMissing ==
    /\ running /\ Unanswered
    /\ UNCHANGED <<linkVars, cacheVars, tabVars, pageVars>>

LookUpsDropped == \E gone \in SUBSET Found :
    /\ TimesOut(gone)
    /\ lost' = lost \union Gone({e.todo : e \in gone})
    /\ UNCHANGED <<linkVars, cacheVars, tabVars, arrived, cards, bubbles, crash, jumped>>

------------------------------------------------------------------------------
\* A card is clicked: the remembered place is used if the page is there,
\* otherwise the page gets a new tab at the end.
AnyPage(s, i) == i \in DOMAIN tabs   \* Mutant: the page there is not compared.
OwnPage(s, i) == i \in DOMAIN tabs /\ tabs[i] = s

Shows(s) ==
    /\ wanted' = {s}
    /\ \/ /\ OwnPage(s, place[s])
          /\ current' = place[s]
          /\ UNCHANGED <<tabs, place>>
       \/ /\ ~OwnPage(s, place[s])
          /\ tabs' = Append(RemoveFirst(tabs, s), s)
          /\ place' = [place EXCEPT ![s] = Len(tabs')]
          /\ current' = Len(tabs')

Click(s) ==
    /\ running /\ s \in cards
    /\ Shows(s)
    /\ UNCHANGED <<linkVars, requestVars, cacheVars, pageVars>>

\* tabCloseRequested: the page is forgotten under its own id only, and if it
\* was in front another one comes there.
CloseTab(i) ==
    /\ running /\ i \in DOMAIN tabs
    /\ tabs' = RemoveAt(tabs, i)
    /\ place' = [place EXCEPT ![tabs[i]] = 0]
    /\ wanted' = {}
    /\ \/ current < i /\ UNCHANGED current
       \/ current > i /\ current' = current - 1
       \/ current = i /\ tabs' = <<>> /\ current' = 0
       \/ current = i /\ current' \in DOMAIN tabs'
    /\ UNCHANGED <<linkVars, requestVars, cacheVars, pageVars>>

\* sigTriggerAddMsgCard: a contact is double-clicked.
Chosen(s) ==
    /\ running /\ s \notin cards
    /\ cards' = cards \union {s}
    /\ Ask(Dock(1, s), pending, wire)
    /\ timer' = (timer \/ s \in Group)
    /\ Shows(s)
    /\ lost' = lost \union Gone(Forgotten(Dock(1, s), pending))
    /\ UNCHANGED <<linkVars, cacheVars, arrived, bubbles, crash, jumped>>

------------------------------------------------------------------------------
AnswerComes == \E r \in Answers : Resolved(r)
TableComes == \E q \in ToSet(local) : TableKnows(q)

PageNext ==
    \/ MessageArrives
    \/ AnswerComes \/ TableComes \/ AnswerMissing \/ LookUpsDropped
    \/ \E s \in Subject : Click(s) \/ Chosen(s)
    \/ \E i \in DOMAIN tabs : CloseTab(i)

PageSpec == PageInit /\ [][PageNext]_messageVars

\* The event loop runs every timer; the server owes no answer.
FairPageSpec == PageSpec /\ WF_messageVars(TableComes) /\ WF_messageVars(LookUpsDropped)

------------------------------------------------------------------------------
\* A page shows its messages in the order they came in, each once, as long as
\* no two look-ups for it were out together of which the table had one and the
\* server was asked for the other, and no two requests drew one id.
InOrder ==
    \A s \in Subject : \A i, j \in DOMAIN bubbles[s] :
        /\ Traffic[bubbles[s][i]].to = s
        /\ i < j /\ ~jumped /\ ~clash => bubbles[s][i] < bubbles[s][j]

\* Every message is shown, unless one of its look-ups was dropped or the
\* process ended.
Shown == UNION {ToSet(bubbles[s]) : s \in Subject}

MessagesShown == \A no \in DOMAIN Traffic :
    no <= arrived ~> (no \in Shown \union lost \/ ~running)

\* What ends the process is a message for a group from somebody without a card,
\* or an answer that reached the wrong callback; a message from a friend never
\* does, even if the friend had no card before.
CrashNeedsStranger ==
    crash # 0 => \/ clash
                 \/ Traffic[crash].to \in Group /\ Traffic[crash].from \notin cards

\* A click on a card brings its own page to the front, whatever was opened and
\* closed before, and no message that arrives takes it away; no page has
\* two tabs.
ClickShows ==
    /\ IsInjective(tabs)
    /\ \A s \in wanted : current # 0 /\ tabs[current] = s
=============================================================================
