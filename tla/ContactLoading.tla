--------------------------- MODULE ContactLoading ---------------------------
(***************************************************************************)
(* From the sign-in page to the list of contacts.  A login that succeeds   *)
(* brings the uids of the friends and the gids of the groups; ArchPage     *)
(* looks each of them up, counts the look-ups that are out, and fills the  *)
(* contact page when the last one has come back.  One that is dropped      *)
(* keeps the page empty.                                                   *)
(***************************************************************************)
EXTENDS ProfileCache

CONSTANTS Contacts   \* friends and groups of the user who signs in, in order

ASSUME ContactAssumption == Contacts \in Seq(Subject)

VARIABLES
    signedIn,    \* "login success" was handled
    slots,       \* ArchPage::cache: the name each contact has so far
    waiting,     \* ArchPage::pendingCallbacks
    shown,       \* what the contact page was filled with
    missed,      \* ghost: a look-up of the loader will never come back
    unanswered   \* ghost: the server has failed to answer a login

loadVars == <<signedIn, slots, waiting, shown, missed, unanswered>>
vars == <<linkVars, requestVars, cacheVars, loadVars>>

Plain == [index |-> 0, of |-> "message"]
Todo == [index : DOMAIN Contacts, of : Subject] \union {Plain}
Unset == "unset"

\* Neither the kinds of request nor a slot without a name are among the names.
ASSUME TagAssumption == {"login", "message", Unset} \cap (Subject \union {Empty}) = {}

TypeOK ==
    /\ LinkTypeOK
    /\ RequestTypeOK(Subject \union {"login", "message"}, Todo)
    /\ CacheTypeOK(Todo)
    /\ signedIn \in BOOLEAN
    /\ slots \in Seq(Subject \union {Unset, Empty})
    /\ waiting \in 0..Len(Contacts)
    /\ shown \in Seq(Subject \union {Unset, Empty})
    /\ missed \in BOOLEAN /\ unanswered \in BOOLEAN

LoadInit ==
    /\ signedIn = FALSE
    /\ slots = <<>> /\ waiting = 0
    /\ shown = <<>>
    /\ missed = FALSE /\ unanswered = FALSE

Init == LinkInit /\ RequestInit /\ CacheInit /\ LoadInit

------------------------------------------------------------------------------
\* loginButtonClicked and verifyServer: the button is frozen, and the request
\* is lost unless the socket is connected.
SignIn ==
    /\ running /\ signIn /\ ~signedIn
    /\ signIn' = FALSE
    /\ wire' = Written(wire, <<[id |-> NoId, of |-> "login"]>>)
    /\ UNCHANGED <<running, socket, retries, retryTimer, pending, timer, asked,
                   clash, cacheVars, loadVars>>

\* login_handler: a refusal unfreezes the button ...
Refused(r) ==
    /\ r.of = "login" /\ ~r.ok
    /\ signIn' = TRUE
    /\ wire' = Tail(wire)
    /\ UNCHANGED <<running, socket, retries, retryTimer, pending, asked, clash,
                   cacheVars, loadVars>>
    /\ StopWhenEmpty(FALSE)

\* ... and success starts convertUserInfoToFriendshipData.
FirstIndex(i) == 1   \* Mutant: the callbacks capture one index.
OwnIndex(i) == i

LookUps == [i \in DOMAIN Contacts |->
              [of |-> Contacts[i], todo |-> [index |-> OwnIndex(i), of |-> Contacts[i]]]]

Welcomed(r) ==
    /\ r.of = "login" /\ r.ok
    /\ signedIn' = TRUE
    /\ slots' = [i \in DOMAIN Contacts |-> Unset]
    /\ waiting' = Len(Contacts)
    /\ LookUp(LookUps, pending, local, Tail(wire))
    /\ missed' = (Forgotten(FromServer(LookUps), pending) \ {Plain} # {})
    /\ StopWhenEmpty(FromServer(LookUps) # <<>>)
    /\ UNCHANGED <<linkVars, dbOpen, rows, shown, unanswered>>

\* The callback of a contact's look-up: the last one fills the page.
ContactIs(i, name) ==
    /\ slots' = [slots EXCEPT ![i] = name]
    /\ waiting' = waiting - 1
    /\ shown' = IF waiting = 1 THEN slots' ELSE shown
    /\ UNCHANGED <<signedIn, missed, unanswered>>

TableHas(q) ==
    /\ TableAnswers(q)
    /\ local' = Tail(local)
    /\ ContactIs(q.todo.index, q.name)
    /\ UNCHANGED <<linkVars, requestVars>>

\* An answer from the server, to a look-up, to another request, or to one that
\* is no longer waited for.
Answered(r) ==
    /\ r.of # "login"
    /\ wire' = Tail(wire)
    /\ pending' = Left(r)
    /\ StopWhenEmpty(FALSE)
    /\ \/ \E e \in EntryOf(r) :
             /\ r.of \in Subject /\ e.todo # Plain
             /\ Store(r, e.todo.of)
             /\ ContactIs(e.todo.index, NameIn(r, e.todo.of))
       \/ /\ r.of \in Subject => \A e \in EntryOf(r) : e.todo = Plain
          /\ missed' = (missed \/ \E e \in EntryOf(r) : e.todo # Plain)
          /\ UNCHANGED <<rows, signedIn, slots, waiting, shown, unanswered>>
    /\ UNCHANGED <<linkVars, asked, clash, dbOpen, local>>

------------------------------------------------------------------------------
Sends == \E packets \in 0..2 :
    /\ signedIn
    /\ AskPlain("message", Plain, packets)
    /\ missed' = (missed \/ Forgotten(<<>>, pending) \ {Plain} # {})
    /\ UNCHANGED <<linkVars, cacheVars, signedIn, slots, waiting, shown, unanswered>>

GetsNoAnswer ==
    /\ Unanswered
    /\ unanswered' = (unanswered \/ Head(wire).of = "login")
    /\ UNCHANGED <<linkVars, cacheVars, signedIn, slots, waiting, shown, missed>>

Drops == \E gone \in SUBSET Found :
    /\ TimesOut(gone)
    /\ missed' = (missed \/ \E e \in gone : e.todo # Plain)
    /\ UNCHANGED <<linkVars, cacheVars, signedIn, slots, waiting, shown, unanswered>>

Connects == Connected /\ UNCHANGED <<requestVars, cacheVars, loadVars>>
ConnectFails ==
    Fails("connecting") /\ UNCHANGED <<requestVars, cacheVars, loadVars>>
ConnectionLost == Fails("connected") /\ LoseWire /\ UNCHANGED <<cacheVars, loadVars>>

Ends ==
    /\ LinkEnds /\ RequestsEnd /\ TablesClose
    /\ signedIn' = FALSE
    /\ slots' = <<>> /\ waiting' = 0
    /\ shown' = <<>>
    /\ missed' = FALSE /\ unanswered' = FALSE

Retries ==
    \/ RetryTick /\ UNCHANGED <<requestVars, cacheVars, loadVars>>
    \/ TickAborts /\ Ends

Starts == Launch /\ TablesOpen /\ UNCHANGED <<requestVars, loadVars>>

ReplyComes == \E r \in Answers : Refused(r) \/ Welcomed(r) \/ Answered(r)
TimerFires == \E q \in ToSet(local) : TableHas(q)

Next ==
    \/ SignIn \/ ReplyComes \/ TimerFires
    \/ Sends \/ GetsNoAnswer \/ Drops
    \/ Connects \/ ConnectFails \/ ConnectionLost \/ Retries
    \/ Ends \/ Starts

Spec == Init /\ [][Next]_vars

\* The event loop runs what has come and every timer; an attempt to connect
\* ends one way or the other.  The server owes no answer.
FairSpec ==
    /\ Spec
    /\ WF_vars(Connects \/ ConnectFails)
    /\ WF_vars(Retries)
    /\ WF_vars(Drops)
    /\ WF_vars(TimerFires)

------------------------------------------------------------------------------
\* Trying to reconnect comes to an end: the socket connects, or the timer is
\* stopped after the last attempt or another error, or the tick that finds the
\* socket still connecting ends the process.
RetriesEnd == retryTimer ~> ~retryTimer

\* The page is filled with every contact, under its own name or, if the server
\* had none, an empty one; never with one that has not come back.
ContactsComplete ==
    shown # <<>> =>
        /\ Len(shown) = Len(Contacts)
        /\ \A i \in DOMAIN Contacts : clash \/ shown[i] \in {Contacts[i], Empty}

\* The contacts of a user who has signed in are shown, unless a look-up was
\* dropped or the process ended: no answer leaves the page waiting.
ContactsShown ==
    (signedIn /\ Contacts # <<>>) ~> (shown # <<>> \/ missed \/ ~signedIn)

\* With the connection up the sign-in button is never left frozen by a request
\* that was not written: only by one the server still has or failed to answer.
SignInUsable ==
    Online /\ ~signedIn /\ ~signIn =>
        \/ \E r \in ToSet(wire) : r.of = "login"
        \/ unanswered
=============================================================================
