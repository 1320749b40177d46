----------------------------- MODULE ClientProofs -----------------------------
(***************************************************************************)
(* The client, for any contacts, messages, requests and retries.           *)
(*                                                                         *)
(* First its contacts: entries never wait without their timer, the tables  *)
(* hold no wrong name, the sign-in button comes back, and the contact page *)
(* is filled when the last look-up has come back and not before.  The last *)
(* needs most: LoadInv says that every look-up that is out, at the server  *)
(* or answered from the table, is of a contact that has no name yet, that  *)
(* no contact has two, and that the page counts the contacts without a     *)
(* name; and that, until an id is drawn twice, what is out under the id of *)
(* an entry is the request the entry was made for.  AwaitInv says the      *)
(* converse: an open contact is sought, unless a look-up was missed.       *)
(*                                                                         *)
(* Then its messages: pages show them in order, only a stranger's ends the *)
(* process, and a click shows its page.  PageInv says that two look-ups    *)
(* for one page wait in one queue, at the server or for the table's timer, *)
(* in the order of their messages, and a sender's is of an older message   *)
(* than any card's (Order), and that all on the page is older than what    *)
(* still waits for it (Later); TabInv, that no page has two tabs.  Held    *)
(* follows each message: it is looked up, on its page or lost, and in one  *)
(* of these places only.                                                   *)
(***************************************************************************)
EXTENDS ContactLoading, MessagePage, SequenceTheorems, FiniteSetTheorems, WellFoundedInduction, TLAPS

Login == [id |-> NoId, of |-> "login"]

\* Before the user has signed in only logins are out.
LoginsOnly == ~signedIn => wire \in Seq({Login})

RowsInv == rows \in [Subject -> Subject \union {NoRow, Empty}] /\ CacheTrue

SignInInv == LoginsOnly /\ SignInUsable

\* A function on the numbers up to n is a sequence.
LEMMA IsSequence ==
    ASSUME NEW S, NEW n \in Nat, NEW f \in [1..n -> S]
    PROVE  f \in Seq(S)
  BY SeqDef

\* Requests made in one go, none of them, leave the entries that are there.
LEMMA NothingAsked ==
    ASSUME NEW ids, NEW new, new = <<>>
    PROVE  EntriesFor(new, ids) = {}
<1>1. DOMAIN new = {}
  OBVIOUS
<1> QED
  BY <1>1 DEF EntriesFor

------------------------------------------------------------------------------
\* There is no entry yet.
LEMMA TimerInit == Init => TimerRuns
  BY DEF Init, RequestInit, TimerRuns

\* A step that leaves entries leaves the timer running.
LEMMA TimerNext == TimerRuns /\ [Next]_vars => TimerRuns'
<1> SUFFICES ASSUME TimerRuns, [Next]_vars PROVE TimerRuns'
  OBVIOUS
<1>1. CASE SignIn
  BY <1>1 DEF SignIn, TimerRuns
<1>2. ASSUME NEW r \in Answers, Refused(r) PROVE TimerRuns'
  BY <1>2 DEF Refused, StopWhenEmpty, TimerRuns
<1>3. ASSUME NEW r \in Answers, Welcomed(r) PROVE TimerRuns'
  <2>1. timer' = (pending' # {} /\ (timer \/ FromServer(LookUps) # <<>>))
    BY <1>3 DEF Welcomed, StopWhenEmpty
  <2>2. CASE FromServer(LookUps) = <<>>
    <3>1. PICK ids \in NewIds(Len(FromServer(LookUps)), pending) :
             pending' = {e \in pending : e.id \notin Range(ids)} \union
                            EntriesFor(FromServer(LookUps), ids)
      BY <1>3 DEF Welcomed, LookUp, Ask
    <3>2. pending' \subseteq pending
      BY <2>2, <3>1, NothingAsked
    <3> QED
      BY <2>1, <3>2 DEF TimerRuns
  <2> QED
    BY <2>1, <2>2 DEF TimerRuns
<1>4. ASSUME NEW r \in Answers, Answered(r) PROVE TimerRuns'
  BY <1>4 DEF Answered, StopWhenEmpty, Left, TimerRuns
<1>5. ASSUME NEW q, TableHas(q) PROVE TimerRuns'
  BY <1>5 DEF TableHas, requestVars, TimerRuns
<1>6. CASE Sends
  BY <1>6 DEF Sends, AskPlain, TimerRuns
<1>7. CASE GetsNoAnswer
  BY <1>7 DEF GetsNoAnswer, Unanswered, TimerRuns
<1>8. CASE Drops
  BY <1>8 DEF Drops, TimesOut, TimerRuns
<1>9. CASE Connects \/ ConnectFails \/ ConnectionLost
  BY <1>9 DEF Connects, ConnectFails, ConnectionLost, LoseWire, requestVars, TimerRuns
<1>10. CASE Retries \/ Ends \/ Starts
  BY <1>10 DEF Retries, Ends, Starts, RequestsEnd, requestVars, TimerRuns
<1>11. CASE UNCHANGED vars
  BY <1>11 DEF vars, requestVars, TimerRuns
<1> QED
  BY <1>1, <1>2, <1>3, <1>4, <1>5, <1>6, <1>7, <1>8, <1>9, <1>10, <1>11
     DEF Next, ReplyComes, TimerFires

\* An entry of m_pendingRequests is never left without the timer that would
\* drop it, however many requests are made and in whatever order they are
\* answered.
THEOREM TimerAlwaysRuns == Spec => []TimerRuns
  BY TimerInit, TimerNext, PTL DEF Spec

------------------------------------------------------------------------------
\* The tables start empty.
LEMMA RowsInit == Init => RowsInv
  BY DEF Init, CacheInit, RowsInv, CacheTrue

\* Storing an answer keeps the names true, whatever callback it reached.
LEMMA StoreKeeps ==
    ASSUME RowsInv, NEW r, NEW s, Store(r, s)
    PROVE  RowsInv'
<1>1. CASE rows' = rows
  BY <1>1 DEF RowsInv, CacheTrue
<1>2. CASE SameKind(r, s) /\ rows' = [rows EXCEPT ![r.of] = NameIn(r, s)]
  <2>1. r.of \in Subject /\ NameIn(r, s) \in {r.of, Empty}
    BY <1>2 DEF SameKind, NameIn
  <2> QED
    BY <1>2, <2>1 DEF RowsInv, CacheTrue
<1> QED
  BY <1>1, <1>2 DEF Store, KeyOf

\* Only an answer from the server changes the tables.
LEMMA RowsNext == RowsInv /\ [Next]_vars => RowsInv'
<1> SUFFICES ASSUME RowsInv, [Next]_vars PROVE RowsInv'
  OBVIOUS
<1>1. ASSUME NEW r \in Answers, Answered(r) PROVE RowsInv'
  <2>1. CASE rows' = rows
    BY <2>1 DEF RowsInv, CacheTrue
  <2>2. ASSUME NEW e \in EntryOf(r), Store(r, e.todo.of) PROVE RowsInv'
    BY <2>2, StoreKeeps
  <2> QED
    BY <1>1, <2>1, <2>2 DEF Answered
<1>2. CASE rows' = rows
  BY <1>2 DEF RowsInv, CacheTrue
<1>3. SignIn \/ Sends \/ GetsNoAnswer \/ Drops => rows' = rows
  BY DEF SignIn, Sends, GetsNoAnswer, Drops, cacheVars
<1>4. \A r \in Answers : Refused(r) \/ Welcomed(r) => rows' = rows
  BY DEF Refused, Welcomed, cacheVars
<1>5. TimerFires => rows' = rows
  BY DEF TimerFires, TableHas, TableAnswers
<1>6. Connects \/ ConnectFails \/ ConnectionLost => rows' = rows
  BY DEF Connects, ConnectFails, ConnectionLost, cacheVars
<1>7. Retries \/ Ends \/ Starts => rows' = rows
  BY DEF Retries, Ends, Starts, TablesClose, TablesOpen, cacheVars
<1>8. UNCHANGED vars => rows' = rows
  BY DEF vars, cacheVars
<1> QED
  BY <1>1, <1>2, <1>3, <1>4, <1>5, <1>6, <1>7, <1>8 DEF Next, ReplyComes

\* The tables hold no name but the server's, even where two requests drew one
\* id and the answers go to the wrong callbacks.
THEOREM TablesAreTrue == Spec => []CacheTrue
<1>1. RowsInv => CacheTrue
  BY DEF RowsInv
<1> QED
  BY <1>1, RowsInit, RowsNext, PTL DEF Spec

------------------------------------------------------------------------------
\* The button starts enabled.
LEMMA SignInInit == Init => SignInInv
<1>1. <<>> \in Seq({Login})
  OBVIOUS
<1> QED
  BY <1>1 DEF Init, RequestInit, LinkInit, LoadInit, SignInInv, LoginsOnly, SignInUsable, Online

\* A login that is written is the last of what is out.
LEMMA LoginWritten ==
    ASSUME NEW w \in Seq({Login})
    PROVE  /\ w \o <<Login>> \in Seq({Login})
           /\ \E r \in ToSet(w \o <<Login>>) : r.of = "login"
<1> DEFINE t == w \o <<Login>>
<1>1. <<Login>> \in Seq({Login}) /\ Len(<<Login>>) = 1 /\ <<Login>>[1] = Login
  OBVIOUS
<1>2. /\ t \in Seq({Login}) /\ Len(t) = Len(w) + 1
      /\ \A i \in 1..Len(t) : t[i] = IF i <= Len(w) THEN w[i] ELSE <<Login>>[i - Len(w)]
  BY <1>1, ConcatProperties
<1>3. Len(w) + 1 \in DOMAIN t /\ t[Len(w) + 1] = Login
  BY <1>1, <1>2, LenProperties
<1> QED
  BY <1>2, <1>3 DEF ToSet, Login

\* It is frozen by a login, and unfrozen by whatever loses one.
LEMMA SignInNext == SignInInv /\ [Next]_vars => SignInInv'
<1> SUFFICES ASSUME SignInInv, [Next]_vars PROVE SignInInv'
  OBVIOUS
<1> USE DEF SignInInv, LoginsOnly, SignInUsable, Online
<1>1. CASE SignIn
  <2>1. wire \in Seq({Login}) /\ ~signedIn /\ signedIn' = signedIn /\ socket' = socket
    BY <1>1 DEF SignIn, loadVars
  <2>2. wire' = IF socket = "connected" THEN wire \o <<Login>> ELSE wire
    BY <1>1 DEF SignIn, Written, Login
  <2> QED
    BY <2>1, <2>2, LoginWritten
<1>2. ASSUME NEW r \in Answers PROVE Refused(r) => SignInInv'
  <2>1. wire # <<>>
    BY <1>2 DEF Answers
  <2> QED
    BY <2>1, HeadTailProperties DEF Refused, loadVars
<1>3. ASSUME NEW r \in Answers PROVE Welcomed(r) => SignInInv'
  BY DEF Welcomed
<1>4. ASSUME NEW r \in Answers PROVE Answered(r) => SignInInv'
  <2>1. wire # <<>> /\ r.of = Head(wire).of
    BY <1>4 DEF Answers
  <2>2. ~signedIn => r.of = "login"
    BY <2>1, HeadTailProperties DEF Login
  <2>3. Answered(r) => signedIn /\ signedIn' = signedIn
    BY <2>2 DEF Answered, ContactIs
  <2> QED
    BY <2>3
<1>5. ASSUME NEW q PROVE TableHas(q) => SignInInv'
  BY DEF TableHas, ContactIs, linkVars, requestVars
<1>6. CASE Sends
  BY <1>6 DEF Sends
<1>7. CASE GetsNoAnswer
  <2>1. wire # <<>> /\ wire' = Tail(wire) /\ signedIn' = signedIn
    BY <1>7 DEF GetsNoAnswer, Unanswered
  <2>2. ~signedIn => Head(wire).of = "login" /\ Tail(wire) \in Seq({Login})
    BY <2>1, HeadTailProperties DEF Login
  <2>3. ~signedIn => unanswered'
    BY <1>7, <2>2 DEF GetsNoAnswer
  <2> QED
    BY <2>1, <2>2, <2>3
<1>8. CASE Drops
  BY <1>8 DEF Drops, TimesOut, linkVars
<1>9. CASE Connects
  BY <1>9 DEF Connects, Connected, requestVars, loadVars
<1>10. CASE ConnectFails \/ ConnectionLost
  <2>1. <<>> \in Seq({Login})
    OBVIOUS
  <2> QED
    BY <1>10, <2>1 DEF ConnectFails, ConnectionLost, Fails, LoseWire, requestVars, loadVars
<1>11. CASE Ends
  <2>1. <<>> \in Seq({Login})
    OBVIOUS
  <2> QED
    BY <1>11, <2>1 DEF Ends, LinkEnds, RequestsEnd
<1>12. CASE Retries \/ Starts
  BY <1>11, <1>12 DEF Retries, RetryTick, Starts, Launch, requestVars, loadVars
<1>13. CASE UNCHANGED vars
  BY <1>13 DEF vars, linkVars, requestVars, loadVars
<1> QED
  BY <1>1, <1>2, <1>3, <1>4, <1>5, <1>6, <1>7, <1>8, <1>9, <1>10, <1>11, <1>12, <1>13
     DEF Next, ReplyComes, TimerFires

\* With the connection up the sign-in button is frozen only by a login the
\* server has, or failed to answer.
THEOREM ButtonComesBack == Spec => []SignInUsable
<1>1. SignInInv => SignInUsable
  BY DEF SignInInv
<1> QED
  BY <1>1, SignInInit, SignInNext, PTL DEF Spec
------------------------------------------------------------------------------
\* Every set of numbers has a least one.
LEMMA Least ==
    ASSUME NEW S, S \subseteq Nat, S # {}
    PROVE  \E x \in S : \A y \in S : x <= y
<1> DEFINE R == OpToRel(<, Nat)
<1>1. \A a, b \in Nat : <<a, b>> \in R <=> a < b
  BY DEF OpToRel
<1>2. IsWellFoundedOn(R, Nat)
  BY NatLessThanWellFounded
<1> HIDE DEF R
<1>3. PICK x \in S : \A y \in S : ~(<<y, x>> \in R)
  BY <1>2, WFMin
<1>4. \A y \in S : x \in Nat /\ y \in Nat /\ ~(y < x)
  BY <1>1, <1>3
<1>5. \A y \in S : x <= y
  BY <1>4
<1> QED
  BY <1>5

\* A number put before an ascending sequence of greater ones.
LEMMA AscendingStep ==
    ASSUME NEW S \in SUBSET Nat, IsFiniteSet(S), NEW x \in S, \A y \in S : x <= y,
           NEW f \in Ascending(S \ {x})
    PROVE  Ascending(S) # {}
<1> DEFINE n == Cardinality(S \ {x})
           g == [i \in 1..Cardinality(S) |-> IF i = 1 THEN x ELSE f[i - 1]]
<1>1. n \in Nat /\ Cardinality(S) = n + 1
  <2>1. IsFiniteSet(S \ {x}) /\ n = Cardinality(S) - 1
    BY FS_RemoveElement
  <2>2. Cardinality(S) \in Nat /\ n \in Nat
    BY <2>1, FS_CardinalityType
  <2> HIDE DEF n
  <2> QED
    BY <2>1, <2>2
<1>2. f \in [1..n -> S \ {x}] /\ \A i, j \in DOMAIN f : i < j => f[i] < f[j]
  BY DEF Ascending
<1> HIDE DEF n
<1>3. \A i \in 1..(n + 1) : i = 1 \/ i - 1 \in 1..n
  BY <1>1
<1>4. g \in [1..Cardinality(S) -> S]
  BY <1>1, <1>2, <1>3
<1>5. ASSUME NEW i \in 1..(n + 1), NEW j \in 1..(n + 1), i < j PROVE g[i] < g[j]
  <2>1. g[i] \in Nat /\ g[j] \in Nat /\ j # 1 /\ j - 1 \in 1..n
    <3>1. j # 1 /\ j - 1 \in 1..n
      BY <1>1, <1>5
    <3>2. i \in 1..Cardinality(S) /\ j \in 1..Cardinality(S)
      BY <1>1
    <3> HIDE DEF g
    <3>3. g[i] \in S /\ g[j] \in S
      BY <1>4, <3>2
    <3> QED
      BY <3>1, <3>3
  <2>2. g[j] = f[j - 1] /\ f[j - 1] \in S \ {x}
    BY <1>1, <1>2, <2>1
  <2>3. CASE i = 1
    <3>1. g[i] = x /\ x <= f[j - 1] /\ x # f[j - 1]
      BY <1>1, <2>2, <2>3
    <3> QED
      BY <2>1, <2>2, <3>1
  <2>4. CASE i # 1
    <3>1. i - 1 \in 1..n /\ i - 1 < j - 1 /\ g[i] = f[i - 1]
      BY <1>1, <1>3, <1>5, <2>4
    <3> QED
      BY <1>2, <2>1, <2>2, <3>1
  <2> QED
    BY <2>3, <2>4
<1>6. g \in Ascending(S)
  <2> HIDE DEF g
  <2> QED
    BY <1>1, <1>4, <1>5 DEF Ascending
<1> QED
  BY <1>6

\* The members of a finite set of numbers can be put in order.
LEMMA AscendingExists ==
    ASSUME NEW S \in SUBSET Nat, IsFiniteSet(S)
    PROVE  Ascending(S) # {}
<1> DEFINE Bad == {n \in Nat : \E T \in SUBSET Nat :
                      IsFiniteSet(T) /\ Cardinality(T) = n /\ Ascending(T) = {}}
<1> SUFFICES ASSUME Ascending(S) = {} PROVE FALSE
  OBVIOUS
<1>1. Cardinality(S) \in Bad
  BY FS_CardinalityType
<1>2. Bad \subseteq Nat /\ Bad # {}
  BY <1>1
<1>3. PICK n \in Bad : \A k \in Bad : n <= k
  <2> HIDE DEF Bad
  <2> QED
    BY <1>2, Least
<1>4. PICK T \in SUBSET Nat : IsFiniteSet(T) /\ Cardinality(T) = n /\ Ascending(T) = {}
  BY <1>3
<1>5. T # {}
  <2> SUFFICES ASSUME T = {} PROVE FALSE
    OBVIOUS
  <2>1. Cardinality(T) = 0
    BY FS_EmptySet
  <2>2. 1..0 = {}
    OBVIOUS
  <2>3. [i \in 1..0 |-> 0] \in Ascending(T)
    BY <2>1, <2>2 DEF Ascending
  <2> QED
    BY <1>4, <2>3
<1>6. PICK x \in T : \A y \in T : x <= y
  BY <1>5, Least
<1>7. IsFiniteSet(T \ {x}) /\ Cardinality(T \ {x}) = n - 1 /\ n - 1 \in Nat
  <2>1. IsFiniteSet(T \ {x}) /\ Cardinality(T \ {x}) = n - 1
    BY <1>4, <1>6, FS_RemoveElement
  <2>2. Cardinality(T \ {x}) \in Nat
    BY <2>1, FS_CardinalityType
  <2> QED
    BY <2>1, <2>2
<1>8. Ascending(T \ {x}) # {}
  <2> SUFFICES ASSUME Ascending(T \ {x}) = {} PROVE FALSE
    OBVIOUS
  <2>1. n - 1 \in Bad
    BY <1>7
  <2> QED
    BY <1>2, <1>3, <1>7, <2>1
<1> QED
  BY <1>4, <1>6, <1>8, AscendingStep

\* The numbers from one to n are n.
LEMMA UpTo == ASSUME NEW n \in Nat PROVE IsFiniteSet(1..n) /\ Cardinality(1..n) = n
  BY FS_Interval

\* Each of new that is at one of the places comes once.
Enumerates(f, picked, new, places) ==
    /\ f \in [1..Cardinality(places) -> places]
    /\ \A i \in 1..Cardinality(places) : picked[i] = new[f[i]]
    /\ \A i, j \in 1..Cardinality(places) : f[i] = f[j] => i = j
    /\ \A k \in places : \E i \in 1..Cardinality(places) : f[i] = k

\* What is picked is what is at the places, each once.
LEMMA PickedIs ==
    ASSUME NEW new, DOMAIN new \in SUBSET Nat, NEW S \in SUBSET Nat, IsFiniteSet(S)
    PROVE  /\ Cardinality(S) \in Nat
           /\ DOMAIN Picked(new, S) = 1..Cardinality(S) /\ Len(Picked(new, S)) = Cardinality(S)
           /\ \E f : Enumerates(f, Picked(new, S), new, S)
<1> DEFINE n == Cardinality(S)
           f == CHOOSE g \in Ascending(S) : TRUE
<1>1. n \in Nat
  BY FS_CardinalityType
<1>2. f \in Ascending(S)
  BY AscendingExists
<1>3. Picked(new, S) = [i \in 1..n |-> new[f[i]]]
  BY DEF Picked
<1> HIDE DEF f, n
<1>4. f \in [1..n -> S] /\ \A i, j \in 1..n : i < j => f[i] < f[j]
  BY <1>2 DEF Ascending, n
<1>5. ASSUME NEW i \in 1..n, NEW j \in 1..n, f[i] = f[j] PROVE i = j
  <2>1. f[i] \in Nat /\ f[j] \in Nat
    BY <1>4
  <2>2. ~(i < j) /\ ~(j < i)
    BY <1>4, <1>5, <2>1
  <2> QED
    BY <1>1, <2>2
<1>6. \A k \in S : \E i \in 1..n : f[i] = k
  <2>1. f \in Injection(1..n, S)
    BY <1>4, <1>5 DEF Injection, IsInjective
  <2>2. IsFiniteSet(1..n) /\ Cardinality(1..n) = n
    BY <1>1, FS_Interval
  <2>3. f \in Surjection(1..n, S)
    BY <2>1, <2>2, FS_Injection DEF n
  <2> QED
    BY <2>3 DEF Surjection
<1>7. Len(Picked(new, S)) = n /\ DOMAIN Picked(new, S) = 1..n
  BY <1>1, <1>3
<1>8. \A i \in 1..n : Picked(new, S)[i] = new[f[i]]
  BY <1>3
<1>9. Enumerates(f, Picked(new, S), new, S)
  BY <1>1, <1>4, <1>5, <1>6, <1>8 DEF n, Enumerates
<1> QED
  BY <1>1, <1>7, <1>9 DEF n

------------------------------------------------------------------------------
Kind == Subject \union {"login", "message"}
Name == Subject \union {Unset, Empty}
Entry == [id : Nat, seen : BOOLEAN, todo : Todo]

\* The contacts whose look-up has not come back.
Open == {i \in DOMAIN slots : slots[i] = Unset}

\* A callback of the loader, for a contact that is still open.
Due(todo) == todo.index \in Open /\ todo.of = Contacts[todo.index]

\* Until the user has signed in only one login is out, and there is nothing
\* else; once he has, no login is.
GateInv ==
    /\ signedIn \in BOOLEAN
    /\ ~signedIn =>
          /\ wire \in {<<>>, <<Login>>} /\ (wire # <<>> => ~signIn)
          /\ pending = {} /\ local = <<>>
          /\ slots = <<>> /\ shown = <<>> /\ waiting = 0
    /\ signedIn => \A k \in DOMAIN wire : wire[k].of # "login"
    /\ socket # "connected" => wire = <<>>
    /\ ~running => socket = "unconnected"

WireInv ==
    /\ wire \in Seq([id : Nat, of : Kind])
    /\ \A k \in DOMAIN wire : wire[k].id <= asked
    /\ asked \in 0..MaxRequests
    /\ clash \in BOOLEAN /\ timer \in BOOLEAN

EntriesInv == pending \in SUBSET Entry /\ \A e \in pending : e.id \in 1..asked

\* As long as no id was drawn twice, what is out under an entry's id is its own
\* request.
OwnAnswers ==
    ~clash => \A k \in DOMAIN wire : \A e \in pending :
                 wire[k].id = e.id /\ e.todo # Plain => wire[k].of = e.todo.of

\* The look-ups that are out, at the server or answered from the table, are of
\* open contacts, and no contact has two.
OutInv ==
    /\ \A e \in pending : e.todo # Plain => Due(e.todo)
    /\ \A d, e \in pending : d.todo # Plain /\ d.todo.index = e.todo.index => d = e
    /\ local \in Seq([todo : Todo, name : Subject])
    /\ \A k \in DOMAIN local :
          Due(local[k].todo) /\ local[k].name = Contacts[local[k].todo.index]
    /\ \A j, k \in DOMAIN local : local[j].todo.index = local[k].todo.index => j = k
    /\ \A k \in DOMAIN local : \A e \in pending : local[k].todo.index # e.todo.index

\* The page counts the open contacts, and the others have a name.
SlotInv ==
    /\ slots \in Seq(Name) /\ Len(slots) = IF signedIn THEN Len(Contacts) ELSE 0
    /\ waiting = Cardinality(Open)
    /\ \A i \in DOMAIN slots : clash \/ slots[i] \in {Unset, Contacts[i], Empty}
    /\ shown \in Seq(Name) /\ ContactsComplete

FlagInv == dbOpen \in BOOLEAN /\ missed \in BOOLEAN /\ unanswered \in BOOLEAN

LoadInv ==
    /\ LinkTypeOK /\ RowsInv /\ FlagInv
    /\ GateInv /\ WireInv /\ EntriesInv /\ OwnAnswers /\ OutInv /\ SlotInv

------------------------------------------------------------------------------
\* The head and the tail of a queue.
LEMMA TailIs ==
    ASSUME NEW S, NEW s \in Seq(S), s # <<>>
    PROVE  /\ Tail(s) \in Seq(S) /\ 1 \in DOMAIN s /\ Head(s) = s[1] /\ s[1] \in S
           /\ \A k \in DOMAIN Tail(s) : k + 1 \in DOMAIN s /\ Tail(s)[k] = s[k + 1]
<1>1. Len(s) \in Nat /\ Len(s) # 0 /\ DOMAIN s = 1..Len(s)
  BY EmptySeq, LenProperties
<1>2. Len(Tail(s)) = Len(s) - 1 /\ Tail(s) \in Seq(S) /\ Head(s) = s[1]
  BY HeadTailProperties
<1>3. DOMAIN Tail(s) = 1..(Len(s) - 1)
  BY <1>2, LenProperties
<1>4. \A k \in 1..(Len(s) - 1) : Tail(s)[k] = s[k + 1]
  BY HeadTailProperties
<1>5. s[1] \in S
  BY <1>1, ElementOfSeq
<1> QED
  BY <1>1, <1>2, <1>3, <1>4, <1>5

\* The members of two queues put together.
LEMMA TogetherIs ==
    ASSUME NEW S, NEW s \in Seq(S), NEW t \in Seq(S)
    PROVE  /\ s \o t \in Seq(S)
           /\ \A k \in DOMAIN (s \o t) :
                 \/ k \in DOMAIN s /\ (s \o t)[k] = s[k]
                 \/ k - Len(s) \in DOMAIN t /\ (s \o t)[k] = t[k - Len(s)]
<1>1. Len(s) \in Nat /\ DOMAIN s = 1..Len(s) /\ Len(t) \in Nat /\ DOMAIN t = 1..Len(t)
  BY LenProperties
<1>2. /\ s \o t \in Seq(S) /\ Len(s \o t) = Len(s) + Len(t)
      /\ \A i \in 1..(Len(s) + Len(t)) :
            (s \o t)[i] = IF i <= Len(s) THEN s[i] ELSE t[i - Len(s)]
  BY ConcatProperties
<1>3. DOMAIN (s \o t) = 1..(Len(s) + Len(t))
  BY <1>2, LenProperties
<1> QED
  BY <1>1, <1>2, <1>3

\* An answer is to the request that was sent first.
LEMMA AnswerIs ==
    ASSUME NEW r \in Answers
    PROVE  /\ running /\ socket = "connected" /\ wire # <<>>
           /\ r.id = Head(wire).id /\ r.of = Head(wire).of /\ r.ok \in BOOLEAN
<1>1. running /\ socket = "connected" /\ wire # <<>>
  BY DEF Answers, Online
<1>2. PICK ok \in {TRUE, Head(wire).of = "message"} :
         r = [id |-> Head(wire).id, of |-> Head(wire).of, ok |-> ok]
  BY <1>1 DEF Answers, Online
<1>3. ok \in BOOLEAN
  BY <1>2
<1> QED
  BY <1>1, <1>2, <1>3

\* What is taken from the requests that are out leaves the rest as they were.
LEMMA ShorterWire ==
    ASSUME GateInv, WireInv, OwnAnswers, signedIn, signedIn' = signedIn, wire # <<>>, wire' = Tail(wire),
           asked' = asked, clash' = clash, timer' \in BOOLEAN, pending' \subseteq pending
    PROVE  WireInv' /\ OwnAnswers' /\ \A k \in DOMAIN wire' : wire'[k].of # "login"
<1>1. /\ wire' \in Seq([id : Nat, of : Kind])
      /\ \A k \in DOMAIN wire' : k + 1 \in DOMAIN wire /\ wire'[k] = wire[k + 1]
  BY TailIs DEF WireInv
<1>2. WireInv'
  BY <1>1 DEF WireInv
<1>3. OwnAnswers'
  BY <1>1 DEF OwnAnswers
<1>4. \A k \in DOMAIN wire' : wire'[k].of # "login"
  BY <1>1 DEF GateInv
<1> QED
  BY <1>2, <1>3, <1>4

\* The ids that requests made in one go may draw.
LEMMA IdsAre ==
    ASSUME EntriesInv, asked \in Nat, NEW n \in Nat, NEW rest \in SUBSET pending,
           NEW ids \in NewIds(n, rest)
    PROVE  /\ ids \in [1..n -> 1..(asked + n)]
           /\ \A i \in 1..n : ids[i] \notin Young(rest) => ids[i] > asked
<1>1. Young(rest) \subseteq 1..asked
  BY DEF Young, EntriesInv
<1>2. ids \in [1..n -> Young(rest) \union (asked + 1)..(asked + n)]
  BY DEF NewIds
<1>3. \A i \in 1..n : ids[i] \in Young(rest) \/ ids[i] \in (asked + 1)..(asked + n)
  BY <1>2
<1>4. \A i \in 1..n : ids[i] \in 1..(asked + n) /\ (ids[i] \notin Young(rest) => ids[i] > asked)
  BY <1>1, <1>3
<1> QED
  BY <1>2, <1>4

------------------------------------------------------------------------------
\* The callback of an open contact: it gets its name, and the last one fills
\* the page.
LEMMA NameComes ==
    ASSUME SlotInv, signedIn, NEW i \in Open, NEW name \in Subject \union {Empty},
           clash \/ name \in {Contacts[i], Empty}, clash' = clash, ContactIs(i, name)
    PROVE  SlotInv' /\ Open' = Open \ {i} /\ signedIn' = signedIn
<1>1. /\ slots \in Seq(Name) /\ Len(slots) = Len(Contacts) /\ i \in DOMAIN slots
      /\ DOMAIN slots = 1..Len(slots) /\ DOMAIN Contacts = DOMAIN slots
  BY LenProperties, ContactAssumption DEF SlotInv, Open
<1>2. /\ slots' = [slots EXCEPT ![i] = name] /\ waiting' = waiting - 1 /\ signedIn' = signedIn
      /\ shown' = IF waiting = 1 THEN slots' ELSE shown
  BY DEF ContactIs
<1>3. name \in Name /\ name # Unset
  BY TagAssumption DEF Name
<1>4. /\ slots' \in Seq(Name) /\ Len(slots') = Len(slots) /\ DOMAIN slots' = DOMAIN slots
      /\ slots'[i] = name /\ \A j \in DOMAIN slots : j # i => slots'[j] = slots[j]
  BY <1>1, <1>2, <1>3
<1>5. Open' = Open \ {i}
  BY <1>1, <1>3, <1>4 DEF Open
<1>6. Open \subseteq 1..Len(slots) /\ IsFiniteSet(Open)
  <2>1. Open \subseteq 1..Len(slots) /\ Len(slots) \in Nat
    BY <1>1 DEF Open
  <2>2. IsFiniteSet(1..Len(slots))
    BY <2>1, FS_Interval
  <2> QED
    BY <2>1, <2>2, FS_Subset
<1>7. Cardinality(Open') = Cardinality(Open) - 1
  BY <1>5, <1>6, FS_RemoveElement
<1>8. \A j \in DOMAIN slots' : clash' \/ slots'[j] \in {Unset, Contacts[j], Empty}
  BY <1>1, <1>4 DEF SlotInv
<1>9. shown' \in Seq(Name) /\ ContactsComplete'
  <2>1. CASE waiting = 1
    <3>1. Cardinality(Open') = 0 /\ IsFiniteSet(Open')
      BY <1>5, <1>6, <1>7, <2>1, FS_Subset DEF SlotInv
    <3>2. Open' = {}
      BY <3>1, FS_EmptySet
    <3>3. \A j \in DOMAIN slots' : slots'[j] # Unset
      BY <3>2 DEF Open
    <3>4. shown' = slots'
      BY <1>2, <2>1
    <3> QED
      BY <1>1, <1>4, <1>8, <3>3, <3>4 DEF ContactsComplete
  <2>2. CASE waiting # 1
    BY <1>2, <2>2 DEF SlotInv, ContactsComplete
  <2> QED
    BY <2>1, <2>2
<1>10. waiting' = Cardinality(Open')
  BY <1>2, <1>7 DEF SlotInv
<1> QED
  BY <1>1, <1>2, <1>4, <1>5, <1>8, <1>9, <1>10 DEF SlotInv

------------------------------------------------------------------------------
\* A contact is looked up under its own index, here or at the server.
LEMMA LookUpsAre ==
    /\ DOMAIN LookUps = DOMAIN Contacts /\ DOMAIN Contacts = 1..Len(Contacts) /\ Len(Contacts) \in Nat
    /\ \A i \in DOMAIN Contacts :
          /\ Contacts[i] \in Subject
          /\ LookUps[i] = [of |-> Contacts[i], todo |-> [index |-> i, of |-> Contacts[i]]]
<1>1. DOMAIN Contacts = 1..Len(Contacts) /\ Len(Contacts) \in Nat
  BY ContactAssumption, LenProperties
<1>2. \A i \in DOMAIN Contacts : Contacts[i] \in Subject
  BY <1>1, ContactAssumption, ElementOfSeq
<1> QED
  BY <1>1, <1>2 DEF LookUps, OwnIndex

\* A part of the look-ups, each of them once.
LEMMA PartIs ==
    ASSUME NEW S \in SUBSET DOMAIN Contacts
    PROVE  LET part == Picked(LookUps, S)
           IN  /\ DOMAIN part = 1..Len(part) /\ Len(part) \in Nat
               /\ \A i \in DOMAIN part :
                     /\ part[i].todo \in Todo /\ part[i].todo.index \in S /\ part[i].todo # Plain
                     /\ part[i].of = part[i].todo.of /\ part[i].of = Contacts[part[i].todo.index]
                     /\ part[i].of \in Subject
               /\ \A i, j \in DOMAIN part : part[i].todo.index = part[j].todo.index => i = j
               /\ \A k \in S : \E i \in DOMAIN part : part[i].todo.index = k
<1> DEFINE part == Picked(LookUps, S)
<1>1. DOMAIN LookUps \in SUBSET Nat /\ S \in SUBSET Nat /\ IsFiniteSet(S)
  <2>1. DOMAIN Contacts \subseteq Nat /\ IsFiniteSet(DOMAIN Contacts)
    BY LookUpsAre, FS_Interval
  <2> QED
    BY <2>1, LookUpsAre, FS_Subset
<1>2. DOMAIN part = 1..Len(part) /\ Len(part) \in Nat
  BY <1>1, PickedIs
<1>3. PICK f \in [1..Len(part) -> S] :
         /\ \A i \in 1..Len(part) : part[i] = LookUps[f[i]]
         /\ \A i, j \in 1..Len(part) : f[i] = f[j] => i = j
         /\ \A k \in S : \E i \in 1..Len(part) : f[i] = k
  <2>1. Len(part) = Cardinality(S)
    BY <1>1, PickedIs
  <2>2. PICK f : Enumerates(f, part, LookUps, S)
    BY <1>1, PickedIs
  <2> HIDE DEF part
  <2> QED
    BY <2>1, <2>2 DEF Enumerates
<1> HIDE DEF part
<1>4. ASSUME NEW i \in DOMAIN part
      PROVE  /\ f[i] \in DOMAIN Contacts /\ Contacts[f[i]] \in Subject /\ f[i] \in S
             /\ part[i] = [of |-> Contacts[f[i]], todo |-> [index |-> f[i], of |-> Contacts[f[i]]]]
  BY <1>2, <1>3, LookUpsAre
<1>5. ASSUME NEW i \in DOMAIN part
      PROVE  /\ part[i].todo \in Todo /\ part[i].todo.index \in S /\ part[i].todo # Plain
             /\ part[i].of = part[i].todo.of /\ part[i].of = Contacts[part[i].todo.index]
             /\ part[i].of \in Subject /\ part[i].todo.index = f[i]
  <2>1. f[i] # 0
    BY <1>4, LookUpsAre
  <2> QED
    BY <1>4, <2>1 DEF Todo, Plain
<1>6. ASSUME NEW i \in DOMAIN part, NEW j \in DOMAIN part, part[i].todo.index = part[j].todo.index
      PROVE  i = j
  <2>1. f[i] = f[j]
    BY <1>5, <1>6
  <2> QED
    BY <1>2, <1>3, <2>1
<1>7. /\ \A i, j \in DOMAIN part : part[i].todo.index = part[j].todo.index => i = j
      /\ \A k \in S : \E i \in DOMAIN part : part[i].todo.index = k
  BY <1>2, <1>3, <1>5, <1>6
<1> QED
  BY <1>2, <1>5, <1>7 DEF part

\* The ones answered from the table carry the names of the contacts.
LEMMA FromTableIs ==
    ASSUME RowsInv
    PROVE  LET found == FromTable(LookUps)
           IN  /\ found \in Seq([todo : Todo, name : Subject])
               /\ \A i \in DOMAIN found :
                     /\ found[i].todo.index \in Hits(LookUps)
                     /\ found[i].todo.of = Contacts[found[i].todo.index]
                     /\ found[i].name = Contacts[found[i].todo.index]
               /\ \A i, j \in DOMAIN found : found[i].todo.index = found[j].todo.index => i = j
               /\ \A k \in Hits(LookUps) : \E i \in DOMAIN found : found[i].todo.index = k
<1> DEFINE hits == Picked(LookUps, Hits(LookUps))
           found == FromTable(LookUps)
<1>1. Hits(LookUps) \in SUBSET DOMAIN Contacts
  BY LookUpsAre DEF Hits
<1>2. /\ DOMAIN hits = 1..Len(hits) /\ Len(hits) \in Nat
      /\ \A i \in DOMAIN hits :
            /\ hits[i].todo \in Todo /\ hits[i].todo.index \in Hits(LookUps)
            /\ hits[i].of = hits[i].todo.of /\ hits[i].of = Contacts[hits[i].todo.index]
            /\ hits[i].of \in Subject
      /\ \A i, j \in DOMAIN hits : hits[i].todo.index = hits[j].todo.index => i = j
      /\ \A k \in Hits(LookUps) : \E i \in DOMAIN hits : hits[i].todo.index = k
  BY <1>1, PartIs
<1>3. found = [i \in DOMAIN hits |-> [todo |-> hits[i].todo, name |-> rows[hits[i].of]]]
  BY DEF FromTable
<1> HIDE DEF hits, found
<1>4. ASSUME NEW i \in DOMAIN hits
      PROVE  rows[hits[i].of] = hits[i].of
  <2>1. hits[i].todo.index \in DOMAIN Contacts /\ Hit(LookUps[hits[i].todo.index].of)
    BY <1>2, LookUpsAre DEF Hits
  <2>2. LookUps[hits[i].todo.index].of = hits[i].of
    BY <1>2, <2>1, LookUpsAre
  <2> QED
    BY <1>2, <2>1, <2>2 DEF Hit, RowsInv, CacheTrue
<1>5. ASSUME NEW i \in DOMAIN hits
      PROVE  found[i] \in [todo : Todo, name : Subject] /\ found[i].todo = hits[i].todo
             /\ found[i].name = hits[i].of
  BY <1>2, <1>3, <1>4
<1>6. DOMAIN found = 1..Len(hits) /\ found \in Seq([todo : Todo, name : Subject])
  <2> DEFINE S == [todo : Todo, name : Subject]
  <2>1. found \in [1..Len(hits) -> S]
    BY <1>2, <1>3, <1>5
  <2>2. Len(hits) \in Nat
    BY <1>2
  <2> HIDE DEF S
  <2>3. found \in Seq(S)
    BY <2>1, <2>2, IsSequence
  <2> QED
    BY <2>1, <2>3 DEF S
<1>7. \A i \in DOMAIN found :
         /\ found[i].todo.index \in Hits(LookUps)
         /\ found[i].todo.of = Contacts[found[i].todo.index]
         /\ found[i].name = Contacts[found[i].todo.index]
  BY <1>2, <1>5, <1>6
<1>8. /\ \A i, j \in DOMAIN found : found[i].todo.index = found[j].todo.index => i = j
      /\ \A k \in Hits(LookUps) : \E i \in DOMAIN found : found[i].todo.index = k
  BY <1>2, <1>5, <1>6
<1> QED
  BY <1>6, <1>7, <1>8 DEF found

\* The entries of requests made in one go are each of one of them, and none of
\* another under the same id unless it came later.
LEMMA EntriesAre ==
    ASSUME NEW new, NEW ids, NEW e \in EntriesFor(new, ids)
    PROVE  \E i \in DOMAIN new : e = [id |-> ids[i], seen |-> FALSE, todo |-> new[i].todo]
  BY DEF EntriesFor

\* Entries made in one go have each their id.
LEMMA EntriesApart ==
    ASSUME NEW new, NEW ids, DOMAIN new \in SUBSET Nat,
           NEW d \in EntriesFor(new, ids), NEW e \in EntriesFor(new, ids), d.id = e.id
    PROVE  d = e
<1>1. PICK i \in DOMAIN new : /\ \A k \in DOMAIN new : ids[k] = ids[i] => k <= i
                              /\ d = [id |-> ids[i], seen |-> FALSE, todo |-> new[i].todo]
  BY DEF EntriesFor
<1>2. PICK j \in DOMAIN new : /\ \A k \in DOMAIN new : ids[k] = ids[j] => k <= j
                              /\ e = [id |-> ids[j], seen |-> FALSE, todo |-> new[j].todo]
  BY DEF EntriesFor
<1>3. ids[i] = ids[j]
  BY <1>1, <1>2
<1>4. i <= j /\ j <= i /\ i \in Nat /\ j \in Nat
  BY <1>1, <1>2, <1>3
<1>5. i = j
  BY <1>4
<1> QED
  BY <1>1, <1>2, <1>5

\* Nothing is left of a queue of one.
LEMMA OneLeft == ASSUME NEW x PROVE Tail(<<x>>) = <<>>
  OBVIOUS

\* The login succeeds and every contact is looked up.
LEMMA WelcomedKeeps ==
    ASSUME LoadInv, NEW r \in Answers, Welcomed(r)
    PROVE  GateInv' /\ WireInv' /\ EntriesInv' /\ OwnAnswers' /\ OutInv' /\ SlotInv'
<1> DEFINE new == FromServer(LookUps)
           found == FromTable(LookUps)
<1>1. running /\ socket = "connected" /\ wire # <<>> /\ r.of = Head(wire).of /\ r.of = "login"
  BY AnswerIs DEF Welcomed
<1>2. ~signedIn
  BY <1>1, TailIs DEF LoadInv, GateInv, WireInv
<1>3. /\ Tail(wire) = <<>> /\ pending = {} /\ local = <<>> /\ shown = <<>>
  <2>1. wire = <<Login>>
    BY <1>1, <1>2 DEF LoadInv, GateInv
  <2> QED
    BY <1>2, <2>1, OneLeft DEF LoadInv, GateInv
<1>4. /\ signedIn' = TRUE /\ slots' = [i \in DOMAIN Contacts |-> Unset]
      /\ waiting' = Len(Contacts) /\ shown' = shown
      /\ local' = local \o found /\ Ask(new, pending, Tail(wire))
      /\ timer' = (pending' # {} /\ (timer \/ new # <<>>))
      /\ running' = running /\ socket' = socket
  BY DEF Welcomed, LookUp, InTurn, StopWhenEmpty, linkVars
<1>5. /\ DOMAIN new = 1..Len(new) /\ Len(new) \in Nat
      /\ \A i \in DOMAIN new :
            /\ new[i].todo \in Todo /\ new[i].todo.index \in DOMAIN LookUps \ Hits(LookUps)
            /\ new[i].todo # Plain
            /\ new[i].of = new[i].todo.of /\ new[i].of = Contacts[new[i].todo.index]
            /\ new[i].of \in Subject
      /\ \A i, j \in DOMAIN new : new[i].todo.index = new[j].todo.index => i = j
  <2>1. DOMAIN LookUps \ Hits(LookUps) \in SUBSET DOMAIN Contacts
    BY LookUpsAre
  <2> QED
    BY <2>1, PartIs DEF FromServer
<1>6. /\ found \in Seq([todo : Todo, name : Subject])
      /\ \A i \in DOMAIN found :
            /\ found[i].todo.index \in Hits(LookUps)
            /\ found[i].todo.of = Contacts[found[i].todo.index]
            /\ found[i].name = Contacts[found[i].todo.index]
      /\ \A i, j \in DOMAIN found : found[i].todo.index = found[j].todo.index => i = j
  BY FromTableIs DEF LoadInv
<1> HIDE DEF new, found
<1>7. asked \in Nat /\ asked' = asked + Len(new) /\ asked' \in 0..MaxRequests
  BY <1>4, <1>5, RequestAssumption DEF Ask, LoadInv, WireInv
<1>8. PICK ids \in NewIds(Len(new), pending) :
         /\ pending' = {e \in pending : e.id \notin Range(ids)} \union EntriesFor(new, ids)
         /\ wire' = Written(Tail(wire), [i \in DOMAIN new |-> [id |-> ids[i], of |-> new[i].of]])
         /\ clash' = (clash \/ Range(ids) \cap Young(pending) # {} \/ ~IsInjective(ids))
  BY <1>4 DEF Ask
<1>9. ids \in [1..Len(new) -> 1..(asked + Len(new))]
  BY <1>5, <1>7, <1>8, IdsAre DEF LoadInv
<1>10. pending' = EntriesFor(new, ids)
  BY <1>3, <1>8
<1>11. ASSUME NEW e \in pending'
       PROVE  \E i \in DOMAIN new : e = [id |-> ids[i], seen |-> FALSE, todo |-> new[i].todo]
  BY <1>10, EntriesAre
<1>12. wire' = [i \in DOMAIN new |-> [id |-> ids[i], of |-> new[i].of]]
  <2> DEFINE line == [i \in DOMAIN new |-> [id |-> ids[i], of |-> new[i].of]]
  <2>1. line \in Seq([id : Nat, of : Kind])
    <3>1. \A i \in DOMAIN new : line[i] \in [id : Nat, of : Kind]
      BY <1>5, <1>7, <1>9 DEF Kind
    <3>2. line \in [1..Len(new) -> [id : Nat, of : Kind]]
      BY <1>5, <3>1
    <3>3. Len(new) \in Nat
      BY <1>5
    <3> QED
      BY <3>2, <3>3, IsSequence
  <2>2. wire' = <<>> \o line
    BY <1>1, <1>3, <1>8 DEF Written
  <2> HIDE DEF line
  <2>3. <<>> \o line = line
    BY <2>1, ConcatEmptySeq
  <2> QED
    BY <2>2, <2>3 DEF line
<1>13. ASSUME NEW i \in DOMAIN new
       PROVE  wire'[i] \in [id : Nat, of : Kind] /\ wire'[i].id = ids[i] /\ ids[i] <= asked'
              /\ ids[i] \in 1..asked' /\ wire'[i].of = new[i].of /\ wire'[i].of # "login"
  BY <1>5, <1>7, <1>9, <1>12, TagAssumption DEF Kind
<1>14. wire' \in Seq([id : Nat, of : Kind]) /\ DOMAIN wire' = DOMAIN new
  <2>1. wire' \in [1..Len(new) -> [id : Nat, of : Kind]]
    BY <1>5, <1>12, <1>13
  <2>2. Len(new) \in Nat /\ DOMAIN wire' = DOMAIN new
    BY <1>5, <1>12
  <2> QED
    BY <2>1, <2>2, IsSequence
<1>15. GateInv'
  BY <1>1, <1>4, <1>13, <1>14 DEF GateInv
<1>16. WireInv'
  BY <1>4, <1>7, <1>8, <1>13, <1>14 DEF LoadInv, WireInv
<1>17. EntriesInv'
  <2>1. ASSUME NEW e \in pending' PROVE e \in Entry /\ e.id \in 1..asked'
    <3>1. PICK i \in DOMAIN new : e = [id |-> ids[i], seen |-> FALSE, todo |-> new[i].todo]
      BY <1>11
    <3> QED
      BY <1>5, <1>7, <1>13, <3>1 DEF Entry
  <2> QED
    BY <2>1 DEF EntriesInv
<1>18. OwnAnswers'
  <2>1. ASSUME ~clash', NEW k \in DOMAIN wire', NEW e \in pending', wire'[k].id = e.id
        PROVE  wire'[k].of = e.todo.of
    <3>1. PICK i \in DOMAIN new : e = [id |-> ids[i], seen |-> FALSE, todo |-> new[i].todo]
      BY <1>11
    <3>2. IsInjective(ids)
      BY <1>8, <2>1
    <3>3. k \in DOMAIN new /\ ids[k] = ids[i]
      BY <1>13, <1>14, <2>1, <3>1
    <3>4. k = i
      BY <1>5, <1>9, <3>2, <3>3 DEF IsInjective
    <3> QED
      BY <1>5, <1>13, <3>1, <3>4
  <2> QED
    BY <2>1 DEF OwnAnswers
<1>19. Open' = DOMAIN Contacts
  BY <1>4 DEF Open
<1>20. OutInv'
  <2>1. local' = found
    BY <1>3, <1>4, <1>6, ConcatEmptySeq
  <2>2. ASSUME NEW e \in pending'
        PROVE  Due(e.todo)' /\ e.todo.index \notin Hits(LookUps)
    <3>1. PICK i \in DOMAIN new : e = [id |-> ids[i], seen |-> FALSE, todo |-> new[i].todo]
      BY <1>11
    <3> QED
      BY <1>5, <1>19, <3>1, LookUpsAre DEF Due
  <2>3. ASSUME NEW d \in pending', NEW e \in pending', d.todo.index = e.todo.index
        PROVE  d = e
    <3>1. PICK i \in DOMAIN new : d = [id |-> ids[i], seen |-> FALSE, todo |-> new[i].todo]
      BY <1>11
    <3>2. PICK j \in DOMAIN new : e = [id |-> ids[j], seen |-> FALSE, todo |-> new[j].todo]
      BY <1>11
    <3>3. i = j
      BY <1>5, <2>3, <3>1, <3>2
    <3> QED
      BY <3>1, <3>2, <3>3
  <2>4. Hits(LookUps) \subseteq DOMAIN Contacts
    BY LookUpsAre DEF Hits
  <2>5. ASSUME NEW k \in DOMAIN local'
        PROVE  /\ local'[k].todo.index \in Open' /\ local'[k].todo.of = Contacts[local'[k].todo.index]
               /\ local'[k].name = Contacts[local'[k].todo.index]
               /\ local'[k].todo.index \in Hits(LookUps)
    BY <1>6, <1>19, <2>1, <2>4
  <2>6. \A j, k \in DOMAIN local' : local'[j].todo.index = local'[k].todo.index => j = k
    BY <1>6, <2>1
  <2>7. \A k \in DOMAIN local' : \A e \in pending' : local'[k].todo.index # e.todo.index
    BY <2>2, <2>5
  <2> QED
    BY <1>6, <2>1, <2>2, <2>3, <2>5, <2>6, <2>7 DEF OutInv, Due
<1>21. SlotInv'
  <2>1. /\ slots' \in Seq(Name) /\ Len(slots') = Len(Contacts)
        /\ DOMAIN slots' = DOMAIN Contacts /\ \A i \in DOMAIN slots' : slots'[i] = Unset
    <3>1. slots' \in [1..Len(Contacts) -> Name]
      BY <1>4, LookUpsAre DEF Name
    <3>2. Len(Contacts) \in Nat /\ DOMAIN Contacts = 1..Len(Contacts)
      BY LookUpsAre
    <3>3. slots' \in Seq(Name)
      BY <3>1, <3>2, IsSequence
    <3>4. Len(slots') = Len(Contacts)
      BY <3>1, <3>2, <3>3, LenProperties
    <3> QED
      BY <1>4, <3>1, <3>2, <3>3, <3>4
  <2>2. waiting' = Cardinality(Open')
    <3>1. Len(Contacts) \in Nat /\ DOMAIN Contacts = 1..Len(Contacts)
      BY LookUpsAre
    <3>2. Cardinality(1..Len(Contacts)) = Len(Contacts)
      BY <3>1, UpTo
    <3> QED
      BY <1>4, <1>19, <3>1, <3>2
  <2>3. shown' = <<>> /\ <<>> \in Seq(Name)
    BY <1>3, <1>4
  <2> QED
    BY <1>4, <2>1, <2>2, <2>3 DEF SlotInv, ContactsComplete
<1> QED
  BY <1>15, <1>16, <1>17, <1>18, <1>20, <1>21

\* An answer from the table, in turn.
LEMMA TableKeeps ==
    ASSUME LoadInv, NEW q, TableHas(q)
    PROVE  LoadInv'
<1>1. /\ local # <<>> /\ q = Head(local) /\ local' = Tail(local) /\ rows' = rows /\ dbOpen' = dbOpen
      /\ UNCHANGED <<linkVars, requestVars>> /\ ContactIs(q.todo.index, q.name)
  BY DEF TableHas, TableAnswers
<1>2. /\ 1 \in DOMAIN local /\ q = local[1] /\ q \in [todo : Todo, name : Subject]
      /\ local' \in Seq([todo : Todo, name : Subject])
      /\ \A k \in DOMAIN local' : k + 1 \in DOMAIN local /\ local'[k] = local[k + 1]
  <2>1. local \in Seq([todo : Todo, name : Subject])
    BY DEF LoadInv, OutInv
  <2> QED
    BY <1>1, <2>1, TailIs
<1>3. signedIn
  BY <1>1 DEF LoadInv, GateInv
<1>4. q.todo.index \in Open /\ q.name = Contacts[q.todo.index] /\ q.name \in Subject
  BY <1>2 DEF LoadInv, OutInv, Due
<1>5. clash' = clash
  BY <1>1 DEF requestVars
<1>6. SlotInv' /\ Open' = Open \ {q.todo.index} /\ signedIn' = signedIn
  BY <1>1, <1>3, <1>4, <1>5, NameComes DEF LoadInv
<1>7. OutInv'
  <2>1. pending' = pending
    BY <1>1 DEF requestVars
  <2>2. ASSUME NEW e \in pending', e.todo # Plain PROVE Due(e.todo)'
    BY <1>2, <1>6, <2>1, <2>2 DEF LoadInv, OutInv, Due
  <2>3. ASSUME NEW k \in DOMAIN local'
        PROVE  /\ k + 1 \in DOMAIN local /\ local'[k] = local[k + 1] /\ k + 1 # 1
               /\ local'[k].todo.index # q.todo.index
    <3>1. k \in Nat /\ k # 0
      BY <1>2, LenProperties
    <3> QED
      BY <1>2, <3>1 DEF LoadInv, OutInv
  <2>4. ASSUME NEW k \in DOMAIN local'
        PROVE  /\ local'[k].todo.index \in Open' /\ local'[k].todo.of = Contacts[local'[k].todo.index]
               /\ local'[k].name = Contacts[local'[k].todo.index]
    BY <1>6, <2>3 DEF LoadInv, OutInv, Due
  <2>5. ASSUME NEW j \in DOMAIN local', NEW k \in DOMAIN local',
               local'[j].todo.index = local'[k].todo.index
        PROVE  j = k
    <3>1. j + 1 = k + 1
      BY <2>3, <2>5 DEF LoadInv, OutInv
    <3>2. j \in Nat /\ k \in Nat
      BY <1>2, LenProperties
    <3> QED
      BY <3>1, <3>2
  <2>6. \A k \in DOMAIN local' : \A e \in pending' : local'[k].todo.index # e.todo.index
    BY <2>1, <2>3 DEF LoadInv, OutInv
  <2>7. \A d, e \in pending' : d.todo # Plain /\ d.todo.index = e.todo.index => d = e
    BY <2>1 DEF LoadInv, OutInv
  <2> QED
    BY <1>2, <2>2, <2>4, <2>5, <2>6, <2>7 DEF OutInv, Due
<1>8. GateInv'
  BY <1>1, <1>3, <1>6 DEF LoadInv, GateInv, linkVars, requestVars
<1>9. LinkTypeOK' /\ RowsInv' /\ WireInv' /\ EntriesInv' /\ OwnAnswers'
  BY <1>1 DEF LoadInv, LinkTypeOK, RowsInv, CacheTrue, WireInv, EntriesInv, OwnAnswers,
              linkVars, requestVars
<1>10. FlagInv'
  BY <1>1 DEF LoadInv, FlagInv, ContactIs
<1> QED
  BY <1>6, <1>7, <1>8, <1>9, <1>10 DEF LoadInv

\* An answer from the server, whoever waits for it.
LEMMA AnsweredKeeps ==
    ASSUME LoadInv, NEW r \in Answers, Answered(r)
    PROVE  LoadInv'
<1>1. /\ running /\ socket = "connected" /\ wire # <<>>
      /\ r.id = Head(wire).id /\ r.of = Head(wire).of /\ r.ok \in BOOLEAN
  BY AnswerIs
<1>2. /\ r.of # "login" /\ wire' = Tail(wire) /\ pending' = pending \ EntryOf(r)
      /\ timer' = (pending' # {} /\ (timer \/ FALSE))
      /\ UNCHANGED <<linkVars, asked, clash, dbOpen, local>>
  BY DEF Answered, Left, StopWhenEmpty
<1>3. wire \in Seq([id : Nat, of : Kind]) /\ 1 \in DOMAIN wire /\ Head(wire) = wire[1]
  BY <1>1, TailIs DEF LoadInv, WireInv
<1>4. signedIn
  BY <1>1, <1>2, <1>3 DEF LoadInv, GateInv, Login
<1>5. pending' \subseteq pending /\ \A e \in pending' : e.id # r.id
  BY <1>2 DEF EntryOf
<1>6. timer' \in BOOLEAN
  BY <1>2
<1>7. signedIn' = signedIn
  BY DEF Answered, ContactIs
<1>8. WireInv' /\ OwnAnswers' /\ \A k \in DOMAIN wire' : wire'[k].of # "login"
  BY <1>1, <1>2, <1>4, <1>5, <1>6, <1>7, ShorterWire DEF LoadInv
<1>9. EntriesInv'
  BY <1>2, <1>5 DEF LoadInv, EntriesInv
<1>10. GateInv'
  BY <1>1, <1>2, <1>4, <1>7, <1>8 DEF LoadInv, GateInv, linkVars
<1>11. LinkTypeOK'
  BY <1>2 DEF LoadInv, LinkTypeOK, linkVars
<1>12. RowsInv'
  <2>1. CASE rows' = rows
    BY <2>1 DEF LoadInv, RowsInv, CacheTrue
  <2>2. ASSUME NEW e \in EntryOf(r), Store(r, e.todo.of) PROVE RowsInv'
    BY <2>2, StoreKeeps DEF LoadInv
  <2> QED
    BY <2>1, <2>2 DEF Answered
<1>13. FlagInv'
  <2>1. missed' \in BOOLEAN
    BY DEF Answered, ContactIs, LoadInv, FlagInv
  <2>2. unanswered' = unanswered
    BY DEF Answered, ContactIs
  <2> QED
    BY <1>2, <2>1, <2>2 DEF LoadInv, FlagInv
<1>14. SlotInv' /\ OutInv'
  <2>1. ASSUME NEW e \in EntryOf(r), r.of \in Subject, e.todo # Plain,
               ContactIs(e.todo.index, NameIn(r, e.todo.of))
        PROVE  SlotInv' /\ OutInv'
    <3>1. e \in pending /\ e.id = wire[1].id /\ r.of = wire[1].of
      BY <1>1, <1>3 DEF EntryOf
    <3>2. e.todo.index \in Open /\ e.todo.of = Contacts[e.todo.index]
      BY <2>1, <3>1 DEF LoadInv, OutInv, Due
    <3>3. NameIn(r, e.todo.of) \in {r.of, Empty}
      BY DEF NameIn
    <3>4. clash \/ r.of = e.todo.of
      BY <1>3, <2>1, <3>1 DEF LoadInv, OwnAnswers
    <3>5. SlotInv' /\ Open' = Open \ {e.todo.index}
      <4> DEFINE i == e.todo.index
                 name == NameIn(r, e.todo.of)
      <4>1. name \in Subject \union {Empty} /\ (clash \/ name \in {Contacts[i], Empty})
        BY <2>1, <3>2, <3>3, <3>4
      <4>2. i \in Open /\ ContactIs(i, name)
        BY <2>1, <3>2
      <4> HIDE DEF i, name
      <4>3. SlotInv' /\ Open' = Open \ {i}
        BY <1>2, <1>4, <4>1, <4>2, NameComes DEF LoadInv
      <4> QED
        BY <4>3 DEF i
    <3>6. \A d \in pending' : d.todo # Plain => d.todo.index # e.todo.index
      BY <1>5, <2>1, <3>1 DEF LoadInv, OutInv, EntryOf
    <3>7. ASSUME NEW d \in pending', d.todo # Plain PROVE Due(d.todo)'
      BY <1>5, <3>5, <3>6, <3>7 DEF LoadInv, OutInv, Due
    <3>8. local' = local
      BY <1>2
    <3>9. \A k \in DOMAIN local : Due(local[k].todo)'
      BY <3>1, <3>5, <3>8 DEF LoadInv, OutInv, Due
    <3> QED
      BY <1>5, <3>5, <3>7, <3>8, <3>9 DEF LoadInv, OutInv, Due
  <2>2. ASSUME UNCHANGED <<signedIn, slots, waiting, shown>> PROVE SlotInv' /\ OutInv'
    <3>1. Open' = Open
      BY <2>2 DEF Open
    <3>2. SlotInv'
      BY <1>2, <2>2, <3>1 DEF LoadInv, SlotInv, ContactsComplete
    <3>3. OutInv'
      BY <1>2, <1>5, <3>1 DEF LoadInv, OutInv, Due
    <3> QED
      BY <3>2, <3>3
  <2> QED
    BY <2>1, <2>2 DEF Answered
<1> QED
  BY <1>8, <1>9, <1>10, <1>11, <1>12, <1>13, <1>14 DEF LoadInv

\* A request of another page.
LEMMA SendsKeeps ==
    ASSUME LoadInv, Sends
    PROVE  LoadInv'
<1>1. PICK packets \in 0..2 :
         /\ signedIn /\ AskPlain("message", Plain, packets)
         /\ missed' = (missed \/ Forgotten(<<>>, pending) \ {Plain} # {})
         /\ UNCHANGED <<linkVars, cacheVars, signedIn, slots, waiting, shown, unanswered>>
  BY DEF Sends
<1>2. PICK ids \in NewIds(1, pending) :
         /\ pending' = {e \in pending : e.id # ids[1]} \union
                          {[id |-> ids[1], seen |-> FALSE, todo |-> Plain]}
         /\ wire' = Written(wire, [i \in 1..packets |-> [id |-> ids[1], of |-> "message"]])
         /\ clash' = (clash \/ ids[1] \in Young(pending))
  BY <1>1 DEF AskPlain
<1>3. asked \in Nat /\ asked' = asked + 1 /\ asked' \in 0..MaxRequests /\ timer' = TRUE /\ running
  BY <1>1, RequestAssumption DEF AskPlain, LoadInv, WireInv
<1>4. ids \in [1..1 -> 1..(asked + 1)] /\ \A i \in 1..1 : ids[i] \notin Young(pending) => ids[i] > asked
  BY <1>2, <1>3, IdsAre DEF LoadInv
<1> DEFINE x == ids[1]
           line == [i \in 1..packets |-> [id |-> x, of |-> "message"]]
           fresh == [id |-> x, seen |-> FALSE, todo |-> Plain]
<1>5. x \in 1..asked' /\ (clash' \/ x > asked)
  <2>1. 1 \in 1..1
    OBVIOUS
  <2>2. ids[1] \in 1..(asked + 1) /\ (ids[1] \notin Young(pending) => ids[1] > asked)
    BY <1>4, <2>1
  <2>3. ids[1] \in Young(pending) => clash'
    BY <1>2
  <2> QED
    BY <1>3, <2>2, <2>3
<1>6. /\ fresh \in Entry /\ fresh.id = x /\ fresh.todo = Plain
      /\ pending' = {e \in pending : e.id # x} \union {fresh}
  BY <1>2, <1>3, <1>5 DEF Entry, Todo
<1>7. line \in Seq([id : Nat, of : Kind]) /\ \A k \in DOMAIN line : line[k] = [id |-> x, of |-> "message"]
  <2>1. line \in [1..packets -> [id : Nat, of : Kind]] /\ packets \in Nat
    BY <1>3, <1>5 DEF Kind
  <2>2. line \in Seq([id : Nat, of : Kind])
    BY <2>1, IsSequence
  <2> QED
    BY <2>2
<1>8. wire' = wire \/ (wire' = wire \o line /\ socket = "connected")
  BY <1>2 DEF Written
<1>9. wire \in Seq([id : Nat, of : Kind])
  BY DEF LoadInv, WireInv
<1> HIDE DEF x, line, fresh
<1>10. /\ wire' \in Seq([id : Nat, of : Kind])
       /\ \A k \in DOMAIN wire' :
             \/ k \in DOMAIN wire /\ wire'[k] = wire[k]
             \/ wire'[k] = [id |-> x, of |-> "message"]
  <2>1. CASE wire' = wire
    BY <1>9, <2>1
  <2>2. CASE wire' = wire \o line
    <3>1. /\ wire \o line \in Seq([id : Nat, of : Kind])
          /\ \A k \in DOMAIN (wire \o line) :
                \/ k \in DOMAIN wire /\ (wire \o line)[k] = wire[k]
                \/ k - Len(wire) \in DOMAIN line /\ (wire \o line)[k] = line[k - Len(wire)]
      BY <1>7, <1>9, TogetherIs
    <3>2. \A k \in DOMAIN (wire \o line) :
             \/ k \in DOMAIN wire /\ (wire \o line)[k] = wire[k]
             \/ (wire \o line)[k] = [id |-> x, of |-> "message"]
      BY <1>7, <3>1
    <3> QED
      BY <2>2, <3>1, <3>2
  <2> QED
    BY <1>8, <2>1, <2>2
<1>11. WireInv'
  <2>1. \A k \in DOMAIN wire' : wire'[k].id <= asked'
    <3>1. ASSUME NEW k \in DOMAIN wire PROVE wire[k].id \in Nat /\ wire[k].id <= asked
      <4>1. wire[k] \in [id : Nat, of : Kind]
        BY <1>9, ElementOfSeq, LenProperties
      <4> QED
        BY <4>1 DEF LoadInv, WireInv
    <3>2. x \in Nat /\ x <= asked + 1
      BY <1>3, <1>5
    <3> QED
      BY <1>3, <1>10, <3>1, <3>2
  <2>2. clash' \in BOOLEAN
    BY <1>2 DEF LoadInv, WireInv
  <2> QED
    BY <1>3, <1>10, <2>1, <2>2 DEF WireInv
<1>12. EntriesInv'
  BY <1>3, <1>5, <1>6 DEF LoadInv, EntriesInv
<1>13. OwnAnswers'
  <2>1. ASSUME ~clash', NEW k \in DOMAIN wire', NEW e \in pending', wire'[k].id = e.id, e.todo # Plain
        PROVE  wire'[k].of = e.todo.of
    <3>1. e \in pending /\ e.id # x /\ e.id <= asked
      BY <1>3, <1>6, <2>1 DEF LoadInv, EntriesInv
    <3>2. x > asked /\ ~clash
      BY <1>2, <1>5, <2>1
    <3>3. k \in DOMAIN wire /\ wire'[k] = wire[k]
      BY <1>10, <2>1, <3>1
    <3> QED
      BY <2>1, <3>1, <3>2, <3>3 DEF LoadInv, OwnAnswers
  <2> QED
    BY <2>1 DEF OwnAnswers
<1>14. GateInv'
  <2>1. \A k \in DOMAIN wire' : wire'[k].of # "login"
    BY <1>1, <1>10 DEF LoadInv, GateInv
  <2> QED
    BY <1>1, <1>3, <1>8, <2>1 DEF LoadInv, GateInv, linkVars
<1>15. Open' = Open
  BY <1>1 DEF Open
<1>16. OutInv'
  <2>1. ASSUME NEW e \in pending' PROVE e = fresh \/ e \in pending
    BY <1>6
  <2>2. Plain.index = 0 /\ \A e \in pending : e.todo # Plain => e.todo.index # 0
    <3>1. \A i \in Open : i # 0
      BY LenProperties DEF LoadInv, SlotInv, Open
    <3> QED
      BY <3>1 DEF Plain, LoadInv, OutInv, Due
  <2>3. local' = local /\ \A k \in DOMAIN local : local[k].todo.index # 0
    <3>1. \A i \in Open : i # 0
      BY LenProperties DEF LoadInv, SlotInv, Open
    <3> QED
      BY <1>1, <3>1 DEF cacheVars, LoadInv, OutInv, Due
  <2>4. \A e \in pending' : e.todo # Plain => Due(e.todo)'
    BY <1>6, <1>15, <2>1 DEF LoadInv, OutInv, Due
  <2>5. ASSUME NEW d \in pending', NEW e \in pending', d.todo # Plain, d.todo.index = e.todo.index
        PROVE  d = e
    <3>1. d \in pending /\ d.todo.index # 0
      BY <1>6, <2>1, <2>2, <2>5
    <3>2. e \in pending
      BY <1>6, <2>1, <2>2, <2>5, <3>1
    <3> QED
      BY <2>5, <3>1, <3>2 DEF LoadInv, OutInv
  <2>6. \A k \in DOMAIN local : \A e \in pending' : local[k].todo.index # e.todo.index
    BY <1>6, <2>1, <2>2, <2>3 DEF LoadInv, OutInv
  <2> QED
    BY <1>15, <2>3, <2>4, <2>5, <2>6 DEF LoadInv, OutInv, Due
<1>17. SlotInv'
  BY <1>1, <1>2, <1>15 DEF LoadInv, SlotInv, ContactsComplete
<1>18. LinkTypeOK' /\ RowsInv' /\ FlagInv'
  BY <1>1 DEF LoadInv, LinkTypeOK, RowsInv, CacheTrue, FlagInv, linkVars, cacheVars
<1> QED
  BY <1>11, <1>12, <1>13, <1>14, <1>16, <1>17, <1>18 DEF LoadInv

\* The log-in request, and a refusal.
LEMMA GateKeeps ==
    ASSUME LoadInv, ~signedIn, UNCHANGED <<running, socket, pending, asked, clash, cacheVars, loadVars>>,
           retries' = retries /\ retryTimer' = retryTimer, timer' \in BOOLEAN, signIn' \in BOOLEAN,
           wire' = <<>> \/ (wire' = <<Login>> /\ ~signIn' /\ socket = "connected")
    PROVE  LoadInv'
<1>1. GateInv'
  <2>1. socket' # "connected" => wire' = <<>>
    OBVIOUS
  <2>2. wire' # <<>> => ~signIn'
    OBVIOUS
  <2> QED
    BY <2>1, <2>2 DEF LoadInv, GateInv, cacheVars, loadVars
<1>2. WireInv'
  <2>1. <<>> \in Seq([id : Nat, of : Kind]) /\ DOMAIN <<>> = {}
    OBVIOUS
  <2>2. /\ <<Login>> \in Seq([id : Nat, of : Kind]) /\ Login.id = 0
        /\ \A k \in DOMAIN <<Login>> : <<Login>>[k] = Login
    <3>1. Login \in [id : Nat, of : Kind] /\ Login.id = 0
      BY DEF Login, NoId, Kind
    <3> HIDE DEF Login
    <3> QED
      BY <3>1
  <2>3. asked \in Nat /\ asked' = asked
    BY RequestAssumption DEF LoadInv, WireInv
  <2>4. wire' \in Seq([id : Nat, of : Kind])
    BY <2>1, <2>2
  <2>5. \A k \in DOMAIN wire' : wire'[k].id <= asked'
    <3>1. 0 <= asked
      BY <2>3
    <3> QED
      BY <2>1, <2>2, <2>3, <3>1
  <2> QED
    BY <2>4, <2>5 DEF LoadInv, WireInv
<1>3. EntriesInv' /\ OwnAnswers'
  BY DEF LoadInv, EntriesInv, OwnAnswers, GateInv
<1>4. Open' = Open
  BY DEF Open, loadVars
<1>5. OutInv'
  BY <1>4 DEF LoadInv, OutInv, Due, cacheVars
<1>6. SlotInv'
  BY <1>4 DEF LoadInv, SlotInv, ContactsComplete, loadVars
<1>7. LinkTypeOK' /\ RowsInv' /\ FlagInv'
  BY DEF LoadInv, LinkTypeOK, RowsInv, CacheTrue, FlagInv, cacheVars, loadVars
<1> QED
  BY <1>1, <1>2, <1>3, <1>5, <1>6, <1>7 DEF LoadInv

\* What leaves the requests and the contacts alone, or loses what is out.
LEMMA LinkKeeps ==
    ASSUME LoadInv, LinkTypeOK', UNCHANGED <<pending, timer, asked, clash, rows, local, loadVars>>,
           dbOpen' \in BOOLEAN, running', wire' = <<>>,
           wire = <<>> \/ signIn' = FALSE \/ signIn' = signIn
    PROVE  LoadInv'
<1>1. GateInv'
  BY DEF LoadInv, GateInv, loadVars
<1>2. WireInv'
  <2>1. <<>> \in Seq([id : Nat, of : Kind]) /\ DOMAIN <<>> = {}
    OBVIOUS
  <2> QED
    BY <2>1 DEF LoadInv, WireInv
<1>3. EntriesInv' /\ OwnAnswers'
  BY DEF LoadInv, EntriesInv, OwnAnswers
<1>4. Open' = Open
  BY DEF Open, loadVars
<1>5. OutInv'
  BY <1>4 DEF LoadInv, OutInv, Due
<1>6. SlotInv'
  BY <1>4 DEF LoadInv, SlotInv, ContactsComplete, loadVars
<1>7. RowsInv' /\ FlagInv'
  BY DEF LoadInv, RowsInv, CacheTrue, FlagInv, loadVars
<1> QED
  BY <1>1, <1>2, <1>3, <1>5, <1>6, <1>7 DEF LoadInv

\* An answer that does not come, and entries that are too old.
LEMMA GivenUpKeeps ==
    ASSUME LoadInv, GetsNoAnswer \/ Drops
    PROVE  LoadInv'
<1>1. /\ UNCHANGED <<linkVars, cacheVars, signedIn, slots, waiting, shown, asked, clash>>
      /\ missed' \in BOOLEAN /\ unanswered' \in BOOLEAN /\ timer' \in BOOLEAN
  <2>1. CASE GetsNoAnswer
    BY <2>1 DEF GetsNoAnswer, Unanswered, LoadInv, FlagInv, WireInv
  <2>2. CASE Drops
    BY <2>2 DEF Drops, TimesOut, LoadInv, FlagInv, WireInv
  <2> QED
    BY <2>1, <2>2
<1>2. wire' = wire \/ (wire # <<>> /\ wire' = Tail(wire))
  BY DEF GetsNoAnswer, Unanswered, Drops, TimesOut
<1>3. /\ \A e \in pending' : e \in Entry
      /\ \A e \in pending' : \E d \in pending : e.id = d.id /\ e.todo = d.todo
      /\ \A x, y \in pending' : x.todo.index = y.todo.index /\ x.todo # Plain => x = y
  <2>1. CASE GetsNoAnswer
    BY <2>1 DEF GetsNoAnswer, Unanswered, LoadInv, EntriesInv, OutInv
  <2>2. CASE Drops
    <3>1. PICK gone \in SUBSET Found : pending' = {[e EXCEPT !.seen = TRUE] : e \in pending \ gone}
      BY <2>2 DEF Drops, TimesOut
    <3>2. ASSUME NEW x \in pending'
          PROVE  x \in Entry /\ \E d \in pending : x = [d EXCEPT !.seen = TRUE] /\ d \in Entry
                                   /\ x.id = d.id /\ x.todo = d.todo
      <4>1. PICK d \in pending : x = [d EXCEPT !.seen = TRUE]
        BY <3>1
      <4>2. d \in Entry
        BY DEF LoadInv, EntriesInv
      <4> QED
        BY <4>1, <4>2 DEF Entry
    <3>3. ASSUME NEW x \in pending', NEW y \in pending', x.todo.index = y.todo.index, x.todo # Plain
          PROVE  x = y
      <4>1. PICK d \in pending : x = [d EXCEPT !.seen = TRUE] /\ x.todo = d.todo
        BY <3>2
      <4>2. PICK e \in pending : y = [e EXCEPT !.seen = TRUE] /\ y.todo = e.todo
        BY <3>2
      <4>3. d = e
        BY <3>3, <4>1, <4>2 DEF LoadInv, OutInv
      <4> QED
        BY <4>1, <4>2, <4>3
    <3> QED
      BY <3>2, <3>3
  <2> QED
    BY <2>1, <2>2
<1>4. EntriesInv'
  BY <1>1, <1>3 DEF LoadInv, EntriesInv
<1>5. Open' = Open
  BY <1>1 DEF Open
<1>6. OutInv'
  <2>1. \A e \in pending' : e.todo # Plain => Due(e.todo)'
    BY <1>3, <1>5 DEF LoadInv, OutInv, Due
  <2>2. ASSUME NEW d \in pending', NEW e \in pending', d.todo # Plain, d.todo.index = e.todo.index
        PROVE  d = e
    BY <1>3, <2>2
  <2>3. local' = local
    BY <1>1 DEF cacheVars
  <2>4. \A k \in DOMAIN local : \A e \in pending' : local[k].todo.index # e.todo.index
    BY <1>3 DEF LoadInv, OutInv
  <2> QED
    BY <1>5, <2>1, <2>2, <2>3, <2>4 DEF LoadInv, OutInv, Due
<1>7. /\ wire' \in Seq([id : Nat, of : Kind])
      /\ \A k \in DOMAIN wire' : \E j \in DOMAIN wire : wire'[k] = wire[j]
  <2>1. wire \in Seq([id : Nat, of : Kind])
    BY DEF LoadInv, WireInv
  <2>2. CASE wire' = wire
    BY <2>1, <2>2
  <2>3. CASE wire # <<>> /\ wire' = Tail(wire)
    BY <2>1, <2>3, TailIs
  <2> QED
    BY <1>2, <2>2, <2>3
<1>8. WireInv'
  BY <1>1, <1>7 DEF LoadInv, WireInv
<1>9. OwnAnswers'
  <2>1. ASSUME ~clash, NEW k \in DOMAIN wire', NEW e \in pending', wire'[k].id = e.id, e.todo # Plain
        PROVE  wire'[k].of = e.todo.of
    <3>1. PICK j \in DOMAIN wire : wire'[k] = wire[j]
      BY <1>7
    <3>2. PICK d \in pending : e.id = d.id /\ e.todo = d.todo
      BY <1>3
    <3> QED
      BY <2>1, <3>1, <3>2 DEF LoadInv, OwnAnswers
  <2> QED
    BY <1>1, <2>1 DEF OwnAnswers
<1>10. GateInv'
  <2>1. ~signedIn => wire' \in {<<>>, <<Login>>} /\ (wire' # <<>> => ~signIn) /\ pending' = {}
    <3>1. CASE wire = <<Login>>
      BY <1>2, <1>3, <3>1, OneLeft DEF LoadInv, GateInv
    <3>2. CASE wire = <<>>
      BY <1>2, <1>3, <3>2 DEF LoadInv, GateInv
    <3> QED
      BY <3>1, <3>2 DEF LoadInv, GateInv
  <2>2. signedIn => \A k \in DOMAIN wire' : wire'[k].of # "login"
    BY <1>7 DEF LoadInv, GateInv
  <2>3. socket # "connected" => wire' = <<>>
    BY <1>2 DEF LoadInv, GateInv
  <2> QED
    BY <1>1, <2>1, <2>2, <2>3 DEF LoadInv, GateInv, linkVars, cacheVars
<1>11. SlotInv'
  BY <1>1, <1>5 DEF LoadInv, SlotInv, ContactsComplete
<1>12. LinkTypeOK' /\ RowsInv' /\ FlagInv'
  BY <1>1 DEF LoadInv, LinkTypeOK, RowsInv, CacheTrue, FlagInv, linkVars, cacheVars
<1> QED
  BY <1>4, <1>6, <1>8, <1>9, <1>10, <1>11, <1>12 DEF LoadInv

\* There is nothing yet, or nothing any more: no request, and no contact open.
Nothing ==
    /\ LinkTypeOK /\ RowsInv /\ FlagInv
    /\ signedIn = FALSE /\ wire = <<>> /\ pending = {} /\ local = <<>>
    /\ slots = <<>> /\ shown = <<>> /\ waiting = 0
    /\ asked = 0 /\ clash = FALSE /\ timer = FALSE
    /\ ~running => socket = "unconnected"

LEMMA NothingOut == Nothing => LoadInv
<1> SUFFICES ASSUME Nothing PROVE LoadInv
  OBVIOUS
<1> USE DEF Nothing
<1>1. Open = {} /\ DOMAIN slots = {} /\ DOMAIN wire = {} /\ DOMAIN local = {}
  BY DEF Open
<1>2. Cardinality({}) = 0
  BY FS_EmptySet
<1>3. /\ <<>> \in Seq([id : Nat, of : Kind]) /\ <<>> \in Seq(Name)
      /\ <<>> \in Seq([todo : Todo, name : Subject])
  OBVIOUS
<1>4. WireInv
  <2>1. wire \in Seq([id : Nat, of : Kind])
    BY <1>3
  <2>2. asked \in 0..MaxRequests /\ \A k \in DOMAIN wire : wire[k].id <= asked
    BY <1>1, RequestAssumption
  <2> QED
    BY <2>1, <2>2 DEF WireInv
<1>5. SlotInv
  BY <1>1, <1>2, <1>3 DEF SlotInv, ContactsComplete
<1>6. OutInv
  BY <1>1, <1>3 DEF OutInv
<1>7. GateInv /\ EntriesInv /\ OwnAnswers
  BY <1>1 DEF GateInv, EntriesInv, OwnAnswers
<1> QED
  BY <1>4, <1>5, <1>6, <1>7 DEF LoadInv

\* There is nothing any more.
LEMMA NothingLeft == Nothing' => LoadInv'
  BY NothingOut, PTL

------------------------------------------------------------------------------
\* There is nothing yet.
LEMMA NothingYet == Init => LoadInv
<1> SUFFICES ASSUME Init PROVE LoadInv
  OBVIOUS
<1>1. LinkTypeOK
  <2>1. 0 \in 0..MaxRetries
    BY RetryAssumption
  <2> QED
    BY <2>1 DEF Init, LinkInit, LinkTypeOK
<1>2. RowsInv
  BY RowsInit
<1>3. FlagInv
  BY DEF Init, CacheInit, LoadInit, FlagInv
<1> QED
  BY <1>1, <1>2, <1>3, NothingOut
     DEF Init, LinkInit, RequestInit, CacheInit, LoadInit, Nothing

\* The link keeps its types, whatever happens.
LEMMA LinkTyped == LinkTypeOK /\ [Next]_vars => LinkTypeOK'
<1> SUFFICES ASSUME LinkTypeOK, [Next]_vars PROVE LinkTypeOK'
  OBVIOUS
<1>0. 0 \in 0..MaxRetries
  BY RetryAssumption
<1>1. UNCHANGED linkVars => LinkTypeOK'
  BY DEF linkVars, LinkTypeOK
<1>2. SignIn => LinkTypeOK'
  BY DEF SignIn, LinkTypeOK
<1>3. ASSUME NEW r \in Answers PROVE Refused(r) \/ Welcomed(r) \/ Answered(r) => LinkTypeOK'
  <2>1. Refused(r) => LinkTypeOK'
    BY DEF Refused, LinkTypeOK
  <2>2. Welcomed(r) \/ Answered(r) => UNCHANGED linkVars
    BY DEF Welcomed, Answered
  <2> QED
    BY <1>1, <2>1, <2>2
<1>4. TimerFires \/ Sends \/ GetsNoAnswer \/ Drops \/ UNCHANGED vars => UNCHANGED linkVars
  BY DEF TimerFires, TableHas, Sends, GetsNoAnswer, Drops, vars
<1>5. Connects => LinkTypeOK'
  BY <1>0 DEF Connects, Connected, LinkTypeOK
<1>6. ASSUME NEW from, Fails(from) PROVE LinkTypeOK'
  <2>1. /\ running' = running /\ socket' = "unconnected"
        /\ signIn' \in BOOLEAN /\ retryTimer' \in BOOLEAN
        /\ (retries' = retries \/ (retries < MaxRetries /\ retries' = retries + 1))
    <3>1. CASE Retry
      <4>1. signIn' = signIn /\ retryTimer' \in BOOLEAN
        BY <3>1 DEF Retry, TriesLeft
      <4>2. retries' = retries \/ (retries < MaxRetries /\ retries' = retries + 1)
        BY <3>1 DEF Retry, TriesLeft, NextCount
      <4> QED
        BY <1>6, <4>1, <4>2 DEF Fails, LinkTypeOK
    <3>2. CASE GiveUp
      BY <1>6, <3>2 DEF Fails, GiveUp, LinkTypeOK
    <3> QED
      BY <1>6, <3>1, <3>2 DEF Fails
  <2>2. retries' \in 0..MaxRetries
    BY <2>1, RetryAssumption DEF LinkTypeOK
  <2> QED
    BY <2>1, <2>2 DEF LinkTypeOK
<1>7. ConnectFails \/ ConnectionLost => LinkTypeOK'
  BY <1>6 DEF ConnectFails, ConnectionLost
<1>8. Ends => LinkTypeOK'
  BY <1>0 DEF Ends, LinkEnds, LinkTypeOK
<1>9. Retries => LinkTypeOK'
  BY <1>8 DEF Retries, RetryTick, LinkTypeOK
<1>10. Starts => LinkTypeOK'
  BY DEF Starts, Launch, LinkTypeOK
<1> QED
  BY <1>1, <1>2, <1>3, <1>4, <1>5, <1>7, <1>8, <1>9, <1>10 DEF Next, ReplyComes

\* Every step keeps the count of the contacts that are open, and what is out
\* for each of them.
LEMMA LoadNext == LoadInv /\ [Next]_vars => LoadInv'
<1> SUFFICES ASSUME LoadInv, [Next]_vars PROVE LoadInv'
  OBVIOUS
<1>1. LinkTypeOK' /\ RowsInv'
  BY LinkTyped, RowsNext DEF LoadInv
<1>2. CASE SignIn
  <2>1. /\ ~signedIn /\ signIn /\ ~signIn' /\ wire' = Written(wire, <<Login>>)
        /\ UNCHANGED <<running, socket, retries, retryTimer, pending, timer, asked, clash,
                       cacheVars, loadVars>>
    BY <1>2 DEF SignIn, Login
  <2>2. signIn' = FALSE
    BY <1>2 DEF SignIn
  <2>3. wire = <<>>
    BY <2>1 DEF LoadInv, GateInv
  <2>4. <<>> \o <<Login>> = <<Login>>
    OBVIOUS
  <2>5. wire' = <<>> \/ (wire' = <<Login>> /\ ~signIn' /\ socket = "connected")
    BY <2>1, <2>3, <2>4 DEF Written
  <2>6. timer' \in BOOLEAN /\ signIn' \in BOOLEAN
    BY <2>1, <2>2 DEF LoadInv, WireInv
  <2> QED
    BY <2>1, <2>5, <2>6, GateKeeps
<1>3. ASSUME NEW r \in Answers, Refused(r) PROVE LoadInv'
  <2>1. /\ wire # <<>> /\ r.of = Head(wire).of /\ r.of = "login" /\ signIn' = TRUE /\ wire' = Tail(wire)
        /\ UNCHANGED <<running, socket, retries, retryTimer, pending, asked, clash, cacheVars, loadVars>>
        /\ timer' = (pending' # {} /\ (timer \/ FALSE))
    BY <1>3, AnswerIs DEF Refused, StopWhenEmpty
  <2>2. ~signedIn
    <3>1. 1 \in DOMAIN wire /\ Head(wire) = wire[1]
      BY <2>1, TailIs DEF LoadInv, WireInv
    <3> QED
      BY <2>1, <3>1 DEF LoadInv, GateInv
  <2>3. wire' = <<>>
    BY <2>1, <2>2, OneLeft DEF LoadInv, GateInv
  <2>4. timer' \in BOOLEAN /\ signIn' \in BOOLEAN
    BY <2>1
  <2> QED
    BY <2>1, <2>2, <2>3, <2>4, GateKeeps
<1>4. ASSUME NEW r \in Answers, Welcomed(r) PROVE LoadInv'
  <2>1. GateInv' /\ WireInv' /\ EntriesInv' /\ OwnAnswers' /\ OutInv' /\ SlotInv'
    BY <1>4, WelcomedKeeps
  <2>2. FlagInv'
    BY <1>4 DEF Welcomed, LoadInv, FlagInv
  <2> QED
    BY <1>1, <2>1, <2>2 DEF LoadInv
<1>5. ASSUME NEW r \in Answers, Answered(r) PROVE LoadInv'
  BY <1>5, AnsweredKeeps
<1>6. CASE TimerFires
  BY <1>6, TableKeeps DEF TimerFires
<1>7. CASE Sends
  BY <1>7, SendsKeeps
<1>8. CASE GetsNoAnswer \/ Drops
  BY <1>8, GivenUpKeeps
<1>9. CASE Connects \/ ConnectFails \/ ConnectionLost \/ (RetryTick /\ UNCHANGED <<requestVars, cacheVars, loadVars>>)
          \/ Starts
  <2>1. UNCHANGED <<pending, timer, asked, clash, rows, local, loadVars>>
    BY <1>9 DEF Connects, ConnectFails, ConnectionLost, Starts, LoseWire, TablesOpen, requestVars, cacheVars
  <2>2. dbOpen' \in BOOLEAN
    BY <1>9 DEF Connects, ConnectFails, ConnectionLost, Starts, TablesOpen, cacheVars, LoadInv, FlagInv
  <2>3. running'
    BY <1>9 DEF Connects, Connected, ConnectFails, ConnectionLost, Fails, RetryTick, Starts, Launch
  <2>4. wire' = <<>> /\ (wire = <<>> \/ signIn' = FALSE \/ signIn' = signIn)
    <3>1. CASE Connects \/ ConnectFails \/ (RetryTick /\ UNCHANGED <<requestVars, cacheVars, loadVars>>) \/ Starts
      <4>1. socket # "connected"
        BY <3>1 DEF Connects, Connected, ConnectFails, Fails, RetryTick, Starts, Launch, LoadInv, GateInv
      <4>2. wire' = wire
        BY <3>1 DEF Connects, ConnectFails, Starts, requestVars
      <4> QED
        BY <4>1, <4>2 DEF LoadInv, GateInv
    <3>2. CASE ConnectionLost
      BY <3>2 DEF ConnectionLost, LoseWire, Fails, Retry, GiveUp
    <3> QED
      BY <1>9, <3>1, <3>2
  <2> QED
    BY <1>1, <2>1, <2>2, <2>3, <2>4, LinkKeeps
<1>10. CASE Ends
  <2>1. Nothing'
    BY <1>1, <1>10 DEF Ends, LinkEnds, RequestsEnd, TablesClose, Nothing, FlagInv
  <2> QED
    BY <2>1, NothingLeft
<1>11. CASE UNCHANGED vars
  BY <1>1, <1>11 DEF vars, linkVars, requestVars, cacheVars, loadVars, LoadInv, FlagInv, GateInv, WireInv,
                     EntriesInv, OwnAnswers, OutInv, Due, SlotInv, Open, ContactsComplete
<1> QED
  BY <1>2, <1>3, <1>4, <1>5, <1>6, <1>7, <1>8, <1>9, <1>10, <1>11 DEF Next, ReplyComes, Retries

\* The requests that are out have the types TypeOK gives them.
LEMMA WireTyped ==
    ASSUME WireInv
    PROVE  wire \in Seq([id : 0..asked, of : Kind])
<1>1. wire \in Seq([id : Nat, of : Kind]) /\ Len(wire) \in Nat /\ DOMAIN wire = 1..Len(wire) /\ asked \in Nat
  BY LenProperties, RequestAssumption DEF WireInv
<1>2. ASSUME NEW k \in 1..Len(wire) PROVE wire[k] \in [id : 0..asked, of : Kind]
  <2>1. wire[k] \in [id : Nat, of : Kind]
    BY <1>1, ElementOfSeq
  <2>2. wire[k].id \in 0..asked
    BY <1>1, <2>1 DEF WireInv
  <2> QED
    BY <2>1, <2>2
<1>3. wire \in [1..Len(wire) -> [id : 0..asked, of : Kind]]
  <2>1. wire = [k \in 1..Len(wire) |-> wire[k]]
    BY <1>1
  <2> QED
    BY <1>2, <2>1
<1> DEFINE T == [id : 0..asked, of : Kind]
<1>4. wire \in [1..Len(wire) -> T]
  BY <1>3
<1> HIDE DEF T
<1>5. wire \in Seq(T)
  BY <1>1, <1>4, IsSequence
<1> QED
  BY <1>5 DEF T

\* No more contacts are open than there are.
LEMMA CountTyped ==
    ASSUME SlotInv
    PROVE  waiting \in 0..Len(Contacts)
<1> DEFINE n == Len(Contacts)
<1>1. n \in Nat /\ Len(slots) \in 0..n /\ DOMAIN slots = 1..Len(slots)
  BY LookUpsAre, LenProperties DEF SlotInv
<1>2. Open \in SUBSET (1..n)
  BY <1>1 DEF Open
<1> HIDE DEF n
<1>3. IsFiniteSet(1..n) /\ Cardinality(1..n) = n
  BY <1>1, UpTo
<1>4. IsFiniteSet(Open) /\ Cardinality(Open) <= n
  BY <1>2, <1>3, FS_Subset
<1>5. Cardinality(Open) \in Nat
  BY <1>4, FS_CardinalityType
<1> QED
  BY <1>1, <1>4, <1>5 DEF SlotInv, n

\* The loader counts no more look-ups than there are contacts, and every list
\* of the client holds what the code puts there, for any contacts.
THEOREM ContactTypes == Spec => []TypeOK
<1>1. LoadInv => TypeOK
  <2> SUFFICES ASSUME LoadInv PROVE TypeOK
    OBVIOUS
  <2>1. RequestTypeOK(Kind, Todo)
    BY WireTyped DEF LoadInv, WireInv, EntriesInv, Entry, RequestTypeOK
  <2>2. CacheTypeOK(Todo)
    BY DEF LoadInv, FlagInv, RowsInv, OutInv, CacheTypeOK
  <2>3. waiting \in 0..Len(Contacts) /\ slots \in Seq(Name) /\ shown \in Seq(Name)
    BY CountTyped DEF LoadInv, SlotInv
  <2>4. LinkTypeOK /\ signedIn \in BOOLEAN /\ missed \in BOOLEAN /\ unanswered \in BOOLEAN
    BY DEF LoadInv, FlagInv, GateInv
  <2> QED
    BY <2>1, <2>2, <2>3, <2>4 DEF TypeOK, Kind, Name
<1> QED
  BY <1>1, NothingYet, LoadNext, PTL DEF Spec

\* The page is filled when the last look-up has come back and not before, each
\* contact under its own name or an empty one, in whatever order the table and
\* the server answer, unless two requests drew one id.
THEOREM ContactsAreComplete == Spec => []ContactsComplete
<1>1. LoadInv => ContactsComplete
  BY DEF LoadInv, SlotInv
<1> QED
  BY <1>1, NothingYet, LoadNext, PTL DEF Spec

------------------------------------------------------------------------------
\* The look-up of contact i is out, at the server or answered from the table.
Sought(i) ==
    \/ \E e \in pending : e.todo.index = i
    \/ \E k \in DOMAIN local : local[k].todo.index = i

\* No id is entered twice, every open contact is sought, and as long as the page
\* is empty the loader counts on.
AwaitInv ==
    /\ \A d, e \in pending : d.id = e.id => d = e
    /\ signedIn /\ ~missed => \A i \in Open : Sought(i)
    /\ signedIn /\ Contacts # <<>> => waiting # 0 \/ shown # <<>>

\* Open contacts have places from one on; an entry of no contact has none.
LEMMA OpenIs ==
    ASSUME SlotInv
    PROVE  /\ Open \subseteq DOMAIN slots /\ 0 \notin Open /\ Plain.index = 0
           /\ slots \in Seq(Name) /\ waiting \in Nat
<1>1. slots \in Seq(Name)
  BY DEF SlotInv
<1>2. 0 \notin DOMAIN slots
  BY <1>1, LenProperties
<1>3. waiting \in Nat
  <2>1. waiting \in 0..Len(Contacts) /\ Len(Contacts) \in Nat
    BY CountTyped, LookUpsAre
  <2> QED
    BY <2>1
<1> QED
  BY <1>1, <1>2, <1>3 DEF Open, Plain

\* A name takes a contact off the list, and the last one fills the page.
LEMMA NameSettles ==
    ASSUME LoadInv, LoadInv', signedIn, AwaitInv, NEW i \in Open, NEW name, name # Unset, ContactIs(i, name)
    PROVE  /\ Open' \subseteq Open \ {i}
           /\ Contacts # <<>> => waiting' # 0 \/ shown' # <<>>
<1>1. /\ slots' = [slots EXCEPT ![i] = name] /\ waiting' = waiting - 1 /\ signedIn' = signedIn
      /\ shown' = IF waiting = 1 THEN slots' ELSE shown
  BY DEF ContactIs
<1>2. Open' \subseteq Open \ {i}
  <2>1. slots \in Seq(Name) /\ i \in DOMAIN slots
    BY OpenIs DEF LoadInv
  <2>2. /\ DOMAIN slots' = DOMAIN slots /\ slots'[i] = name
        /\ \A j \in DOMAIN slots : j # i => slots'[j] = slots[j]
    BY <1>1, <2>1
  <2> QED
    BY <2>2 DEF Open
<1>3. waiting \in Nat
  BY OpenIs DEF LoadInv
<1>4. ASSUME Contacts # <<>>, waiting = 1 PROVE shown' # <<>>
  <2>1. shown' = slots'
    BY <1>1, <1>4
  <2>2. Len(slots') = Len(Contacts)
    BY <1>1 DEF LoadInv, SlotInv
  <2>3. Len(Contacts) # 0 /\ Len(<<>>) = 0
    BY <1>4, ContactAssumption, EmptySeq
  <2> QED
    BY <2>1, <2>2, <2>3
<1>5. waiting # 1 => waiting' # 0
  BY <1>1, <1>3
<1> QED
  BY <1>2, <1>4, <1>5

\* Every contact is looked up once the user has signed in.
LEMMA WelcomedAwaits ==
    ASSUME LoadInv, NEW r \in Answers, Welcomed(r)
    PROVE  AwaitInv'
<1> DEFINE new == FromServer(LookUps)
           found == FromTable(LookUps)
<1>1. ~signedIn /\ pending = {} /\ local = <<>>
  <2>1. wire # <<>> /\ Head(wire).of = "login"
    BY AnswerIs DEF Welcomed
  <2>2. 1 \in DOMAIN wire /\ Head(wire) = wire[1]
    BY <2>1, TailIs DEF LoadInv, WireInv
  <2> QED
    BY <2>1, <2>2 DEF LoadInv, GateInv
<1>2. /\ slots' = [i \in DOMAIN Contacts |-> Unset] /\ waiting' = Len(Contacts)
      /\ local' = local \o found /\ Ask(new, pending, Tail(wire))
      /\ missed' = (Forgotten(new, pending) \ {Plain} # {})
  BY DEF Welcomed, LookUp, InTurn
<1>3. Hits(LookUps) \in SUBSET DOMAIN Contacts /\ DOMAIN LookUps = DOMAIN Contacts
  BY LookUpsAre DEF Hits
<1>4. /\ DOMAIN new \in SUBSET Nat
      /\ \A i \in DOMAIN new : new[i].todo # Plain
      /\ \A i \in DOMAIN Contacts \ Hits(LookUps) : \E k \in DOMAIN new : new[k].todo.index = i
  <2> DEFINE places == DOMAIN Contacts \ Hits(LookUps)
  <2>1. new = Picked(LookUps, places) /\ places \in SUBSET DOMAIN Contacts
    BY <1>3 DEF FromServer
  <2> HIDE DEF places, new
  <2>2. /\ DOMAIN new = 1..Len(new)
        /\ \A i \in DOMAIN new : new[i].todo # Plain
        /\ \A i \in places : \E k \in DOMAIN new : new[k].todo.index = i
    BY <2>1, PartIs
  <2>3. DOMAIN new \in SUBSET Nat
    BY <2>2
  <2> QED
    BY <2>2, <2>3 DEF places
<1>5. /\ found \in Seq([todo : Todo, name : Subject])
      /\ \A i \in Hits(LookUps) : \E k \in DOMAIN found : found[k].todo.index = i
  BY FromTableIs DEF LoadInv
<1> HIDE DEF new, found
<1>6. local' = found
  BY <1>1, <1>2, <1>5, ConcatEmptySeq
<1>7. PICK ids : pending' = {e \in pending : e.id \notin Range(ids)} \union EntriesFor(new, ids)
  BY <1>2 DEF Ask
<1>8. pending' = EntriesFor(new, ids)
  BY <1>1, <1>7
<1>9. \A d, e \in pending' : d.id = e.id => d = e
  BY <1>4, <1>8, EntriesApart
<1>10. ASSUME ~missed', NEW i \in Open' PROVE Sought(i)'
  <2>1. i \in DOMAIN Contacts
    BY <1>2 DEF Open
  <2>2. CASE i \in Hits(LookUps)
    BY <1>5, <1>6, <2>2 DEF Sought
  <2>3. CASE i \notin Hits(LookUps)
    <3>1. PICK k \in DOMAIN new : new[k].todo.index = i
      BY <1>4, <2>1, <2>3
    <3>2. new[k].todo \in {q.todo : q \in Range(new)} /\ new[k].todo # Plain
      BY <1>4 DEF Range
    <3>3. \E e \in pending' : e.todo = new[k].todo
      BY <1>2, <1>10, <3>2 DEF Forgotten
    <3> QED
      BY <3>1, <3>3 DEF Sought
  <2> QED
    BY <2>2, <2>3
<1>11. Contacts # <<>> => waiting' # 0
  BY <1>2, ContactAssumption, EmptySeq
<1> QED
  BY <1>9, <1>10, <1>11 DEF AwaitInv

\* The table's answer is for one contact.
LEMMA TableAwaits ==
    ASSUME LoadInv, LoadInv', AwaitInv, NEW q, TableHas(q)
    PROVE  AwaitInv'
<1>1. /\ local # <<>> /\ q = Head(local) /\ local' = Tail(local)
      /\ UNCHANGED pending /\ ContactIs(q.todo.index, q.name)
  BY DEF TableHas, TableAnswers, requestVars
<1>2. local \in Seq([todo : Todo, name : Subject])
  BY DEF LoadInv, OutInv
<1>3. q = local[1] /\ 1 \in DOMAIN local
  BY <1>1, <1>2, TailIs
<1>4. q.todo.index \in Open /\ q.name # Unset /\ signedIn
  <2>1. q \in [todo : Todo, name : Subject]
    BY <1>1, <1>2, TailIs
  <2>2. q.name # Unset
    BY <2>1, TagAssumption
  <2> QED
    BY <1>1, <1>3, <2>2 DEF LoadInv, OutInv, Due, GateInv
<1>5. PICK i, name : i = q.todo.index /\ name = q.name
  OBVIOUS
<1>6. Open' \subseteq Open \ {i} /\ (Contacts # <<>> => waiting' # 0 \/ shown' # <<>>)
  BY <1>1, <1>4, <1>5, NameSettles
<1>7. \A k \in DOMAIN local : k # 1 => k - 1 \in DOMAIN local' /\ local'[k - 1] = local[k]
  <2>1. PICK n \in Nat : n = Len(local) /\ n # 0 /\ DOMAIN local = 1..n
    BY <1>1, <1>2, EmptySeq, LenProperties
  <2>2. local' \in Seq([todo : Todo, name : Subject]) /\ Len(local') = n - 1
    BY <1>1, <1>2, <2>1, HeadTailProperties
  <2>3. DOMAIN local' = 1..(n - 1)
    <3>1. DOMAIN local' = 1..Len(local')
      BY <2>2, LenProperties
    <3> QED
      BY <2>2, <3>1
  <2>4. \A k \in DOMAIN local' : local'[k] = local[k + 1]
    BY <1>1, <1>2, TailIs
  <2>5. ASSUME NEW k \in DOMAIN local, k # 1 PROVE k - 1 \in DOMAIN local' /\ (k - 1) + 1 = k
    BY <2>1, <2>3, <2>5
  <2> QED
    BY <2>4, <2>5
<1>8. ASSUME NEW j, j # i, Sought(j) PROVE Sought(j)'
  <2>1. CASE \E e \in pending : e.todo.index = j
    BY <1>1, <2>1 DEF Sought
  <2>2. CASE \E k \in DOMAIN local : local[k].todo.index = j
    <3>1. PICK k \in DOMAIN local : local[k].todo.index = j
      BY <2>2
    <3>2. k # 1
      BY <1>3, <1>5, <1>8, <3>1
    <3> QED
      BY <1>7, <3>1, <3>2 DEF Sought
  <2> QED
    BY <1>8, <2>1, <2>2 DEF Sought
<1>9. signedIn' = signedIn /\ missed' = missed
  BY <1>1 DEF ContactIs
<1> QED
  BY <1>1, <1>6, <1>8, <1>9 DEF AwaitInv

\* The server's answer takes out one entry; if it is of no use to it, it is missed.
LEMMA AnsweredAwaits ==
    ASSUME LoadInv, LoadInv', AwaitInv, NEW r \in Answers, Answered(r)
    PROVE  AwaitInv'
<1>1. /\ r.of # "login" /\ pending' = pending \ EntryOf(r) /\ UNCHANGED local
  BY DEF Answered, Left
<1>2. signedIn
  <2>1. wire # <<>> /\ r.of = Head(wire).of
    BY AnswerIs
  <2>2. 1 \in DOMAIN wire /\ Head(wire) = wire[1]
    BY <2>1, TailIs DEF LoadInv, WireInv
  <2> QED
    BY <1>1, <2>1, <2>2 DEF LoadInv, GateInv, Login
<1>3. signedIn' = signedIn
  BY DEF Answered, ContactIs
<1>4. \A d, e \in pending' : d.id = e.id => d = e
  BY <1>1 DEF AwaitInv
<1>5. ASSUME NEW e \in EntryOf(r), r.of \in Subject, e.todo # Plain,
             ContactIs(e.todo.index, NameIn(r, e.todo.of))
      PROVE  AwaitInv'
  <2>1. e \in pending /\ e.id = r.id
    BY DEF EntryOf
  <2>2. PICK i, name : i = e.todo.index /\ name = NameIn(r, e.todo.of)
    OBVIOUS
  <2>3. i \in Open
    BY <1>5, <2>1, <2>2 DEF LoadInv, OutInv, Due
  <2>4. name # Unset
    BY <1>5, <2>2, TagAssumption DEF NameIn
  <2>5. Open' \subseteq Open \ {i} /\ (Contacts # <<>> => waiting' # 0 \/ shown' # <<>>)
    BY <1>2, <1>5, <2>2, <2>3, <2>4, NameSettles
  <2>6. \A d \in pending : d # e => d \in pending'
    BY <1>1, <2>1 DEF AwaitInv, EntryOf
  <2>7. ASSUME NEW j, j # i, Sought(j) PROVE Sought(j)'
    BY <1>1, <2>2, <2>6, <2>7 DEF Sought
  <2>8. missed' = missed
    BY <1>5 DEF ContactIs
  <2> QED
    BY <1>2, <1>3, <1>4, <2>5, <2>7, <2>8 DEF AwaitInv
<1>6. CASE /\ missed' = (missed \/ \E e \in EntryOf(r) : e.todo # Plain)
           /\ UNCHANGED <<signedIn, slots, waiting, shown>>
  <2>1. Open' = Open /\ 0 \notin Open /\ Plain.index = 0
    BY <1>6, OpenIs DEF Open, LoadInv
  <2>2. ASSUME ~missed', NEW i \in Open, Sought(i) PROVE Sought(i)'
    <3>1. CASE \E e \in pending : e.todo.index = i
      <4>1. PICK e \in pending : e.todo.index = i
        BY <3>1
      <4>2. e.todo # Plain
        BY <2>1, <4>1
      <4>3. e \in pending'
        BY <1>1, <1>6, <2>2, <4>2
      <4> QED
        BY <4>1, <4>3 DEF Sought
    <3>2. CASE \E k \in DOMAIN local : local[k].todo.index = i
      BY <1>1, <3>2 DEF Sought
    <3> QED
      BY <2>2, <3>1, <3>2 DEF Sought
  <2>3. ~missed' => ~missed
    BY <1>6
  <2> QED
    BY <1>4, <1>6, <2>1, <2>2, <2>3 DEF AwaitInv
<1> QED
  BY <1>5, <1>6 DEF Answered

\* A request of another page, and entries that are too old, take a look-up's
\* entry away only where it is missed.
LEMMA EntriesAwait ==
    ASSUME LoadInv, AwaitInv, UNCHANGED <<local, signedIn, slots, waiting, shown>>,
           \A d, e \in pending' : d.id = e.id => d = e,
           ~missed' => ~missed /\ \A e \in pending : e.todo # Plain => \E x \in pending' : x.todo = e.todo
    PROVE  AwaitInv'
<1>1. Open' = Open /\ 0 \notin Open /\ Plain.index = 0
  BY OpenIs DEF Open, LoadInv
<1>2. ASSUME ~missed', NEW i \in Open, Sought(i) PROVE Sought(i)'
  <2>1. CASE \E e \in pending : e.todo.index = i
    <3>1. PICK e \in pending : e.todo.index = i
      BY <2>1
    <3>2. e.todo # Plain
      BY <1>1, <3>1
    <3> QED
      BY <1>2, <3>1, <3>2 DEF Sought
  <2>2. CASE \E k \in DOMAIN local : local[k].todo.index = i
    BY <2>2 DEF Sought
  <2> QED
    BY <1>2, <2>1, <2>2 DEF Sought
<1> QED
  BY <1>1, <1>2 DEF AwaitInv

LEMMA SendsAwaits ==
    ASSUME LoadInv, AwaitInv, Sends
    PROVE  AwaitInv'
<1>1. PICK packets : /\ AskPlain("message", Plain, packets)
                     /\ missed' = (missed \/ Forgotten(<<>>, pending) \ {Plain} # {})
                     /\ UNCHANGED <<cacheVars, signedIn, slots, waiting, shown>>
  BY DEF Sends
<1>2. PICK x : pending' = {e \in pending : e.id # x} \union {[id |-> x, seen |-> FALSE, todo |-> Plain]}
  BY <1>1 DEF AskPlain
<1>3. PICK fresh : fresh = [id |-> x, seen |-> FALSE, todo |-> Plain]
  OBVIOUS
<1>4. fresh.id = x /\ pending' = {e \in pending : e.id # x} \union {fresh}
  BY <1>2, <1>3
<1>5. \A d, e \in pending' : d.id = e.id => d = e
  BY <1>4 DEF AwaitInv
<1>6. ~missed' => ~missed /\ \A e \in pending : e.todo # Plain => \E y \in pending' : y.todo = e.todo
  BY <1>1 DEF Forgotten
<1>7. UNCHANGED <<local, signedIn, slots, waiting, shown>>
  BY <1>1 DEF cacheVars
<1> QED
  BY <1>5, <1>6, <1>7, EntriesAwait

LEMMA DropsAwaits ==
    ASSUME LoadInv, AwaitInv, Drops
    PROVE  AwaitInv'
<1>1. PICK gone \in SUBSET Found :
         /\ pending' = {[e EXCEPT !.seen = TRUE] : e \in pending \ gone}
         /\ missed' = (missed \/ \E e \in gone : e.todo # Plain)
         /\ UNCHANGED <<cacheVars, signedIn, slots, waiting, shown>>
  BY DEF Drops, TimesOut
<1>2. ASSUME NEW d \in pending
      PROVE  [d EXCEPT !.seen = TRUE].todo = d.todo /\ [d EXCEPT !.seen = TRUE].id = d.id
  <2>1. d \in Entry
    BY DEF LoadInv, EntriesInv
  <2> QED
    BY <2>1 DEF Entry
<1>3. ASSUME NEW x \in pending', NEW y \in pending', x.id = y.id PROVE x = y
  <2>1. PICK d \in pending : x = [d EXCEPT !.seen = TRUE]
    BY <1>1
  <2>2. PICK e \in pending : y = [e EXCEPT !.seen = TRUE]
    BY <1>1
  <2>3. d = e
    BY <1>2, <1>3, <2>1, <2>2 DEF AwaitInv
  <2> QED
    BY <2>1, <2>2, <2>3
<1>4. ASSUME ~missed', NEW e \in pending, e.todo # Plain PROVE \E x \in pending' : x.todo = e.todo
  <2>1. e \notin gone
    BY <1>1, <1>4
  <2>2. [e EXCEPT !.seen = TRUE] \in pending'
    BY <1>1, <2>1
  <2> QED
    BY <1>2, <2>2
<1>5. UNCHANGED <<local, signedIn, slots, waiting, shown>> /\ (~missed' => ~missed)
  BY <1>1 DEF cacheVars
<1> QED
  BY <1>3, <1>4, <1>5, EntriesAwait

LEMMA AwaitNext == LoadInv /\ AwaitInv /\ [Next]_vars => AwaitInv'
<1> SUFFICES ASSUME LoadInv, AwaitInv, [Next]_vars PROVE AwaitInv'
  OBVIOUS
<1>1. LoadInv'
  BY LoadNext
<1>2. CASE UNCHANGED <<pending, local, signedIn, slots, waiting, shown, missed>>
  BY <1>2 DEF AwaitInv, Sought, Open
<1>3. CASE SignIn
  BY <1>2, <1>3 DEF SignIn, cacheVars, loadVars
<1>4. ASSUME NEW r \in Answers, Refused(r) PROVE AwaitInv'
  BY <1>2, <1>4 DEF Refused, cacheVars, loadVars
<1>5. ASSUME NEW r \in Answers, Welcomed(r) PROVE AwaitInv'
  BY <1>5, WelcomedAwaits
<1>6. ASSUME NEW r \in Answers, Answered(r) PROVE AwaitInv'
  BY <1>1, <1>6, AnsweredAwaits
<1>7. CASE TimerFires
  BY <1>1, <1>7, TableAwaits DEF TimerFires
<1>8. CASE Sends
  BY <1>8, SendsAwaits
<1>9. CASE GetsNoAnswer
  BY <1>2, <1>9 DEF GetsNoAnswer, Unanswered, cacheVars
<1>10. CASE Drops
  BY <1>10, DropsAwaits
<1>11. CASE Connects \/ ConnectFails \/ ConnectionLost \/ (RetryTick /\ UNCHANGED <<requestVars, cacheVars, loadVars>>)
           \/ Starts \/ UNCHANGED vars
  BY <1>2, <1>11 DEF Connects, ConnectFails, ConnectionLost, LoseWire, Starts, TablesOpen, vars,
                     requestVars, cacheVars, loadVars
<1>12. CASE Ends
  <2>1. pending' = {} /\ signedIn' = FALSE
    BY <1>12 DEF Ends, RequestsEnd
  <2> QED
    BY <2>1 DEF AwaitInv
<1> QED
  BY <1>3, <1>4, <1>5, <1>6, <1>7, <1>8, <1>9, <1>10, <1>11, <1>12 DEF Next, ReplyComes, Retries

\* Once the user has signed in the page is empty only while contacts are open,
\* and unless one was missed each of them is sought.
ContactsAwaited ==
    /\ signedIn /\ Contacts # <<>> /\ shown = <<>> => Open # {}
    /\ signedIn /\ ~missed => \A i \in Open : Sought(i)

\* The loader never waits for a look-up that is not out: as long as the page is
\* empty something for it is still to come, or was missed.  It is the safety
\* half of ContactsShown.
THEOREM ContactsAreAwaited == Spec => []ContactsAwaited
<1>1. Init => AwaitInv
  BY DEF Init, RequestInit, LoadInit, AwaitInv
<1>2. LoadInv /\ AwaitInv => ContactsAwaited
  <2> SUFFICES ASSUME LoadInv, AwaitInv PROVE ContactsAwaited
    OBVIOUS
  <2>1. Open = {} => waiting = 0
    BY FS_EmptySet DEF LoadInv, SlotInv
  <2> QED
    BY <2>1 DEF AwaitInv, ContactsAwaited
<1> QED
  BY <1>1, <1>2, NothingYet, LoadNext, AwaitNext, PTL DEF Spec

------------------------------------------------------------------------------
\* What can be asked for, and what can be done with an answer.
Asked == [id : Nat, of : Subject \union {"members"}]
Look == [no : Nat, step : {"card", "bubble", "dock"}, of : Subject]

Waiter == [id : Nat, seen : BOOLEAN, todo : Look]

\* What an entry asked for.
AskedAs(t) == IF t.step = "dock" THEN "members" ELSE t.of

\* A look-up is made for a message that has arrived: of its card, or of the
\* sender of a group's.
LookOK(t) ==
    /\ t \in Look
    /\ t.step # "dock" => t.no \in 1..arrived
    /\ t.step = "card" => t.of = Traffic[t.no].to
    /\ t.step = "bubble" => t.of = Traffic[t.no].from /\ Traffic[t.no].to \in Group

\* The entries rest, the answers from the table queue, the requests that are
\* out line.
Sound(rest, queue, line) ==
    /\ rest \subseteq Waiter
    /\ \A e \in rest : e.id \in 1..asked /\ LookOK(e.todo)
    /\ queue \in Seq([todo : Look, name : Subject])
    /\ \A k \in DOMAIN queue : LookOK(queue[k].todo) /\ queue[k].todo.step # "dock"
    /\ line \in Seq(Asked)
    /\ \A k \in DOMAIN line : line[k].id <= asked

\* As long as no id was drawn twice, what is out under an entry's id is its own
\* request.
Distinct(rest, line) ==
    ~clash =>
        /\ \A d, e \in rest : d.id = e.id => d = e
        /\ \A k, l \in DOMAIN line : line[k].id = line[l].id => k = l
        /\ \A k \in DOMAIN line : \A e \in rest :
              line[k].id = e.id => line[k].of = AskedAs(e.todo)

\* The look-up t waits at the place k, for the server or for its timer.
Channel == {"wire", "table"}

Flies(c, k, t, rest, queue, line) ==
    \/ /\ c = "wire" /\ k \in DOMAIN line
       /\ \E e \in rest : e.id = line[k].id /\ e.todo = t /\ t.step # "dock"
    \/ c = "table" /\ k \in DOMAIN queue /\ queue[k].todo = t

Page(t) == Traffic[t.no].to

\* Of two look-ups for one page, at the places k and l, the first is of the
\* older message; a sender is looked up after every older card.
Turn(k, t, l, u) ==
    /\ t.step = u.step /\ k < l => t.no < u.no
    /\ t.step = "bubble" /\ u.step = "card" => t.no < u.no

Orderly == ~clash /\ ~jumped

Order(rest, queue, line) ==
    Orderly => \A c, d \in Channel : \A k, l \in Nat : \A t, u \in Look :
        /\ Flies(c, k, t, rest, queue, line) /\ Flies(d, l, u, rest, queue, line)
        /\ Page(t) = Page(u)
        => c = d /\ Turn(k, t, l, u)

\* What is on a page already is older.
Later(rest, queue, line) ==
    Orderly => \A c \in Channel : \A k \in Nat : \A t \in Look :
        Flies(c, k, t, rest, queue, line) =>
            \A i \in DOMAIN bubbles[Page(t)] : bubbles[Page(t)][i] < t.no

\* The requests of one go: one look-up, after that of a group's members, if any.
Batch(new, t) ==
    \/ new = <<Of(t.step, t.no, t.of)>>
    \/ \E no \in Nat : \E g \in Group : new = <<Members(no, g), Of(t.step, t.no, t.of)>>

\* None, one, or both of two.
LEMMA PickedNone == ASSUME NEW new PROVE Picked(new, {}) = <<>>
<1>1. Cardinality({}) = 0
  BY FS_EmptySet
<1> DEFINE f == CHOOSE g \in Ascending({}) : TRUE
<1>2. Picked(new, {}) = [i \in 1..0 |-> new[f[i]]]
  BY <1>1 DEF Picked
<1> HIDE DEF f
<1> QED
  BY <1>2

LEMMA PickedOne ==
    ASSUME NEW new, NEW k \in Nat
    PROVE  Picked(new, {k}) = <<new[k]>>
<1>1. Cardinality({k}) = 1 /\ IsFiniteSet({k})
  BY FS_Singleton
<1> DEFINE f == CHOOSE g \in Ascending({k}) : TRUE
<1>2. Picked(new, {k}) = [i \in 1..1 |-> new[f[i]]]
  BY <1>1 DEF Picked
<1>3. f \in Ascending({k})
  BY <1>1, AscendingExists
<1> HIDE DEF f
<1>4. f \in [1..1 -> {k}]
  BY <1>1, <1>3 DEF Ascending
<1>5. f[1] = k
  BY <1>4
<1> QED
  BY <1>2, <1>5

LEMMA PickedBoth ==
    ASSUME NEW x, NEW y
    PROVE  Picked(<<x, y>>, {1, 2}) = <<x, y>>
<1>1. Cardinality({1, 2}) = 2 /\ IsFiniteSet({1, 2})
  <2>1. {1, 2} = 1..2
    OBVIOUS
  <2> QED
    BY <2>1, UpTo
<1> DEFINE f == CHOOSE g \in Ascending({1, 2}) : TRUE
<1>2. Picked(<<x, y>>, {1, 2}) = [i \in 1..2 |-> <<x, y>>[f[i]]]
  BY <1>1 DEF Picked
<1>3. f \in Ascending({1, 2})
  BY <1>1, AscendingExists
<1> HIDE DEF f
<1>4. f \in [1..2 -> {1, 2}] /\ f[1] < f[2]
  BY <1>1, <1>3 DEF Ascending
<1>5. f[1] = 1 /\ f[2] = 2
  <2>1. f[1] \in {1, 2} /\ f[2] \in {1, 2}
    BY <1>4
  <2> QED
    BY <1>4, <2>1
<1> QED
  BY <1>2, <1>5

\* The one look-up is answered by the table, or everything asked of the server.
LEMMA SplitIs ==
    ASSUME NEW t \in Look, NEW new, Batch(new, t)
    PROVE  /\ Len(new) \in {1, 2} /\ DOMAIN new = 1..Len(new)
           /\ new[Len(new)] = Of(t.step, t.no, t.of)
           /\ \A i \in DOMAIN new : i # Len(new) =>
                 \E no \in Nat : \E g \in Group : new[i] = Members(no, g)
           /\ Hit(t.of) => /\ FromTable(new) = <<[todo |-> t, name |-> rows[t.of]]>>
                           /\ FromServer(new) = IF Len(new) = 1 THEN <<>> ELSE <<new[1]>>
           /\ ~Hit(t.of) => FromTable(new) = <<>> /\ FromServer(new) = new
<1> DEFINE x == Of(t.step, t.no, t.of)
<1>1. x = [of |-> t.of, todo |-> t]
  BY DEF Of, Look
<1>2. ~Hit("members")
  BY MembersAssumption DEF Hit
<1>3. CASE new = <<x>>
  <2>1. Len(new) = 1 /\ DOMAIN new = {1} /\ new[1] = x
    BY <1>3
  <2>2. CASE Hit(t.of)
    <3>1. Hits(new) = {1} /\ DOMAIN new \ Hits(new) = {}
      BY <1>1, <2>1, <2>2 DEF Hits
    <3>2. Picked(new, Hits(new)) = <<x>> /\ FromServer(new) = <<>>
      BY <2>1, <3>1, PickedNone, PickedOne DEF FromServer
    <3> HIDE DEF x
    <3>3. FromTable(new) = <<[todo |-> x.todo, name |-> rows[x.of]]>>
      BY <3>2 DEF FromTable
    <3> QED
      BY <1>1, <2>1, <2>2, <3>2, <3>3 DEF x
  <2>3. CASE ~Hit(t.of)
    <3>1. Hits(new) = {} /\ DOMAIN new \ Hits(new) = {1}
      BY <1>1, <2>1, <2>3 DEF Hits
    <3>2. Picked(new, Hits(new)) = <<>> /\ FromServer(new) = <<x>>
      BY <2>1, <3>1, PickedNone, PickedOne DEF FromServer
    <3>3. FromTable(new) = <<>>
      BY <3>2 DEF FromTable
    <3> QED
      BY <1>3, <2>1, <2>3, <3>2, <3>3
  <2> QED
    BY <2>2, <2>3
<1>4. ASSUME NEW no \in Nat, NEW g \in Group, new = <<Members(no, g), x>>
      PROVE  /\ Len(new) \in {1, 2} /\ DOMAIN new = 1..Len(new)
             /\ new[Len(new)] = x
             /\ \A i \in DOMAIN new : i # Len(new) => new[i] = Members(no, g)
             /\ Hit(t.of) => /\ FromTable(new) = <<[todo |-> t, name |-> rows[t.of]]>>
                             /\ FromServer(new) = IF Len(new) = 1 THEN <<>> ELSE <<new[1]>>
             /\ ~Hit(t.of) => FromTable(new) = <<>> /\ FromServer(new) = new
  <2> DEFINE m == Members(no, g)
  <2>0. m.of = "members"
    BY DEF Members
  <2> HIDE DEF m
  <2>1. Len(new) = 2 /\ DOMAIN new = {1, 2} /\ new[1] = m /\ new[2] = x /\ new = <<m, x>>
    BY <1>4 DEF m
  <2>2. CASE Hit(t.of)
    <3>1. Hits(new) = {2} /\ DOMAIN new \ Hits(new) = {1}
      BY <1>1, <1>2, <2>0, <2>1, <2>2 DEF Hits
    <3>2. Picked(new, Hits(new)) = <<x>> /\ FromServer(new) = <<m>>
      BY <2>1, <3>1, PickedOne DEF FromServer
    <3> HIDE DEF x
    <3>3. FromTable(new) = <<[todo |-> x.todo, name |-> rows[x.of]]>>
      BY <3>2 DEF FromTable
    <3> QED
      BY <1>1, <2>1, <2>2, <3>2, <3>3 DEF x, m
  <2>3. CASE ~Hit(t.of)
    <3>1. Hits(new) = {} /\ DOMAIN new \ Hits(new) = {1, 2}
      BY <1>1, <1>2, <2>0, <2>1, <2>3 DEF Hits
    <3>2. Picked(new, Hits(new)) = <<>> /\ FromServer(new) = new
      BY <2>1, <3>1, PickedNone, PickedBoth DEF FromServer
    <3>3. FromTable(new) = <<>>
      BY <3>2 DEF FromTable
    <3> QED
      BY <2>1, <2>3, <3>2, <3>3 DEF m
  <2> QED
    BY <2>2, <2>3
<1> HIDE DEF x
<1>5. CASE \E no \in Nat : \E g \in Group : new = <<Members(no, g), x>>
  <2>1. PICK no \in Nat, g \in Group : new = <<Members(no, g), x>>
    BY <1>5
  <2> QED
    BY <1>4, <2>1 DEF x
<1> QED
  BY <1>3, <1>5 DEF Batch, x

\* A look-up stays what it is while more messages arrive.
LEMMA LooksStay ==
    ASSUME NEW t, LookOK(t), arrived \in Nat, arrived' \in Nat, arrived <= arrived'
    PROVE  LookOK(t)'
<1>1. 1..arrived \subseteq 1..arrived'
  OBVIOUS
<1> QED
  BY <1>1 DEF LookOK

\* What requests req do that are made in one go and draw the numbers ids.
Entered(ids, req, rest, line) ==
    /\ ids \in [1..Len(req) -> 1..(asked + Len(req))]
    /\ asked' = asked + Len(req) /\ asked' <= MaxRequests
    /\ wire' = line \o [i \in DOMAIN req |-> [id |-> ids[i], of |-> req[i].of]]
    /\ \A e \in pending' :
          \/ e \in rest
          \/ \E i \in DOMAIN req : e = [id |-> ids[i], seen |-> FALSE, todo |-> req[i].todo]
    /\ clash' \in BOOLEAN
    /\ ~clash' => /\ ~clash
                  /\ \A i \in 1..Len(req) : ids[i] > asked
                  /\ \A i, j \in 1..Len(req) : ids[i] = ids[j] => i = j

LEMMA AskEnters ==
    ASSUME NEW rest, NEW line, \A e \in rest : e.id \in 1..asked, asked \in Nat, clash \in BOOLEAN,
           NEW req, Len(req) \in Nat, DOMAIN req = 1..Len(req), Ask(req, rest, line),
           socket = "connected"
    PROVE  \E ids : Entered(ids, req, rest, line)
<1>1. PICK ids \in NewIds(Len(req), rest) :
         /\ pending' = {e \in rest : e.id \notin Range(ids)} \union EntriesFor(req, ids)
         /\ wire' = Written(line, [i \in DOMAIN req |-> [id |-> ids[i], of |-> req[i].of]])
         /\ clash' = (clash \/ Range(ids) \cap Young(rest) # {} \/ ~IsInjective(ids))
  BY DEF Ask
<1>2. Young(rest) \subseteq 1..asked
  BY DEF Young
<1>3. ids \in [1..Len(req) -> Young(rest) \union (asked + 1)..(asked + Len(req))]
  BY DEF NewIds
<1>4. \A i \in 1..Len(req) : ids[i] \in Young(rest) \/ ids[i] \in (asked + 1)..(asked + Len(req))
  BY <1>3
<1>5. \A i \in 1..Len(req) : /\ ids[i] \in 1..(asked + Len(req))
                             /\ ids[i] \notin Young(rest) => ids[i] > asked
  BY <1>2, <1>4
<1>6. ids \in [1..Len(req) -> 1..(asked + Len(req))]
  BY <1>3, <1>5
<1>7. ASSUME NEW e \in pending'
      PROVE  \/ e \in rest
             \/ \E i \in DOMAIN req : e = [id |-> ids[i], seen |-> FALSE, todo |-> req[i].todo]
  BY <1>1, EntriesAre
<1>8. ASSUME ~clash'
      PROVE  /\ ~clash
             /\ \A i \in 1..Len(req) : ids[i] > asked
             /\ \A i, j \in 1..Len(req) : ids[i] = ids[j] => i = j
  <2>1. ~clash /\ Range(ids) \cap Young(rest) = {} /\ IsInjective(ids)
    BY <1>1, <1>8
  <2>2. \A i \in 1..Len(req) : ids[i] \in Range(ids)
    BY <1>6 DEF Range
  <2> QED
    BY <1>5, <1>6, <2>1, <2>2 DEF IsInjective
<1>9. clash' \in BOOLEAN
  BY <1>1 DEF IsInjective
<1>10. wire' = line \o [i \in DOMAIN req |-> [id |-> ids[i], of |-> req[i].of]]
  BY <1>1 DEF Written
<1>11. asked' = asked + Len(req) /\ asked' <= MaxRequests
  BY DEF Ask
<1>12. Entered(ids, req, rest, line)
  BY <1>6, <1>7, <1>8, <1>9, <1>10, <1>11 DEF Entered
<1> QED
  BY <1>12

\* The requests come after those that were out.
LEMMA LineIs ==
    ASSUME NEW line \in Seq(Asked), asked \in Nat, NEW ids, NEW req, NEW rest, Entered(ids, req, rest, line),
           Len(req) \in Nat, DOMAIN req = 1..Len(req),
           \A i \in DOMAIN req : req[i].of \in Subject \union {"members"}
    PROVE  /\ wire' \in Seq(Asked) /\ Len(line) \in Nat /\ DOMAIN line = 1..Len(line)
           /\ \A k \in DOMAIN wire' :
                 \/ k \in DOMAIN line /\ wire'[k] = line[k]
                 \/ /\ k - Len(line) \in DOMAIN req /\ k \in Nat
                    /\ wire'[k] = [id |-> ids[k - Len(line)], of |-> req[k - Len(line)].of]
<1> DEFINE new == [i \in DOMAIN req |-> [id |-> ids[i], of |-> req[i].of]]
<1>1. /\ DOMAIN new = DOMAIN req
      /\ \A i \in DOMAIN req : new[i] = [id |-> ids[i], of |-> req[i].of]
  OBVIOUS
<1>2. new \in Seq(Asked)
  <2>1. \A i \in DOMAIN req : ids[i] \in Nat
    BY DEF Entered
  <2>2. \A i \in DOMAIN req : new[i] \in Asked
    BY <1>1, <2>1 DEF Asked
  <2>3. new \in [1..Len(req) -> Asked]
    BY <1>1, <2>2
  <2> HIDE DEF new
  <2> QED
    BY <2>3, IsSequence
<1>3. wire' = line \o new
  BY DEF Entered
<1> HIDE DEF new
<1>4. Len(line) \in Nat /\ DOMAIN line = 1..Len(line)
  BY LenProperties
<1>5. /\ wire' \in Seq(Asked)
      /\ \A k \in DOMAIN wire' :
            \/ k \in DOMAIN line /\ wire'[k] = line[k]
            \/ k - Len(line) \in DOMAIN new /\ wire'[k] = new[k - Len(line)]
  BY <1>2, <1>3, TogetherIs
<1>6. \A k \in DOMAIN wire' : k \in Nat
  BY <1>5, LenProperties
<1> QED
  BY <1>1, <1>4, <1>5, <1>6

\* New requests keep entries and wire in order.
LEMMA AskKeeps ==
    ASSUME NEW rest, NEW queue, NEW line, Sound(rest, queue, line), Distinct(rest, line),
           asked \in Nat, clash \in BOOLEAN, arrived \in Nat, arrived' \in Nat, arrived <= arrived',
           NEW ids, NEW req, Entered(ids, req, rest, line),
           Len(req) \in Nat, DOMAIN req = 1..Len(req),
           \A i \in DOMAIN req : LookOK(req[i].todo)' /\ req[i].of = AskedAs(req[i].todo)
    PROVE  /\ pending' \subseteq Waiter
           /\ \A e \in pending' : e.id \in 1..asked' /\ LookOK(e.todo)'
           /\ wire' \in Seq(Asked) /\ \A k \in DOMAIN wire' : wire'[k].id <= asked'
           /\ Distinct(pending, wire)'
<1>0. /\ asked' = asked + Len(req) /\ asked' \in Nat
      /\ \A i \in 1..Len(req) : ids[i] \in 1..asked'
      /\ \A i \in DOMAIN req : req[i].of \in Subject \union {"members"}
  <2>1. /\ asked' = asked + Len(req) /\ asked' \in Nat
        /\ ids \in [1..Len(req) -> 1..asked']
    BY DEF Entered
  <2>2. ASSUME NEW i \in DOMAIN req PROVE req[i].of \in Subject \union {"members"}
    <3>1. req[i].todo \in Look
      BY DEF LookOK
    <3>2. req[i].todo.of \in Subject
      BY <3>1 DEF Look
    <3> QED
      BY <3>2 DEF AskedAs
  <2> QED
    BY <2>1, <2>2
<1>1. /\ wire' \in Seq(Asked) /\ Len(line) \in Nat /\ DOMAIN line = 1..Len(line)
      /\ \A k \in DOMAIN wire' :
            \/ k \in DOMAIN line /\ wire'[k] = line[k]
            \/ /\ k - Len(line) \in DOMAIN req /\ k \in Nat
               /\ wire'[k] = [id |-> ids[k - Len(line)], of |-> req[k - Len(line)].of]
  <2>1. line \in Seq(Asked)
    BY DEF Sound
  <2>2. \A i \in DOMAIN req : req[i].of \in Subject \union {"members"}
    BY <1>0
  <2> QED
    BY <2>1, <2>2, LineIs
<1>2. \A k \in DOMAIN line : line[k] \in Asked /\ line[k].id \in Nat /\ line[k].id <= asked
  <2>1. ASSUME NEW k \in DOMAIN line PROVE line[k] \in Asked
    BY <1>1, ElementOfSeq DEF Sound
  <2> QED
    BY <2>1 DEF Sound, Asked
<1>3. ASSUME NEW e \in pending' PROVE e.id \in 1..asked' /\ LookOK(e.todo)'
  <2>1. CASE e \in rest
    <3>1. e.id \in 1..asked /\ LookOK(e.todo)
      BY <2>1 DEF Sound
    <3> QED
      BY <1>0, <3>1, LooksStay
  <2>2. CASE \E i \in DOMAIN req : e = [id |-> ids[i], seen |-> FALSE, todo |-> req[i].todo]
    BY <1>0, <2>2
  <2> QED
    BY <2>1, <2>2 DEF Entered
<1>4. ASSUME NEW k \in DOMAIN wire' PROVE wire'[k].id <= asked'
  <2>1. CASE k \in DOMAIN line /\ wire'[k] = line[k]
    <3>1. line[k].id \in Nat /\ line[k].id <= asked
      BY <1>2, <2>1
    <3>2. Len(req) \in Nat /\ asked \in Nat /\ asked' = asked + Len(req)
      BY <1>0
    <3> QED
      BY <2>1, <3>1, <3>2
  <2>2. CASE \E i \in DOMAIN req : wire'[k] = [id |-> ids[i], of |-> req[i].of]
    <3>1. PICK i \in DOMAIN req : wire'[k] = [id |-> ids[i], of |-> req[i].of]
      BY <2>2
    <3>2. ids[i] \in 1..asked'
      BY <1>0
    <3>3. wire'[k].id = ids[i]
      BY <3>1
    <3> QED
      BY <1>0, <3>2, <3>3
  <2> QED
    BY <1>1, <2>1, <2>2
<1>5. ASSUME ~clash' PROVE Distinct(pending, wire)'
  <2>1. /\ ~clash
        /\ \A i \in 1..Len(req) : ids[i] > asked /\ ids[i] \in Nat
        /\ \A i, j \in 1..Len(req) : ids[i] = ids[j] => i = j
    <3>1. ASSUME NEW i \in 1..Len(req) PROVE ids[i] \in Nat
      <4>1. ids[i] \in 1..asked'
        BY <1>0
      <4> QED
        BY <1>0, <4>1
    <3>2. /\ ~clash
          /\ \A i \in 1..Len(req) : ids[i] > asked
          /\ \A i, j \in 1..Len(req) : ids[i] = ids[j] => i = j
      BY <1>5 DEF Entered
    <3> QED
      BY <3>1, <3>2
  <2>2. ASSUME NEW e \in pending'
        PROVE  \/ e \in rest /\ e.id <= asked /\ e.id \in Nat
               \/ \E i \in 1..Len(req) : e = [id |-> ids[i], seen |-> FALSE, todo |-> req[i].todo]
    <3>1. CASE e \in rest
      <4>1. e.id \in 1..asked
        BY <3>1 DEF Sound
      <4> QED
        BY <3>1, <4>1
    <3>2. CASE \E i \in DOMAIN req : e = [id |-> ids[i], seen |-> FALSE, todo |-> req[i].todo]
      BY <1>0, <3>2
    <3> QED
      BY <3>1, <3>2 DEF Entered
  <2>3. ASSUME NEW k \in DOMAIN wire'
        PROVE  \/ k \in DOMAIN line /\ wire'[k] = line[k] /\ wire'[k].id <= asked /\ wire'[k].id \in Nat
               \/ \E i \in 1..Len(req) : /\ i = k - Len(line) /\ k \in Nat
                                         /\ wire'[k] = [id |-> ids[i], of |-> req[i].of]
    BY <1>1, <1>2
  <2>4. ASSUME NEW d \in pending', NEW e \in pending', d.id = e.id PROVE d = e
    <3>1. CASE d \in rest /\ e \in rest
      BY <2>1, <2>4, <3>1 DEF Distinct
    <3>2. ASSUME NEW x \in pending', NEW y \in pending', x.id = y.id, x \in rest,
                 NEW i \in 1..Len(req), y = [id |-> ids[i], seen |-> FALSE, todo |-> req[i].todo]
          PROVE  FALSE
      <4>1. x.id <= asked /\ x.id \in Nat /\ y.id = ids[i] /\ ids[i] > asked
        BY <2>1, <3>2 DEF Sound
      <4> QED
        BY <3>2, <4>1
    <3>3. CASE \E i, j \in 1..Len(req) :
                   /\ d = [id |-> ids[i], seen |-> FALSE, todo |-> req[i].todo]
                   /\ e = [id |-> ids[j], seen |-> FALSE, todo |-> req[j].todo]
      <4>1. PICK i \in 1..Len(req), j \in 1..Len(req) :
                   /\ d = [id |-> ids[i], seen |-> FALSE, todo |-> req[i].todo]
                   /\ e = [id |-> ids[j], seen |-> FALSE, todo |-> req[j].todo]
        BY <3>3
      <4>2. i = j
        BY <2>1, <2>4, <4>1
      <4> QED
        BY <4>1, <4>2
    <3> QED
      BY <2>2, <2>4, <3>1, <3>2, <3>3
  <2>5. ASSUME NEW k \in DOMAIN wire', NEW l \in DOMAIN wire', wire'[k].id = wire'[l].id PROVE k = l
    <3>1. CASE /\ k \in DOMAIN line /\ wire'[k] = line[k]
               /\ l \in DOMAIN line /\ wire'[l] = line[l]
      BY <2>1, <2>5, <3>1 DEF Distinct
    <3>2. ASSUME NEW x \in DOMAIN wire', NEW y \in DOMAIN wire', wire'[x].id = wire'[y].id,
                 wire'[x].id <= asked, wire'[x].id \in Nat,
                 NEW i \in 1..Len(req), wire'[y] = [id |-> ids[i], of |-> req[i].of]
          PROVE  FALSE
      <4>1. wire'[y].id = ids[i] /\ ids[i] > asked
        BY <2>1, <3>2
      <4> QED
        BY <3>2, <4>1
    <3>3. CASE \E i, j \in 1..Len(req) :
                   /\ i = k - Len(line) /\ wire'[k] = [id |-> ids[i], of |-> req[i].of]
                   /\ j = l - Len(line) /\ wire'[l] = [id |-> ids[j], of |-> req[j].of]
                   /\ k \in Nat /\ l \in Nat
      <4>1. PICK i \in 1..Len(req), j \in 1..Len(req) :
                   /\ i = k - Len(line) /\ wire'[k] = [id |-> ids[i], of |-> req[i].of]
                   /\ j = l - Len(line) /\ wire'[l] = [id |-> ids[j], of |-> req[j].of]
                   /\ k \in Nat /\ l \in Nat
        BY <3>3
      <4>3. wire'[k].id = ids[i] /\ wire'[l].id = ids[j]
        BY <4>1
      <4>2. i = j
        BY <2>1, <2>5, <4>3
      <4> QED
        BY <1>1, <4>1, <4>2
    <3> QED
      BY <2>3, <2>5, <3>1, <3>2, <3>3
  <2>6. ASSUME NEW k \in DOMAIN wire', NEW e \in pending', wire'[k].id = e.id
        PROVE  wire'[k].of = AskedAs(e.todo)
    <3>1. CASE e \in rest /\ k \in DOMAIN line /\ wire'[k] = line[k]
      BY <2>1, <2>6, <3>1 DEF Distinct
    <3>2. CASE \E i, j \in 1..Len(req) :
                   /\ e = [id |-> ids[i], seen |-> FALSE, todo |-> req[i].todo]
                   /\ wire'[k] = [id |-> ids[j], of |-> req[j].of]
      <4>1. PICK i \in 1..Len(req), j \in 1..Len(req) :
                   /\ e = [id |-> ids[i], seen |-> FALSE, todo |-> req[i].todo]
                   /\ wire'[k] = [id |-> ids[j], of |-> req[j].of]
        BY <3>2
      <4>2. i = j
        BY <2>1, <2>6, <4>1
      <4> QED
        BY <4>1, <4>2
    <3> QED
      BY <2>1, <2>2, <2>3, <2>6, <3>1, <3>2
  <2>7. \A d, e \in pending' : d.id = e.id => d = e
    BY <2>4
  <2>8. \A k, l \in DOMAIN wire' : wire'[k].id = wire'[l].id => k = l
    BY <2>5
  <2>9. \A k \in DOMAIN wire' : \A e \in pending' : wire'[k].id = e.id => wire'[k].of = AskedAs(e.todo)
    BY <2>6
  <2> QED
    BY <2>7, <2>8, <2>9 DEF Distinct, AskedAs
<1>6. Distinct(pending, wire)'
  BY <1>5 DEF Distinct
<1>7. ASSUME NEW e \in pending' PROVE e \in Waiter
  <2>1. CASE e \in rest
    BY <2>1 DEF Sound
  <2>2. ASSUME NEW i \in DOMAIN req, e = [id |-> ids[i], seen |-> FALSE, todo |-> req[i].todo]
        PROVE  e \in Waiter
    <3>1. req[i].todo \in Look
      BY DEF LookOK
    <3>2. ids[i] \in Nat
      <4>1. ids[i] \in 1..asked'
        BY <1>0
      <4> QED
        BY <1>0, <4>1
    <3> QED
      BY <2>2, <3>1, <3>2 DEF Waiter
  <2> QED
    BY <2>1, <2>2 DEF Entered
<1> QED
  BY <1>1, <1>3, <1>4, <1>6, <1>7

------------------------------------------------------------------------------
\* A look-up that is made now is of a younger message than those before it, but
\* a sender is looked up before the cards that wait, and the page shows older
\* ones.
Fits(t, rest, queue, line) ==
    Orderly =>
        /\ \A c \in Channel : \A k \in Nat : \A u \in Look :
              Flies(c, k, u, rest, queue, line) /\ Page(u) = Page(t) =>
                  IF u.step = "card" /\ t.step = "bubble" THEN t.no < u.no ELSE u.no < t.no
        /\ \A i \in DOMAIN bubbles[Page(t)] : bubbles[Page(t)][i] < t.no

\* Where the new look-up waits.
Where(t) == IF Hit(t.of) THEN "table" ELSE "wire"
Behind(new, t, queue, line) ==
    IF Hit(t.of) THEN Len(queue) + 1 ELSE Len(line) + Len(new)

\* What is looked up goes to the end of one of the queues.
LEMMA QueueIs ==
    ASSUME RowsInv, NEW rest, NEW queue, NEW line, Sound(rest, queue, line),
           arrived \in Nat, arrived' \in Nat, arrived <= arrived',
           NEW t \in Look, LookOK(t)', t.step # "dock",
           NEW new, Batch(new, t), Looks(new, rest, queue, line)
    PROVE  /\ local' \in Seq([todo : Look, name : Subject])
           /\ Len(queue) \in Nat /\ DOMAIN queue = 1..Len(queue)
           /\ \A k \in DOMAIN local' :
                 \/ k \in DOMAIN queue /\ local'[k] = queue[k]
                 \/ Hit(t.of) /\ k = Len(queue) + 1 /\ local'[k].todo = t
           /\ \A k \in DOMAIN local' : \A u : local'[k].todo = u => LookOK(u)' /\ u.step # "dock"
<1> DEFINE found == FromTable(new)
           Answer == [todo : Look, name : Subject]
<1>1. local' = queue \o found
  BY DEF Looks, LookUp, InTurn
<1>2. /\ Hit(t.of) => found = <<[todo |-> t, name |-> rows[t.of]]>>
      /\ ~Hit(t.of) => found = <<>>
  BY SplitIs
<1> HIDE DEF found
<1>3. Hit(t.of) => rows[t.of] \in Subject
  BY DEF Hit, RowsInv
<1>4. found \in Seq(Answer) /\ \A k \in DOMAIN found : Hit(t.of) /\ k = 1 /\ found[k].todo = t
  <2>1. CASE Hit(t.of)
    <3>1. [todo |-> t, name |-> rows[t.of]] \in Answer
      BY <1>3, <2>1
    <3>2. found = <<[todo |-> t, name |-> rows[t.of]]>>
      BY <1>2, <2>1
    <3> HIDE DEF Answer
    <3>3. found \in Seq(Answer) /\ DOMAIN found = {1} /\ found[1] = [todo |-> t, name |-> rows[t.of]]
      BY <3>1, <3>2
    <3> QED
      BY <2>1, <3>3
  <2>2. CASE ~Hit(t.of)
    <3>1. found = <<>>
      BY <1>2, <2>2
    <3> HIDE DEF Answer
    <3> QED
      BY <3>1
  <2> QED
    BY <2>1, <2>2
<1>5. queue \in Seq(Answer) /\ Len(queue) \in Nat /\ DOMAIN queue = 1..Len(queue)
  <2>1. queue \in Seq(Answer)
    BY DEF Sound
  <2> HIDE DEF Answer
  <2> QED
    BY <2>1, LenProperties
<1> HIDE DEF Answer
<1>6. /\ local' \in Seq(Answer)
      /\ \A k \in DOMAIN local' :
            \/ k \in DOMAIN queue /\ local'[k] = queue[k]
            \/ k - Len(queue) \in DOMAIN found /\ local'[k] = found[k - Len(queue)]
  BY <1>1, <1>4, <1>5, TogetherIs
<1>7. \A k \in DOMAIN local' : k \in Nat
  BY <1>6, LenProperties
<1>8. \A k \in DOMAIN local' :
         \/ k \in DOMAIN queue /\ local'[k] = queue[k]
         \/ Hit(t.of) /\ k = Len(queue) + 1 /\ local'[k].todo = t
  BY <1>4, <1>5, <1>6, <1>7
<1>9. ASSUME NEW k \in DOMAIN local', NEW u, local'[k].todo = u PROVE LookOK(u)' /\ u.step # "dock"
  <2>1. CASE k \in DOMAIN queue /\ local'[k] = queue[k]
    <3>1. LookOK(u) /\ u.step # "dock"
      BY <1>9, <2>1 DEF Sound
    <3> QED
      BY <3>1, LooksStay
  <2>2. CASE local'[k].todo = t
    BY <1>9, <2>2
  <2> QED
    BY <1>8, <2>1, <2>2
<1> QED
  BY <1>5, <1>6, <1>8, <1>9 DEF Answer

\* The request that a look-up makes.
LEMMA OfIs ==
    ASSUME NEW t \in Look
    PROVE  Of(t.step, t.no, t.of) = [of |-> t.of, todo |-> t]
  BY DEF Of, Look

LEMMA LastIs ==
    ASSUME NEW t \in Look, NEW new, Batch(new, t)
    PROVE  /\ Len(new) \in {1, 2} /\ DOMAIN new = 1..Len(new)
           /\ new[Len(new)].todo = t /\ new[Len(new)].of = t.of
           /\ \A i \in DOMAIN new : i # Len(new) => new[i].todo.step = "dock"
<1>1. /\ Len(new) \in {1, 2} /\ DOMAIN new = 1..Len(new)
      /\ new[Len(new)] = Of(t.step, t.no, t.of)
  BY SplitIs
<1>2. new[Len(new)].todo = t /\ new[Len(new)].of = t.of
  <2> DEFINE last == new[Len(new)]
  <2>1. Of(t.step, t.no, t.of) = [of |-> t.of, todo |-> t]
    BY OfIs
  <2>2. last = [of |-> t.of, todo |-> t]
    BY <1>1, <2>1
  <2> HIDE DEF last
  <2>3. last.todo = t /\ last.of = t.of
    BY <2>2
  <2> QED
    BY <2>3 DEF last
<1>3. ASSUME NEW i \in DOMAIN new, i # Len(new) PROVE new[i].todo.step = "dock"
  <2>1. PICK no \in Nat, g \in Group : new[i] = Members(no, g)
    BY <1>3, SplitIs
  <2> QED
    BY <2>1 DEF Members
<1> QED
  BY <1>1, <1>2, <1>3

\* The requests of a batch are what Sound wants of them.
LEMMA BatchIs ==
    ASSUME NEW t \in Look, LookOK(t)', t.step # "dock", NEW new, Batch(new, t)
    PROVE  \A i \in DOMAIN new : LookOK(new[i].todo)' /\ new[i].of = AskedAs(new[i].todo)
<1>1. new[Len(new)].todo = t /\ new[Len(new)].of = t.of
  BY LastIs
<1>2. ASSUME NEW no \in Nat, NEW g \in Group
      PROVE  LookOK(Members(no, g).todo)' /\ Members(no, g).of = AskedAs(Members(no, g).todo)
  BY DEF Members, LookOK, Look, AskedAs, Subject
<1>3. AskedAs(t) = t.of
  BY DEF AskedAs
<1>4. ASSUME NEW i \in DOMAIN new PROVE LookOK(new[i].todo)' /\ new[i].of = AskedAs(new[i].todo)
  <2>1. CASE i = Len(new)
    BY <1>1, <1>3, <2>1
  <2>2. CASE i # Len(new)
    <3>1. PICK no \in Nat, g \in Group : new[i] = Members(no, g)
      BY <2>2, SplitIs
    <3> QED
      BY <1>2, <3>1
  <2> QED
    BY <2>1, <2>2
<1> QED
  BY <1>4

\* What is asked of the server is the batch, or the first of two.
LEMMA ServerIs ==
    ASSUME NEW t \in Look, LookOK(t)', t.step # "dock", NEW new, Batch(new, t),
           NEW req, req = FromServer(new)
    PROVE  /\ Len(req) \in Nat /\ DOMAIN req = 1..Len(req)
           /\ \A i \in DOMAIN req : LookOK(req[i].todo)' /\ req[i].of = AskedAs(req[i].todo)
           /\ \A i \in DOMAIN req : req[i].todo.step # "dock" =>
                 ~Hit(t.of) /\ i = Len(new) /\ req[i].todo = t
           /\ ~Hit(t.of) => Len(req) = Len(new) /\ Len(req) \in DOMAIN req /\ req[Len(req)].todo = t
<1>1. \A i \in DOMAIN new : LookOK(new[i].todo)' /\ new[i].of = AskedAs(new[i].todo)
  BY BatchIs
<1>2. /\ Len(new) \in {1, 2} /\ DOMAIN new = 1..Len(new)
      /\ new[Len(new)].todo = t
      /\ \A i \in DOMAIN new : i # Len(new) => new[i].todo.step = "dock"
  BY LastIs
<1>3. CASE ~Hit(t.of)
  <2>1. req = new
    BY <1>3, SplitIs
  <2> QED
    BY <1>1, <1>2, <1>3, <2>1
<1>4. CASE Hit(t.of) /\ Len(new) = 1
  <2>1. req = <<>>
    BY <1>4, SplitIs
  <2> QED
    BY <1>4, <2>1
<1>5. CASE Hit(t.of) /\ Len(new) # 1
  <2>1. req = <<new[1]>>
    BY <1>5, SplitIs
  <2>2. Len(req) = 1 /\ DOMAIN req = 1..1 /\ req[1] = new[1] /\ 1 \in DOMAIN new /\ 1 # Len(new)
    BY <1>2, <1>5, <2>1
  <2> QED
    BY <1>1, <1>2, <1>5, <2>2
<1> QED
  BY <1>3, <1>4, <1>5

\* A look-up under way after a batch was so before, or is the new one, behind
\* the others.
LEMMA FliesAfter ==
    ASSUME RowsInv, NEW rest, NEW queue, NEW line, Sound(rest, queue, line), Distinct(rest, line),
           asked \in Nat, clash \in BOOLEAN, socket = "connected", ~clash',
           arrived \in Nat, arrived' \in Nat, arrived <= arrived',
           NEW t \in Look, LookOK(t)', t.step # "dock",
           NEW new, Batch(new, t), Looks(new, rest, queue, line),
           NEW c \in Channel, NEW k \in Nat, NEW u \in Look, Flies(c, k, u, pending', local', wire')
    PROVE  \/ Flies(c, k, u, rest, queue, line)
           \/ u = t /\ c = Where(t) /\ k = Behind(new, t, queue, line)
<1>1. CASE c = "table"
  <2>1. k \in DOMAIN local' /\ local'[k].todo = u
    BY <1>1 DEF Flies
  <2>2. \/ k \in DOMAIN queue /\ local'[k] = queue[k]
        \/ Hit(t.of) /\ k = Len(queue) + 1 /\ local'[k].todo = t
    BY <2>1, QueueIs
  <2> QED
    BY <1>1, <2>1, <2>2 DEF Flies, Where, Behind
<1>2. CASE c = "wire"
  <2>1. PICK e \in pending' : k \in DOMAIN wire' /\ e.id = wire'[k].id /\ e.todo = u /\ u.step # "dock"
    BY <1>2 DEF Flies
  <2>2. PICK req : req = FromServer(new)
    OBVIOUS
  <2>3. /\ Len(req) \in Nat /\ DOMAIN req = 1..Len(req)
        /\ \A i \in DOMAIN req : LookOK(req[i].todo)' /\ req[i].of = AskedAs(req[i].todo)
        /\ \A i \in DOMAIN req : req[i].todo.step # "dock" =>
              ~Hit(t.of) /\ i = Len(new) /\ req[i].todo = t
    BY <2>2, ServerIs
  <2>4. Ask(req, rest, line) /\ \A d \in rest : d.id \in 1..asked
    BY <2>2 DEF Looks, LookUp, Sound
  <2>5. PICK ids : Entered(ids, req, rest, line)
    BY <2>3, <2>4, AskEnters
  <2>6. Distinct(pending, wire)'
    BY <2>3, <2>5, AskKeeps
  <2>7. \A i \in DOMAIN req : req[i].of \in Subject \union {"members"}
    <3>1. ASSUME NEW i \in DOMAIN req PROVE req[i].of \in Subject \union {"members"}
      <4>1. req[i].todo \in Look
        BY <2>3 DEF LookOK
      <4>2. req[i].todo.of \in Subject
        BY <4>1 DEF Look
      <4> QED
        BY <2>3, <4>2 DEF AskedAs
    <3> QED
      BY <3>1
  <2>8. /\ Len(line) \in Nat /\ DOMAIN line = 1..Len(line)
        /\ \/ k \in DOMAIN line /\ wire'[k] = line[k]
           \/ /\ k - Len(line) \in DOMAIN req /\ k \in Nat
              /\ wire'[k] = [id |-> ids[k - Len(line)], of |-> req[k - Len(line)].of]
    <3>1. line \in Seq(Asked)
      BY <2>5 DEF Sound
    <3>2. /\ wire' \in Seq(Asked) /\ Len(line) \in Nat /\ DOMAIN line = 1..Len(line)
          /\ \A l \in DOMAIN wire' :
                \/ l \in DOMAIN line /\ wire'[l] = line[l]
                \/ /\ l - Len(line) \in DOMAIN req /\ l \in Nat
                   /\ wire'[l] = [id |-> ids[l - Len(line)], of |-> req[l - Len(line)].of]
      BY <2>3, <2>5, <2>7, <3>1, LineIs
    <3> QED
      BY <2>1, <3>2
  <2>9. /\ \A i \in 1..Len(req) : ids[i] > asked /\ ids[i] \in Nat
        /\ \A i, j \in 1..Len(req) : ids[i] = ids[j] => i = j
    <3>1. \A i \in 1..Len(req) : ids[i] \in 1..(asked + Len(req))
      BY <2>5 DEF Entered
    <3>2. \A i \in 1..Len(req) : ids[i] \in Nat
      BY <2>3, <3>1
    <3> QED
      BY <2>5, <3>2 DEF Entered
  <2>10. \/ e \in rest /\ e.id <= asked /\ e.id \in Nat
         \/ \E i \in 1..Len(req) : e = [id |-> ids[i], seen |-> FALSE, todo |-> req[i].todo]
    <3>1. \/ e \in rest
          \/ \E i \in DOMAIN req : e = [id |-> ids[i], seen |-> FALSE, todo |-> req[i].todo]
      BY <2>5 DEF Entered
    <3>2. e \in rest => e.id <= asked /\ e.id \in Nat
      BY <2>4
    <3> QED
      BY <2>3, <3>1, <3>2
  <2>11. CASE k \in DOMAIN line /\ wire'[k] = line[k]
    <3>1. wire'[k].id <= asked
      BY <2>11 DEF Sound
    <3>2. e \in rest
      BY <2>1, <2>9, <2>10, <3>1
    <3> QED
      BY <1>2, <2>1, <2>11, <3>2 DEF Flies
  <2>12. CASE k - Len(line) \in DOMAIN req /\ wire'[k] = [id |-> ids[k - Len(line)], of |-> req[k - Len(line)].of]
    <3>1. PICK j \in DOMAIN req : j = k - Len(line)
      BY <2>12
    <3>2. wire'[k].id = ids[j] /\ ids[j] > asked /\ ids[j] \in Nat
      BY <2>3, <2>9, <2>12, <3>1
    <3>3. PICK i \in 1..Len(req) : e = [id |-> ids[i], seen |-> FALSE, todo |-> req[i].todo]
      BY <2>1, <2>10, <3>2
    <3>4. i = j
      BY <2>1, <2>3, <2>9, <3>2, <3>3
    <3>5. u = req[j].todo
      BY <2>1, <3>3, <3>4
    <3>6. ~Hit(t.of) /\ j = Len(new) /\ u = t
      BY <2>1, <2>3, <3>5
    <3>7. k = Len(line) + Len(new)
      BY <2>8, <3>1, <3>6
    <3> QED
      BY <1>2, <3>6, <3>7 DEF Where, Behind
  <2> QED
    BY <2>8, <2>11, <2>12
<1> QED
  BY <1>1, <1>2 DEF Channel

\* Only of one page's look-ups that wait in one queue is one made after another.
LEMMA OneQueue ==
    ASSUME NEW rest, NEW queue, NEW line, Sound(rest, queue, line), ~jumped',
           NEW t \in Look, t.step # "dock",
           NEW new, Batch(new, t), Looks(new, rest, queue, line),
           NEW c \in Channel, NEW k \in Nat, NEW u \in Look, Flies(c, k, u, rest, queue, line),
           Page(u) = Page(t)
    PROVE  c = Where(t) /\ k < Behind(new, t, queue, line)
<1>1. /\ Pages(Range(FromTable(new))) \cap Pages(rest) = {}
      /\ Pages(Range(FromServer(new))) \cap Pages(Range(queue)) = {}
  BY DEF Looks
<1>2. ASSUME NEW looks, NEW q \in looks, q.todo.step # "dock" PROVE Page(q.todo) \in Pages(looks)
  <2>1. q.todo \in {d \in {x.todo : x \in looks} : d.step # "dock"}
    BY <1>2
  <2>2. q.todo.no \in Gone({x.todo : x \in looks})
    BY <2>1 DEF Gone
  <2> QED
    BY <2>2 DEF Pages, Page
<1>3. Len(new) \in {1, 2} /\ DOMAIN new = 1..Len(new) /\ new[Len(new)].todo = t
  BY LastIs
<1>4. CASE c = "wire"
  <2>1. PICK e \in rest : k \in DOMAIN line /\ e.todo = u /\ u.step # "dock"
    BY <1>4 DEF Flies
  <2>2. Page(u) \in Pages(rest)
    BY <1>2, <2>1
  <2>3. ~Hit(t.of)
    <3> SUFFICES ASSUME Hit(t.of) PROVE FALSE
      OBVIOUS
    <3> DEFINE q == [todo |-> t, name |-> rows[t.of]]
    <3>1. FromTable(new) = <<q>> /\ q.todo = t
      BY SplitIs
    <3> HIDE DEF q
    <3>2. q \in Range(FromTable(new))
      BY <3>1 DEF Range
    <3>3. Page(t) \in Pages(Range(FromTable(new)))
      BY <1>2, <3>1, <3>2
    <3> QED
      BY <1>1, <2>2, <3>3
  <2>4. Len(line) \in Nat /\ k <= Len(line)
    BY <2>1, LenProperties DEF Sound
  <2> QED
    BY <1>3, <1>4, <2>3, <2>4 DEF Where, Behind
<1>5. CASE c = "table"
  <2>1. k \in DOMAIN queue /\ queue[k].todo = u /\ u.step # "dock"
    BY <1>5 DEF Flies, Sound
  <2>2. queue[k] \in Range(queue)
    BY <2>1 DEF Range
  <2>3. Page(u) \in Pages(Range(queue))
    BY <1>2, <2>1, <2>2
  <2>4. Hit(t.of)
    <3> SUFFICES ASSUME ~Hit(t.of) PROVE FALSE
      OBVIOUS
    <3>1. FromServer(new) = new
      BY SplitIs
    <3> DEFINE n == Len(new)
    <3>2. n \in DOMAIN new
      BY <1>3
    <3> HIDE DEF n
    <3>3. new[n] \in Range(FromServer(new)) /\ new[n].todo = t
      BY <1>3, <3>1, <3>2 DEF Range, n
    <3>4. Page(t) \in Pages(Range(FromServer(new)))
      BY <1>2, <3>3
    <3> QED
      BY <1>1, <2>3, <3>4
  <2>5. Len(queue) \in Nat /\ k <= Len(queue)
    BY <2>1, LenProperties DEF Sound
  <2> QED
    BY <1>5, <2>4, <2>5 DEF Where, Behind
<1> QED
  BY <1>4, <1>5 DEF Channel

\* A batch keeps everything in order, if the new look-up fits.
LEMMA LooksKeep ==
    ASSUME RowsInv, socket = "connected", asked \in Nat, clash \in BOOLEAN,
           arrived \in Nat, arrived' \in Nat, arrived <= arrived', bubbles' = bubbles,
           NEW rest, NEW queue, NEW line, Sound(rest, queue, line), Distinct(rest, line),
           Order(rest, queue, line), Later(rest, queue, line),
           NEW t \in Look, LookOK(t)', t.step # "dock", Fits(t, rest, queue, line),
           NEW new, Batch(new, t), Looks(new, rest, queue, line)
    PROVE  /\ Sound(pending, local, wire)' /\ Distinct(pending, wire)'
           /\ Order(pending, local, wire)' /\ Later(pending, local, wire)'
           /\ asked' \in Nat /\ asked' <= MaxRequests /\ clash' \in BOOLEAN
<1>1. PICK req : req = FromServer(new)
  OBVIOUS
<1>2. /\ Len(req) \in Nat /\ DOMAIN req = 1..Len(req)
      /\ \A i \in DOMAIN req : LookOK(req[i].todo)' /\ req[i].of = AskedAs(req[i].todo)
  BY <1>1, ServerIs
<1>3. PICK ids : Entered(ids, req, rest, line)
  <2>1. Ask(req, rest, line) /\ \A d \in rest : d.id \in 1..asked
    BY <1>1 DEF Looks, LookUp, Sound
  <2> QED
    BY <1>2, <2>1, AskEnters
<1>4. /\ pending' \subseteq Waiter
      /\ \A e \in pending' : e.id \in 1..asked' /\ LookOK(e.todo)'
      /\ wire' \in Seq(Asked) /\ \A k \in DOMAIN wire' : wire'[k].id <= asked'
      /\ Distinct(pending, wire)'
  BY <1>2, <1>3, AskKeeps
<1>5. /\ local' \in Seq([todo : Look, name : Subject])
      /\ \A k \in DOMAIN local' : \A u : local'[k].todo = u => LookOK(u)' /\ u.step # "dock"
  BY QueueIs
<1>6. Sound(pending, local, wire)'
  BY <1>4, <1>5 DEF Sound, LookOK
<1>7. ASSUME Orderly' PROVE Orderly /\ ~clash' /\ ~jumped'
  <2>1. ~clash' /\ ~jumped'
    BY <1>7 DEF Orderly
  <2>2. ~clash
    BY <1>3, <2>1 DEF Entered
  <2>3. ~jumped
    BY <2>1 DEF Looks
  <2> QED
    BY <2>1, <2>2, <2>3 DEF Orderly
<1>8. ASSUME Orderly', NEW c \in Channel, NEW k \in Nat, NEW u \in Look,
             Flies(c, k, u, pending', local', wire')
      PROVE  \/ Flies(c, k, u, rest, queue, line)
             \/ u = t /\ c = Where(t) /\ k = Behind(new, t, queue, line)
  BY <1>7, <1>8, FliesAfter
<1>9. ASSUME Orderly', NEW c \in Channel, NEW k \in Nat, NEW u \in Look,
             Flies(c, k, u, rest, queue, line), Page(u) = Page(t)
      PROVE  /\ c = Where(t) /\ k < Behind(new, t, queue, line)
             /\ IF u.step = "card" /\ t.step = "bubble" THEN t.no < u.no ELSE u.no < t.no
  BY <1>7, <1>9, OneQueue DEF Fits
<1>10. ASSUME Orderly', NEW c \in Channel, NEW d \in Channel, NEW k \in Nat, NEW l \in Nat,
              NEW u \in Look, NEW v \in Look,
              Flies(c, k, u, pending', local', wire'), Flies(d, l, v, pending', local', wire'),
              Page(u) = Page(v)
       PROVE  c = d /\ Turn(k, u, l, v)
  <2> DEFINE n == Behind(new, t, queue, line)
  <2>0. n \in Nat
    <3>1. Len(new) \in Nat /\ Len(queue) \in Nat /\ Len(line) \in Nat
      BY LastIs, LenProperties DEF Sound
    <3> QED
      BY <3>1 DEF Behind
  <2>1. CASE Flies(c, k, u, rest, queue, line) /\ Flies(d, l, v, rest, queue, line)
    BY <1>7, <1>10, <2>1 DEF Order
  <2>2. CASE Flies(c, k, u, rest, queue, line) /\ v = t /\ d = Where(t) /\ l = n
    <3>1. /\ c = Where(t) /\ k < n
          /\ IF u.step = "card" /\ t.step = "bubble" THEN t.no < u.no ELSE u.no < t.no
      BY <1>9, <1>10, <2>2
    <3> HIDE DEF n
    <3> QED
      BY <2>0, <2>2, <3>1 DEF Turn
  <2>3. CASE u = t /\ c = Where(t) /\ k = n /\ Flies(d, l, v, rest, queue, line)
    <3>1. /\ d = Where(t) /\ l < n
          /\ IF v.step = "card" /\ t.step = "bubble" THEN t.no < v.no ELSE v.no < t.no
      BY <1>9, <1>10, <2>3
    <3> HIDE DEF n
    <3> QED
      BY <2>0, <2>3, <3>1 DEF Turn
  <2>4. CASE u = t /\ c = Where(t) /\ k = n /\ v = t /\ d = Where(t) /\ l = n
    <3> HIDE DEF n
    <3> QED
      BY <2>0, <2>4 DEF Turn
  <2>5. /\ Flies(c, k, u, rest, queue, line) \/ (u = t /\ c = Where(t) /\ k = n)
        /\ Flies(d, l, v, rest, queue, line) \/ (v = t /\ d = Where(t) /\ l = n)
    BY <1>8, <1>10
  <2> QED
    BY <2>1, <2>2, <2>3, <2>4, <2>5
<1>11. Order(pending, local, wire)'
  BY <1>10 DEF Order, Flies, Page
<1>12. ASSUME Orderly', NEW c \in Channel, NEW k \in Nat, NEW u \in Look,
              Flies(c, k, u, pending', local', wire'), NEW i \in DOMAIN bubbles[Page(u)]
       PROVE  bubbles[Page(u)][i] < u.no
  <2>1. CASE Flies(c, k, u, rest, queue, line)
    BY <1>7, <1>12, <2>1 DEF Later
  <2>2. CASE u = t
    BY <1>7, <1>12, <2>2 DEF Fits
  <2> QED
    BY <1>8, <1>12, <2>1, <2>2
<1>13. Later(pending, local, wire)'
  BY <1>12 DEF Later, Flies, Page
<1> QED
  <2>1. asked' \in Nat /\ asked' <= MaxRequests /\ clash' \in BOOLEAN
    BY <1>2, <1>3 DEF Entered
  <2> QED
    BY <1>4, <1>6, <1>11, <1>13, <2>1

------------------------------------------------------------------------------
\* Who a message is from and for.
LEMMA TrafficIs ==
    /\ Len(Traffic) \in Nat /\ DOMAIN Traffic = 1..Len(Traffic)
    /\ \A no \in 1..Len(Traffic) :
          /\ Traffic[no].from \in User /\ Traffic[no].to \in Subject
          /\ Traffic[no].to \in Group \/ Traffic[no].to = Traffic[no].from
          /\ Traffic[no].from \in Subject
<1>1. Len(Traffic) \in Nat /\ DOMAIN Traffic = 1..Len(Traffic)
  BY TrafficAssumption, LenProperties
<1>2. ASSUME NEW no \in 1..Len(Traffic) PROVE Traffic[no] \in Message
  BY <1>1, TrafficAssumption, ElementOfSeq
<1> QED
  BY <1>1, <1>2, TrafficAssumption DEF Message, Subject

\* Look-ups that move up, or are taken away, stay in order.
LEMMA Shift ==
    ASSUME Order(pending, local, wire), Later(pending, local, wire),
           NEW rest, NEW queue, NEW line, NEW up \in [Channel -> {0, 1}],
           \A c \in Channel : \A k \in Nat : \A u \in Look :
              Flies(c, k, u, rest, queue, line) => Flies(c, k + up[c], u, pending, local, wire)
    PROVE  Order(rest, queue, line) /\ Later(rest, queue, line)
<1>0. \A c \in Channel : \A k \in Nat : k + up[c] \in Nat
  <2>1. \A c \in Channel : up[c] \in {0, 1}
    OBVIOUS
  <2> QED
    BY <2>1
<1>1. ASSUME Orderly, NEW c \in Channel, NEW d \in Channel, NEW k \in Nat, NEW l \in Nat,
             NEW t \in Look, NEW u \in Look,
             Flies(c, k, t, rest, queue, line), Flies(d, l, u, rest, queue, line), Page(t) = Page(u)
      PROVE  c = d /\ Turn(k, t, l, u)
  <2>1. /\ Flies(c, k + up[c], t, pending, local, wire) /\ Flies(d, l + up[d], u, pending, local, wire)
        /\ k + up[c] \in Nat /\ l + up[d] \in Nat
    BY <1>0, <1>1
  <2>2. c = d /\ Turn(k + up[c], t, l + up[d], u)
    BY <1>1, <2>1 DEF Order
  <2>3. up[c] \in {0, 1}
    OBVIOUS
  <2>4. k < l => k + up[c] < l + up[d]
    BY <2>2, <2>3
  <2> QED
    BY <2>2, <2>4 DEF Turn
<1>2. ASSUME Orderly, NEW c \in Channel, NEW k \in Nat, NEW t \in Look,
             Flies(c, k, t, rest, queue, line), NEW i \in DOMAIN bubbles[Page(t)]
      PROVE  bubbles[Page(t)][i] < t.no
  BY <1>0, <1>2 DEF Later
<1> QED
  BY <1>1, <1>2 DEF Order, Later

\* The look-up t comes back: those of its page that wait on are of younger
\* messages, but the senders that are looked up when a card comes are of older
\* ones, and so is what the page shows.
Back(t, rest, queue, line) ==
    Orderly =>
        /\ \A c \in Channel : \A k \in Nat : \A u \in Look :
              Flies(c, k, u, rest, queue, line) /\ Page(u) = Page(t) =>
                  IF u.step = "bubble" /\ t.step = "card" THEN u.no < t.no ELSE t.no < u.no
        /\ \A i \in DOMAIN bubbles[Page(t)] : bubbles[Page(t)][i] < t.no

\* The first in a queue comes back.
LEMMA FirstIsBack ==
    ASSUME Order(pending, local, wire), Later(pending, local, wire),
           NEW rest, NEW queue, NEW line, NEW up \in [Channel -> {0, 1}],
           \A c \in Channel : \A k \in Nat : \A u \in Look :
              Flies(c, k, u, rest, queue, line) =>
                  /\ k > 0 /\ u.step # "dock"
                  /\ Flies(c, k + up[c], u, pending, local, wire),
           NEW b \in Channel, up[b] = 1, NEW t \in Look, t.step # "dock",
           ~clash => Flies(b, 1, t, pending, local, wire)
    PROVE  Back(t, rest, queue, line)
<1>1. ASSUME Orderly, NEW c \in Channel, NEW k \in Nat, NEW u \in Look,
             Flies(c, k, u, rest, queue, line), Page(u) = Page(t)
      PROVE  IF u.step = "bubble" /\ t.step = "card" THEN u.no < t.no ELSE t.no < u.no
  <2>1. k > 0 /\ u.step # "dock" /\ Flies(c, k + up[c], u, pending, local, wire) /\ Flies(b, 1, t, pending, local, wire)
    BY <1>1 DEF Orderly
  <2>2. k + up[c] \in Nat
    <3>1. up[c] \in {0, 1}
      OBVIOUS
    <3> QED
      BY <3>1
  <2>3. b = c /\ Turn(1, t, k + up[c], u) /\ Turn(k + up[c], u, 1, t)
    BY <1>1, <2>1, <2>2 DEF Order
  <2>4. 1 < k + up[c]
    BY <2>1, <2>3
  <2>5. t.step \in {"card", "bubble"} /\ u.step \in {"card", "bubble"}
    BY <2>1 DEF Look
  <2>6. CASE u.step = t.step
    <3>1. t.no < u.no
      BY <2>3, <2>4, <2>6 DEF Turn
    <3> QED
      BY <2>6, <3>1
  <2>7. CASE u.step # t.step
    BY <2>3, <2>5, <2>7 DEF Turn
  <2> QED
    BY <2>6, <2>7
<1>2. ASSUME Orderly, NEW i \in DOMAIN bubbles[Page(t)] PROVE bubbles[Page(t)][i] < t.no
  BY <1>2 DEF Later, Orderly
<1> QED
  BY <1>1, <1>2 DEF Back

------------------------------------------------------------------------------
\* A page holds its own messages, oldest first.
ShownInv ==
    /\ bubbles \in [Subject -> Seq(Nat)]
    /\ \A s \in Subject : \A i \in DOMAIN bubbles[s] :
          bubbles[s][i] \in 1..arrived /\ Traffic[bubbles[s][i]].to = s
    /\ Orderly => \A s \in Subject : \A i, j \in DOMAIN bubbles[s] :
          i < j => bubbles[s][i] < bubbles[s][j]

\* Nothing happens after a crash.
CrashInv == (running => crash = 0) /\ CrashNeedsStranger

PageInv ==
    /\ RowsInv /\ socket = "connected"
    /\ asked \in 0..MaxRequests /\ clash \in BOOLEAN
    /\ arrived \in 0..Len(Traffic) /\ cards \subseteq Subject
    /\ Sound(pending, local, wire) /\ Distinct(pending, wire)
    /\ Order(pending, local, wire) /\ Later(pending, local, wire)
    /\ ShownInv /\ CrashInv

\* Nothing waits yet.
LEMMA PageStarts == PageInit => PageInv
<1> SUFFICES ASSUME PageInit PROVE PageInv
  OBVIOUS
<1>1. RowsInv
  BY DEF PageInit, CacheInit, RowsInv, CacheTrue
<1>2. /\ <<>> \in Seq(Asked) /\ <<>> \in Seq([todo : Look, name : Subject]) /\ <<>> \in Seq(Nat)
      /\ DOMAIN <<>> = {}
  OBVIOUS
<1>3. pending = {} /\ local = <<>> /\ wire = <<>>
  BY DEF PageInit, RequestInit, CacheInit
<1>4. Sound(pending, local, wire) /\ Distinct(pending, wire)
  BY <1>2, <1>3 DEF Sound, Distinct
<1>5. Order(pending, local, wire) /\ Later(pending, local, wire)
  BY <1>2, <1>3 DEF Order, Later, Flies
<1>6. ShownInv
  <2>1. \A s \in Subject : bubbles[s] = <<>>
    BY DEF PageInit
  <2>2. bubbles \in [Subject -> Seq(Nat)]
    BY <1>2 DEF PageInit
  <2> QED
    BY <1>2, <2>1, <2>2 DEF ShownInv
<1>7. CrashInv
  BY DEF PageInit, CrashInv, CrashNeedsStranger
<1>8. asked \in 0..MaxRequests /\ arrived \in 0..Len(Traffic) /\ clash \in BOOLEAN
  <2>1. MaxRequests \in Nat /\ Len(Traffic) \in Nat
    BY RequestAssumption, TrafficIs
  <2>2. asked = 0 /\ arrived = 0 /\ clash = FALSE
    BY DEF PageInit, RequestInit
  <2> DEFINE n == Len(Traffic)
  <2> HIDE DEF n
  <2>3. n \in Nat /\ 0 \in 0..n
    BY <2>1 DEF n
  <2> QED
    <3>1. arrived \in 0..n
      BY <2>2, <2>3
    <3>2. asked \in 0..MaxRequests
      BY <2>1, <2>2
    <3>3. clash \in BOOLEAN
      BY <2>2
    <3> QED
      BY <3>1, <3>2, <3>3 DEF n
<1>9. socket = "connected" /\ cards \subseteq Subject
  BY DEF PageInit
<1> QED
  BY <1>1, <1>4, <1>5, <1>6, <1>7, <1>8, <1>9 DEF PageInv

\* What the table answered first comes back.
LEMMA TableGives ==
    ASSUME PageInv, NEW q, local # <<>>, q = Head(local)
    PROVE  /\ LookOK(q.todo) /\ q.todo.step # "dock"
           /\ Sound(pending, Tail(local), wire)
           /\ Order(pending, Tail(local), wire) /\ Later(pending, Tail(local), wire)
           /\ Back(q.todo, pending, Tail(local), wire)
<1> DEFINE Answer == [todo : Look, name : Subject]
<1>1. local \in Seq(Answer)
  BY DEF PageInv, Sound
<1> HIDE DEF Answer
<1>2. /\ Tail(local) \in Seq(Answer) /\ 1 \in DOMAIN local /\ q = local[1]
      /\ \A k \in DOMAIN Tail(local) : k + 1 \in DOMAIN local /\ Tail(local)[k] = local[k + 1]
  BY <1>1, TailIs
<1>3. LookOK(q.todo) /\ q.todo.step # "dock" /\ q.todo \in Look
  BY <1>2 DEF PageInv, Sound, LookOK
<1>4. Sound(pending, Tail(local), wire)
  BY <1>2 DEF PageInv, Sound, Answer
<1> DEFINE up == [c \in Channel |-> IF c = "table" THEN 1 ELSE 0]
<1>5. up \in [Channel -> {0, 1}] /\ up["table"] = 1 /\ up["wire"] = 0 /\ "table" \in Channel
  BY DEF Channel
<1> HIDE DEF up
<1>6. ASSUME NEW c \in Channel, NEW k \in Nat, NEW u \in Look, Flies(c, k, u, pending, Tail(local), wire)
      PROVE  /\ k > 0 /\ u.step # "dock"
             /\ Flies(c, k + up[c], u, pending, local, wire)
  <2>1. CASE c = "wire"
    <3>1. k \in DOMAIN wire /\ u.step # "dock" /\ k + up[c] = k
      BY <1>5, <1>6, <2>1 DEF Flies
    <3>2. k > 0
      BY <3>1, LenProperties DEF PageInv, Sound
    <3> QED
      BY <1>6, <2>1, <3>1, <3>2 DEF Flies
  <2>2. CASE c = "table"
    <3>1. k \in DOMAIN Tail(local) /\ Tail(local)[k].todo = u
      BY <1>6, <2>2 DEF Flies
    <3>2. k > 0
      BY <1>2, <3>1, LenProperties
    <3>3. u.step # "dock"
      BY <1>4, <3>1 DEF Sound
    <3> QED
      BY <1>2, <1>5, <2>2, <3>1, <3>2, <3>3 DEF Flies
  <2> QED
    BY <2>1, <2>2 DEF Channel
<1>7. Flies("table", 1, q.todo, pending, local, wire)
  BY <1>2 DEF Flies
<1>8. Order(pending, Tail(local), wire) /\ Later(pending, Tail(local), wire)
  BY <1>5, <1>6, Shift DEF PageInv
<1>9. Back(q.todo, pending, Tail(local), wire)
  BY <1>3, <1>5, <1>6, <1>7, FirstIsBack DEF PageInv
<1> QED
  BY <1>3, <1>4, <1>8, <1>9

\* The requests behind the first move up; the entries rest stay.
LEMMA WireGives ==
    ASSUME PageInv, wire # <<>>, NEW rest \in SUBSET pending
    PROVE  /\ Sound(rest, local, Tail(wire)) /\ Distinct(rest, Tail(wire))
           /\ Order(rest, local, Tail(wire)) /\ Later(rest, local, Tail(wire))
           /\ 1 \in DOMAIN wire /\ Head(wire) = wire[1] /\ wire[1] \in Asked
           /\ \A t \in Look : t.step # "dock" /\ (~clash => Flies("wire", 1, t, pending, local, wire))
                 => Back(t, rest, local, Tail(wire))
<1>1. /\ Tail(wire) \in Seq(Asked) /\ 1 \in DOMAIN wire /\ Head(wire) = wire[1] /\ wire[1] \in Asked
      /\ \A k \in DOMAIN Tail(wire) : k + 1 \in DOMAIN wire /\ Tail(wire)[k] = wire[k + 1]
  BY TailIs DEF PageInv, Sound
<1>2. \A k \in DOMAIN Tail(wire) : k \in Nat /\ k > 0
  BY <1>1, LenProperties
<1>3. Sound(rest, local, Tail(wire))
  <2>1. \A k \in DOMAIN Tail(wire) : Tail(wire)[k].id <= asked
    BY <1>1 DEF PageInv, Sound
  <2> QED
    BY <1>1, <2>1 DEF PageInv, Sound
<1>4. Distinct(rest, Tail(wire))
  <2>1. ASSUME ~clash, NEW k \in DOMAIN Tail(wire), NEW l \in DOMAIN Tail(wire),
               Tail(wire)[k].id = Tail(wire)[l].id
        PROVE  k = l
    <3>1. k + 1 = l + 1
      BY <1>1, <2>1 DEF PageInv, Distinct
    <3> QED
      BY <1>2, <3>1
  <2>2. ASSUME ~clash, NEW k \in DOMAIN Tail(wire), NEW e \in rest, Tail(wire)[k].id = e.id
        PROVE  Tail(wire)[k].of = AskedAs(e.todo)
    BY <1>1, <2>2 DEF PageInv, Distinct
  <2>3. ~clash => \A d, e \in rest : d.id = e.id => d = e
    BY DEF PageInv, Distinct
  <2> QED
    BY <2>1, <2>2, <2>3 DEF Distinct
<1> DEFINE up == [c \in Channel |-> IF c = "wire" THEN 1 ELSE 0]
<1>5. up \in [Channel -> {0, 1}] /\ up["wire"] = 1 /\ up["table"] = 0 /\ "wire" \in Channel
  BY DEF Channel
<1> HIDE DEF up
<1>6. ASSUME NEW c \in Channel, NEW k \in Nat, NEW u \in Look, Flies(c, k, u, rest, local, Tail(wire))
      PROVE  /\ k > 0 /\ u.step # "dock"
             /\ Flies(c, k + up[c], u, pending, local, wire)
  <2>1. CASE c = "wire"
    <3>1. PICK e \in rest : k \in DOMAIN Tail(wire) /\ e.id = Tail(wire)[k].id /\ e.todo = u /\ u.step # "dock"
      BY <1>6, <2>1 DEF Flies
    <3> QED
      BY <1>1, <1>2, <1>5, <2>1, <3>1 DEF Flies
  <2>2. CASE c = "table"
    <3>1. k \in DOMAIN local /\ local[k].todo = u /\ k + up[c] = k
      BY <1>5, <1>6, <2>2 DEF Flies
    <3>2. k > 0
      BY <3>1, LenProperties DEF PageInv, Sound
    <3>3. u.step # "dock"
      BY <3>1 DEF PageInv, Sound
    <3> QED
      BY <2>2, <3>1, <3>2, <3>3 DEF Flies
  <2> QED
    BY <2>1, <2>2 DEF Channel
<1>7. Order(rest, local, Tail(wire)) /\ Later(rest, local, Tail(wire))
  BY <1>5, <1>6, Shift DEF PageInv
<1>8. ASSUME NEW t \in Look, t.step # "dock", ~clash => Flies("wire", 1, t, pending, local, wire)
      PROVE  Back(t, rest, local, Tail(wire))
  BY <1>5, <1>6, <1>8, FirstIsBack DEF PageInv
<1> QED
  BY <1>1, <1>3, <1>4, <1>7, <1>8

\* An answer finds the entry of its request, unless two requests drew one id.
LEMMA AnswerGives ==
    ASSUME PageInv, NEW r \in Answers, NEW e \in EntryOf(r)
    PROVE  /\ LookOK(e.todo) /\ (~clash => r.of = AskedAs(e.todo))
           /\ Sound(Left(r), local, Tail(wire)) /\ Distinct(Left(r), Tail(wire))
           /\ Order(Left(r), local, Tail(wire)) /\ Later(Left(r), local, Tail(wire))
           /\ e.todo.step # "dock" => Back(e.todo, Left(r), local, Tail(wire))
<1>1. wire # <<>> /\ r.id = Head(wire).id /\ r.of = Head(wire).of
  BY AnswerIs
<1>2. Left(r) \in SUBSET pending
  BY DEF Left
<1>3. 1 \in DOMAIN wire /\ r.id = wire[1].id /\ r.of = wire[1].of
  BY <1>1, <1>2, WireGives
<1>4. e \in pending /\ e.id = wire[1].id
  BY <1>3 DEF EntryOf
<1>5. LookOK(e.todo) /\ e.todo \in Look
  BY <1>4 DEF PageInv, Sound, LookOK
<1>6. ~clash => r.of = AskedAs(e.todo)
  BY <1>3, <1>4 DEF PageInv, Distinct
<1>7. e.todo.step # "dock" => Flies("wire", 1, e.todo, pending, local, wire)
  BY <1>3, <1>4 DEF Flies
<1> QED
  BY <1>1, <1>2, <1>5, <1>6, <1>7, WireGives

\* Entries that are dropped take nothing else with them.
LEMMA DropKeeps ==
    ASSUME PageInv, LookUpsDropped
    PROVE  PageInv'
<1>1. PICK gone \in SUBSET Found :
         /\ pending' = {[e EXCEPT !.seen = TRUE] : e \in pending \ gone}
         /\ UNCHANGED <<wire, asked, clash, linkVars, cacheVars, tabVars, arrived, cards, bubbles,
                        crash, jumped>>
  BY DEF LookUpsDropped, TimesOut
<1>2. /\ UNCHANGED <<running, socket, rows, local, wire, asked, clash, jumped>>
      /\ UNCHANGED <<arrived, cards, bubbles, crash>>
  BY <1>1 DEF linkVars, cacheVars
<1>3. ASSUME NEW x \in pending'
      PROVE  \E d \in pending : /\ x = [d EXCEPT !.seen = TRUE] /\ d \in Waiter /\ x \in Waiter
                                /\ x.id = d.id /\ x.todo = d.todo
  <2>1. PICK d \in pending : x = [d EXCEPT !.seen = TRUE]
    BY <1>1
  <2>2. d \in Waiter
    BY DEF PageInv, Sound
  <2> QED
    BY <2>1, <2>2 DEF Waiter
<1>4. Sound(pending, local, wire)'
  <2>1. ASSUME NEW x \in pending' PROVE x \in Waiter /\ x.id \in 1..asked /\ LookOK(x.todo)
    <3>1. PICK d \in pending : x \in Waiter /\ x.id = d.id /\ x.todo = d.todo
      BY <1>3
    <3>2. d.id \in 1..asked /\ LookOK(d.todo)
      BY DEF PageInv, Sound
    <3> QED
      BY <3>1, <3>2
  <2>2. \A x \in pending' : x \in Waiter /\ x.id \in 1..asked /\ LookOK(x.todo)
    BY <2>1
  <2> QED
    BY <1>2, <2>2 DEF PageInv, Sound, LookOK
<1>5. Distinct(pending, wire)'
  <2>1. ASSUME ~clash, NEW x \in pending', NEW y \in pending', x.id = y.id PROVE x = y
    <3>1. PICK d \in pending : x = [d EXCEPT !.seen = TRUE] /\ x.id = d.id
      BY <1>3
    <3>2. PICK e \in pending : y = [e EXCEPT !.seen = TRUE] /\ y.id = e.id
      BY <1>3
    <3>3. d = e
      BY <2>1, <3>1, <3>2 DEF PageInv, Distinct
    <3> QED
      BY <3>1, <3>2, <3>3
  <2>2. ASSUME ~clash, NEW k \in DOMAIN wire, NEW x \in pending', wire[k].id = x.id
        PROVE  wire[k].of = AskedAs(x.todo)
    <3>1. PICK d \in pending : x.id = d.id /\ x.todo = d.todo
      BY <1>3
    <3> QED
      BY <2>2, <3>1 DEF PageInv, Distinct
  <2>3. ~clash => \A k, l \in DOMAIN wire : wire[k].id = wire[l].id => k = l
    BY DEF PageInv, Distinct
  <2> QED
    BY <1>2, <2>1, <2>2, <2>3 DEF Distinct, AskedAs
<1> DEFINE up == [c \in Channel |-> 0]
<1>6. up \in [Channel -> {0, 1}] /\ \A c \in Channel : up[c] = 0
  OBVIOUS
<1> HIDE DEF up
<1>7. ASSUME NEW c \in Channel, NEW k \in Nat, NEW u \in Look, Flies(c, k, u, pending', local, wire)
      PROVE  Flies(c, k + up[c], u, pending, local, wire)
  <2>1. k + up[c] = k
    BY <1>6
  <2>2. CASE c = "wire"
    <3>1. PICK x \in pending' : k \in DOMAIN wire /\ x.id = wire[k].id /\ x.todo = u /\ u.step # "dock"
      BY <1>7, <2>2 DEF Flies
    <3>2. PICK d \in pending : x.id = d.id /\ x.todo = d.todo
      BY <1>3
    <3> QED
      BY <2>1, <2>2, <3>1, <3>2 DEF Flies
  <2>3. CASE c = "table"
    BY <1>7, <2>1, <2>3 DEF Flies
  <2> QED
    BY <2>2, <2>3 DEF Channel
<1>8. PICK rest : rest = pending'
  OBVIOUS
<1>9. Order(rest, local, wire) /\ Later(rest, local, wire)
  BY <1>6, <1>7, <1>8, Shift DEF PageInv
<1>10. Order(pending, local, wire)' /\ Later(pending, local, wire)'
  BY <1>2, <1>8, <1>9 DEF Order, Later, Orderly, Flies, Page, Turn
<1> QED
  BY <1>2, <1>4, <1>5, <1>10
     DEF PageInv, RowsInv, CacheTrue, ShownInv, Orderly, CrashInv, CrashNeedsStranger

------------------------------------------------------------------------------
\* A message is put on its page.
LEMMA InsertKeeps ==
    ASSUME ShownInv, arrived \in Nat, arrived' = arrived, clash' = clash, jumped' = jumped,
           arrived <= Len(Traffic),
           NEW rest, NEW queue, NEW line, Sound(rest, queue, line), Later(rest, queue, line),
           NEW t \in Look, LookOK(t), t.step # "dock", Back(t, rest, queue, line),
           t.step = "bubble" \/ Page(t) \in User, Insert(Page(t), t.no)
    PROVE  ShownInv' /\ Later(rest, queue, line)'
<1> DEFINE s == Page(t)
           was == bubbles[s]
           now == Append(was, t.no)
<1>1. t.no \in 1..arrived /\ t.no \in Nat /\ s \in Subject /\ s = Traffic[t.no].to
  <2>1. t.no \in 1..arrived
    BY DEF LookOK
  <2>2. t.no \in 1..Len(Traffic)
    BY <2>1, TrafficIs
  <2> QED
    BY <2>1, <2>2, TrafficIs DEF Page
<1>2. bubbles' = [bubbles EXCEPT ![s] = now]
  BY DEF Insert
<1>3. was \in Seq(Nat)
  BY <1>1 DEF ShownInv
<1> HIDE DEF s
<1>4. bubbles'[s] = now /\ \A p \in Subject : p # s => bubbles'[p] = bubbles[p]
  BY <1>1, <1>2 DEF ShownInv
<1> HIDE DEF was
<1>5. /\ now \in Seq(Nat) /\ Len(was) \in Nat
      /\ DOMAIN was = 1..Len(was) /\ DOMAIN now = 1..(Len(was) + 1)
      /\ \A i \in 1..Len(was) : now[i] = was[i]
      /\ now[Len(was) + 1] = t.no
  BY <1>1, <1>3, AppendProperties, LenProperties
<1> HIDE DEF now
<1>6. \A i \in DOMAIN was : /\ was[i] \in 1..arrived /\ Traffic[was[i]].to = s
                            /\ was[i] \in Nat
  <2>1. was = bubbles[s]
    BY DEF was
  <2>2. \A i \in DOMAIN bubbles[s] : bubbles[s][i] \in 1..arrived /\ Traffic[bubbles[s][i]].to = s
    BY <1>1 DEF ShownInv
  <2>3. \A i \in DOMAIN was : was[i] \in 1..arrived /\ Traffic[was[i]].to = s
    BY <2>1, <2>2
  <2>4. \A k \in 1..arrived : k \in Nat
    OBVIOUS
  <2> QED
    BY <2>3, <2>4
<1>7. Orderly => \A i, j \in DOMAIN was : i < j => was[i] < was[j]
  BY <1>1 DEF ShownInv, was
<1>8. Orderly => \A i \in DOMAIN was : was[i] < t.no
  BY DEF Back, s, was
<1>9. ASSUME NEW i \in DOMAIN now PROVE (i \in DOMAIN was /\ now[i] = was[i]) \/ now[i] = t.no
  BY <1>5
<1>10. ShownInv'
  <2>1. bubbles' \in [Subject -> Seq(Nat)]
    BY <1>1, <1>2, <1>5 DEF ShownInv
  <2>2. ASSUME NEW p \in Subject, NEW i \in DOMAIN bubbles'[p]
        PROVE  bubbles'[p][i] \in 1..arrived /\ Traffic[bubbles'[p][i]].to = p
    <3>1. CASE p # s
      BY <1>4, <2>2, <3>1 DEF ShownInv
    <3>2. CASE p = s
      <4>1. i \in DOMAIN now /\ bubbles'[p][i] = now[i]
        BY <1>4, <2>2, <3>2
      <4>2. (i \in DOMAIN was /\ now[i] = was[i]) \/ now[i] = t.no
        BY <1>9, <4>1
      <4> QED
        BY <1>1, <1>6, <3>2, <4>1, <4>2
    <3> QED
      BY <3>1, <3>2
  <2>3. ASSUME Orderly, NEW p \in Subject, NEW i \in DOMAIN bubbles'[p], NEW j \in DOMAIN bubbles'[p], i < j
        PROVE  bubbles'[p][i] < bubbles'[p][j]
    <3>1. CASE p # s
      BY <1>4, <2>3, <3>1 DEF ShownInv
    <3>2. CASE p = s
      <4>1. i \in DOMAIN now /\ j \in DOMAIN now /\ bubbles'[p] = now
        BY <1>4, <2>3, <3>2
      <4>2. i \in DOMAIN was /\ now[i] = was[i]
        BY <1>5, <2>3, <4>1
      <4>3. CASE j \in DOMAIN was /\ now[j] = was[j]
        BY <1>7, <2>3, <4>1, <4>2, <4>3
      <4>4. CASE now[j] = t.no
        BY <1>8, <2>3, <4>1, <4>2, <4>4
      <4> QED
        BY <1>9, <4>1, <4>3, <4>4
    <3> QED
      BY <3>1, <3>2
  <2> QED
    BY <2>1, <2>2, <2>3 DEF ShownInv, Orderly
<1>11. ASSUME Orderly, NEW c \in Channel, NEW k \in Nat, NEW u \in Look,
              Flies(c, k, u, rest, queue, line), NEW i \in DOMAIN bubbles'[Page(u)]
       PROVE  bubbles'[Page(u)][i] < u.no
  <2>0. LookOK(u) /\ u.step # "dock" /\ Page(u) \in Subject
    <3>1. LookOK(u) /\ u.step # "dock"
      BY <1>11 DEF Flies, Sound
    <3>2. u.no \in 1..arrived
      BY <3>1 DEF LookOK
    <3>3. u.no \in 1..Len(Traffic)
      BY <3>2, TrafficIs
    <3> QED
      BY <3>1, <3>3, TrafficIs DEF Page
  <2>1. CASE Page(u) # s
    BY <1>4, <1>11, <2>0, <2>1 DEF Later
  <2>2. CASE Page(u) = s
    <3>1. i \in DOMAIN now /\ bubbles'[Page(u)] = now
      BY <1>4, <1>11, <2>2
    <3>2. CASE i \in DOMAIN was /\ now[i] = was[i]
      BY <1>11, <2>2, <3>1, <3>2 DEF Later, was
    <3>3. CASE now[i] = t.no
      <4>1. ~(u.step = "bubble" /\ t.step = "card")
        <5> SUFFICES ASSUME u.step = "bubble", t.step = "card" PROVE FALSE
          OBVIOUS
        <5>1. Page(u) \in Group /\ Page(t) \in User
          BY <2>0 DEF LookOK, Page
        <5> QED
          BY <2>2, <5>1, SubjectAssumption DEF s
      <4>2. t.no < u.no
        BY <1>11, <2>2, <4>1 DEF Back, s
      <4> QED
        BY <3>1, <3>3, <4>2
    <3> QED
      BY <1>9, <3>1, <3>2, <3>3
  <2> QED
    BY <2>1, <2>2
<1>12. Later(rest, queue, line)'
  BY <1>11 DEF Later, Flies, Page, Orderly
<1> QED
  BY <1>10, <1>12

------------------------------------------------------------------------------
\* Where nothing is looked up what waits stays.
LEMMA RestsKeep ==
    ASSUME NEW rest, NEW queue, NEW line, Rests(rest, queue, line), arrived' = arrived,
           Sound(rest, queue, line), Distinct(rest, line), Order(rest, queue, line),
           Later(rest, queue, line)'
    PROVE  /\ Sound(pending, local, wire)' /\ Distinct(pending, wire)'
           /\ Order(pending, local, wire)' /\ Later(pending, local, wire)'
           /\ asked' = asked /\ clash' = clash /\ jumped' = jumped
<1>1. /\ pending' = rest /\ local' = queue /\ wire' = line
      /\ asked' = asked /\ clash' = clash /\ jumped' = jumped
  BY DEF Rests
<1>2. Sound(pending, local, wire)'
  BY <1>1 DEF Sound, LookOK
<1>3. Distinct(pending, wire)'
  BY <1>1 DEF Distinct
<1>4. Order(pending, local, wire)'
  BY <1>1 DEF Order, Flies, Orderly
<1>5. Later(pending, local, wire)'
  BY <1>1 DEF Later, Flies, Orderly
<1> QED
  BY <1>1, <1>2, <1>3, <1>4, <1>5

\* What is the same on the pages is as late as it was.
LEMMA LaterStays ==
    ASSUME NEW rest, NEW queue, NEW line, Later(rest, queue, line),
           bubbles' = bubbles, Orderly' => Orderly
    PROVE  Later(rest, queue, line)'
  BY DEF Later

LEMMA ShownStays ==
    ASSUME ShownInv, bubbles' = bubbles, arrived \in Nat, arrived' \in Nat, arrived <= arrived',
           Orderly' => Orderly
    PROVE  ShownInv'
<1>1. 1..arrived \subseteq 1..arrived'
  OBVIOUS
<1> QED
  BY <1>1 DEF ShownInv

\* What a callback does that got id for the look-up todo.
Served(id, todo, rest, queue, line) ==
    /\ LookOK(todo)
    /\ Sound(rest, queue, line) /\ Distinct(rest, line)
    /\ Order(rest, queue, line) /\ Later(rest, queue, line)
    /\ todo.step # "dock" => Back(todo, rest, queue, line)
    /\ ~clash /\ todo.step = "card" => id = todo.of

Kept ==
    /\ socket' = "connected" /\ asked' \in 0..MaxRequests /\ clash' \in BOOLEAN
    /\ cards' \subseteq Subject
    /\ Sound(pending, local, wire)' /\ Distinct(pending, wire)'
    /\ Order(pending, local, wire)' /\ Later(pending, local, wire)'
    /\ ShownInv' /\ CrashInv'

\* A message, or nothing, is added to a page.
LEMMA NoteKeeps ==
    ASSUME PageInv, running, arrived' = arrived, NEW id, NEW todo, NEW rest, NEW queue, NEW line,
           Served(id, todo, rest, queue, line), todo.step # "card",
           NoteReady(todo, rest, queue, line)
    PROVE  Kept
<1>1. /\ Rests(rest, queue, line) /\ UNCHANGED <<running, socket, cards, crash>>
      /\ asked' = asked /\ clash' = clash /\ jumped' = jumped
  BY DEF NoteReady, linkVars, Rests
<1>2. ShownInv' /\ Later(rest, queue, line)'
  <2>1. CASE todo.step = "bubble"
    <3>1. Insert(Page(todo), todo.no)
      BY <2>1 DEF NoteReady, Page
    <3>2. arrived \in Nat /\ arrived <= Len(Traffic)
      BY TrafficIs DEF PageInv
    <3>3. todo \in Look /\ LookOK(todo)
      BY DEF Served, LookOK
    <3>4. Sound(rest, queue, line) /\ Later(rest, queue, line) /\ Back(todo, rest, queue, line)
      BY <2>1 DEF Served
    <3> QED
      BY <1>1, <2>1, <3>1, <3>2, <3>3, <3>4, InsertKeeps DEF PageInv
  <2>2. CASE todo.step # "bubble"
    <3>1. bubbles' = bubbles /\ Orderly' = Orderly
      BY <1>1, <2>2 DEF NoteReady, Orderly
    <3>2. Later(rest, queue, line)'
      BY <3>1, LaterStays DEF Served
    <3>3. ShownInv'
      BY <3>1 DEF PageInv, ShownInv
    <3> QED
      BY <3>2, <3>3
  <2> QED
    BY <2>1, <2>2
<1>3. /\ Sound(pending, local, wire)' /\ Distinct(pending, wire)'
      /\ Order(pending, local, wire)' /\ Later(pending, local, wire)'
  BY <1>1, <1>2, RestsKeep DEF Served
<1>4. CrashInv'
  BY <1>1 DEF PageInv, CrashInv, CrashNeedsStranger
<1> QED
  BY <1>1, <1>2, <1>3, <1>4 DEF PageInv, Kept

LEMMA InFront ==
    ASSUME NEW x, NEW y
    PROVE  <<>> \o <<x>> = <<x>> /\ <<y>> \o <<x>> = <<y, x>>
<1>1. <<>> \o <<x>> = <<x>>
  OBVIOUS
<1>2. <<y>> \o <<x>> = <<y, x>>
  <2> DEFINE S == {x, y}
             s == <<y>>
             t == <<x>>
             u == s \o t
  <2>1. s \in Seq(S) /\ t \in Seq(S) /\ Len(s) = 1 /\ Len(t) = 1 /\ s[1] = y /\ t[1] = x
    OBVIOUS
  <2> HIDE DEF s, t, S
  <2>2. /\ u \in Seq(S) /\ Len(u) = 2
        /\ \A i \in 1..2 : u[i] = IF i <= 1 THEN s[i] ELSE t[i - 1]
    BY <2>1, ConcatProperties
  <2> HIDE DEF u
  <2>3. u[1] = y /\ u[2] = x
    BY <2>1, <2>2
  <2>4. u = <<y, x>>
    BY <2>2, <2>3
  <2> QED
    BY <2>4 DEF u, s, t
<1> QED
  BY <1>1, <1>2

\* What is asked when a card has come.
LEMMA CardBatch ==
    ASSUME NEW no \in Nat, NEW id, NEW from, NEW t, t = [no |-> no, step |-> "bubble", of |-> from],
           NEW new, new = Dock(no, id) \o <<Of("bubble", no, from)>>
    PROVE  Batch(new, t)
<1>1. Of("bubble", no, from) = Of(t.step, t.no, t.of)
  OBVIOUS
<1> DEFINE x == Of("bubble", no, from)
<1>2. \A y : <<>> \o <<x>> = <<x>> /\ <<y>> \o <<x>> = <<y, x>>
  BY InFront
<1>3. Dock(no, id) = <<>> \/ (id \in Group /\ Dock(no, id) = <<Members(no, id)>>)
  BY DEF Dock
<1> HIDE DEF x
<1>4. new = <<x>> \/ (id \in Group /\ new = <<Members(no, id), x>>)
  BY <1>2, <1>3 DEF x
<1> QED
  BY <1>1, <1>4 DEF Batch, x

\* The look-up of a card comes back.
LEMMA CardKeeps ==
    ASSUME PageInv, running, arrived' = arrived, NEW id, NEW todo, NEW rest, NEW queue, NEW line,
           Served(id, todo, rest, queue, line), todo.step = "card",
           CardReady(todo.no, id, rest, queue, line)
    PROVE  Kept
<1> DEFINE no == todo.no
           m == Traffic[no]
           known == {m.from, m.to} \subseteq CardFirst(id)
<1>1. /\ cards' = WithCard(id)
      /\ \/ ~known /\ Crashes(no) /\ Rests(rest, queue, line)
         \/ known /\ m.to \in User /\ Insert(m.to, no) /\ Rests(rest, queue, line) /\ UNCHANGED <<linkVars, crash>>
         \/ /\ known /\ m.to \in Group
            /\ Looks(Dock(no, id) \o <<Of("bubble", no, m.from)>>, rest, queue, line)
            /\ UNCHANGED <<linkVars, bubbles, crash>>
  BY DEF CardReady
<1>2. cards' \subseteq Subject
  BY <1>1 DEF WithCard, PageInv
<1>3. /\ todo \in Look /\ no \in 1..arrived /\ no \in Nat /\ no # 0 /\ todo.of = m.to
      /\ arrived \in Nat /\ arrived <= Len(Traffic)
      /\ m.from \in User /\ m.to \in Subject /\ (m.to \in Group \/ m.to = m.from) /\ m.from \in Subject
      /\ Page(todo) = m.to
  <2>1. arrived \in Nat /\ arrived <= Len(Traffic)
    BY TrafficIs DEF PageInv
  <2>2. todo \in Look /\ no \in 1..arrived /\ todo.of = m.to
    BY DEF Served, LookOK
  <2>3. no \in Nat /\ no # 0 /\ no \in 1..Len(Traffic)
    BY <2>1, <2>2, TrafficIs
  <2> QED
    BY <2>1, <2>2, <2>3, TrafficIs DEF Page
<1>4. LookOK(todo) /\ Sound(rest, queue, line) /\ Later(rest, queue, line) /\ Back(todo, rest, queue, line)
  BY DEF Served
<1>5. CASE ~known /\ Crashes(no) /\ Rests(rest, queue, line)
  <2>1. /\ running' = FALSE /\ crash' = no /\ socket' = socket /\ bubbles' = bubbles
        /\ asked' = asked /\ clash' = clash /\ jumped' = jumped
    BY <1>5 DEF Crashes, Rests
  <2>2. Orderly' = Orderly
    BY <2>1 DEF Orderly
  <2>3. Later(rest, queue, line)'
    BY <1>4, <2>1, <2>2, LaterStays
  <2>4. /\ Sound(pending, local, wire)' /\ Distinct(pending, wire)'
        /\ Order(pending, local, wire)' /\ Later(pending, local, wire)'
    BY <1>5, <2>3, RestsKeep DEF Served
  <2>5. ShownInv'
    BY <2>1, <2>2 DEF PageInv, ShownInv
  <2>6. ~clash => m.to \in Group /\ m.from \notin cards'
    <3>1. ~clash => m.to \in WithCard(id)
      BY <1>3 DEF Served, WithCard
    <3> QED
      BY <1>1, <1>3, <1>5, <3>1 DEF CardFirst
  <2>7. CrashInv'
    BY <1>3, <2>1, <2>6 DEF CrashInv, CrashNeedsStranger
  <2> QED
    BY <1>2, <2>1, <2>4, <2>5, <2>7 DEF PageInv, Kept
<1>6. CASE known /\ m.to \in User /\ Insert(m.to, no) /\ Rests(rest, queue, line) /\ UNCHANGED <<linkVars, crash>>
  <2>1. /\ running' = running /\ crash' = crash /\ socket' = socket
        /\ asked' = asked /\ clash' = clash /\ jumped' = jumped
    BY <1>6 DEF linkVars, Rests
  <2>2. Insert(Page(todo), todo.no) /\ Page(todo) \in User
    BY <1>3, <1>6
  <2>3. ShownInv' /\ Later(rest, queue, line)'
    BY <1>3, <1>4, <2>1, <2>2, InsertKeeps DEF PageInv
  <2>4. /\ Sound(pending, local, wire)' /\ Distinct(pending, wire)'
        /\ Order(pending, local, wire)' /\ Later(pending, local, wire)'
    BY <1>6, <2>3, RestsKeep DEF Served
  <2>5. CrashInv'
    BY <2>1 DEF PageInv, CrashInv, CrashNeedsStranger
  <2> QED
    BY <1>2, <2>1, <2>3, <2>4, <2>5 DEF PageInv, Kept
<1>7. CASE /\ known /\ m.to \in Group
           /\ Looks(Dock(no, id) \o <<Of("bubble", no, m.from)>>, rest, queue, line)
           /\ UNCHANGED <<linkVars, bubbles, crash>>
  <2>1. PICK t : t = [no |-> no, step |-> "bubble", of |-> m.from]
    OBVIOUS
  <2>2. t \in Look /\ LookOK(t) /\ t.step = "bubble" /\ t.no = no /\ Page(t) = Page(todo)
    BY <1>3, <1>7, <2>1 DEF Look, LookOK, Page
  <2>3. LookOK(t)'
    BY <1>3, <2>2, LooksStay
  <2>4. PICK new : new = Dock(no, id) \o <<Of("bubble", no, m.from)>>
    OBVIOUS
  <2>5. Batch(new, t)
    BY <1>3, <2>1, <2>4, CardBatch
  <2>6. Fits(t, rest, queue, line)
    <3>1. ASSUME Orderly, NEW c \in Channel, NEW k \in Nat, NEW u \in Look,
                 Flies(c, k, u, rest, queue, line), Page(u) = Page(t)
          PROVE  IF u.step = "card" THEN t.no < u.no ELSE u.no < t.no
      <4>1. u.step \in {"card", "bubble"}
        BY <1>4, <3>1 DEF Flies, Sound, Look
      <4>2. IF u.step = "bubble" THEN u.no < no ELSE no < u.no
        BY <1>4, <2>2, <3>1 DEF Back
      <4> QED
        BY <2>2, <4>1, <4>2
    <3>2. Orderly => \A i \in DOMAIN bubbles[Page(t)] : bubbles[Page(t)][i] < t.no
      BY <1>4, <2>2 DEF Back
    <3> QED
      BY <2>2, <3>1, <3>2 DEF Fits
  <2>7. UNCHANGED <<running, socket, crash, bubbles>>
    BY <1>7 DEF linkVars
  <2>8. /\ Sound(pending, local, wire)' /\ Distinct(pending, wire)'
        /\ Order(pending, local, wire)' /\ Later(pending, local, wire)'
        /\ asked' \in Nat /\ asked' <= MaxRequests /\ clash' \in BOOLEAN
    <3>1. asked \in Nat
      BY RequestAssumption DEF PageInv
    <3>2. Looks(new, rest, queue, line)
      BY <1>7, <2>4
    <3> QED
      BY <1>3, <2>2, <2>3, <2>5, <2>6, <2>7, <3>1, <3>2, LooksKeep DEF PageInv, Served
  <2>9. Orderly' => Orderly
    <3>1. clash => clash'
      BY <1>7 DEF Looks, LookUp, Ask
    <3>2. jumped => jumped'
      BY <1>7 DEF Looks
    <3> QED
      BY <3>1, <3>2 DEF Orderly
  <2>10. ShownInv'
    BY <1>3, <2>7, <2>9, ShownStays DEF PageInv
  <2>11. CrashInv'
    BY <2>7 DEF PageInv, CrashInv, CrashNeedsStranger
  <2>12. asked' \in 0..MaxRequests
    BY <2>8, RequestAssumption
  <2> QED
    BY <1>2, <2>7, <2>8, <2>10, <2>11, <2>12 DEF PageInv, Kept
<1> QED
  BY <1>1, <1>5, <1>6, <1>7

LEMMA ReadyKeeps ==
    ASSUME PageInv, running, arrived' = arrived, NEW id, NEW todo, NEW rest, NEW queue, NEW line,
           Served(id, todo, rest, queue, line), Ready(todo, id, rest, queue, line), RowsInv'
    PROVE  PageInv'
<1>1. Kept
  <2>1. CASE todo.step = "card"
    BY <2>1, CardKeeps DEF Ready
  <2>2. CASE todo.step # "card"
    BY <2>2, NoteKeeps DEF Ready
  <2> QED
    BY <2>1, <2>2
<1> QED
  BY <1>1 DEF Kept, PageInv

\* A message arrives: it is the youngest.
LEMMA ArrivesKeeps ==
    ASSUME PageInv, MessageArrives
    PROVE  PageInv'
<1>1. /\ arrived \in Nat /\ asked \in Nat /\ Len(Traffic) \in Nat
      /\ running /\ arrived < Len(Traffic) /\ arrived' = arrived + 1 /\ arrived' \in 1..Len(Traffic)
  BY RequestAssumption, TrafficIs DEF PageInv, MessageArrives
<1>2. UNCHANGED <<running, socket, rows, cards, bubbles, crash>>
  BY DEF MessageArrives, linkVars
<1>3. PICK t : t = [no |-> arrived', step |-> "card", of |-> Traffic[arrived'].to]
  OBVIOUS
<1>4. PICK new : new = <<Of("card", arrived', Traffic[arrived'].to)>>
  OBVIOUS
<1>5. Looks(new, pending, local, wire)
  BY <1>4 DEF MessageArrives
<1>6. t \in Look /\ t.step = "card" /\ t.no = arrived' /\ LookOK(t)' /\ Batch(new, t)
  <2>1. Traffic[arrived'].to \in Subject
    BY <1>1, TrafficIs
  <2>2. t \in Look /\ t.step = "card" /\ t.no = arrived'
    BY <1>1, <1>3, <2>1 DEF Look
  <2>3. LookOK(t)'
    BY <1>1, <1>3, <2>2 DEF LookOK
  <2>4. Batch(new, t)
    BY <1>3, <1>4 DEF Batch
  <2> QED
    BY <2>2, <2>3, <2>4
<1>7. Page(t) \in Subject
  BY <1>1, <1>6, TrafficIs DEF Page
<1>8. Fits(t, pending, local, wire)
  <2>1. ASSUME NEW c \in Channel, NEW k \in Nat, NEW u \in Look, Flies(c, k, u, pending, local, wire)
        PROVE  u.no < t.no
    <3>1. LookOK(u) /\ u.step # "dock"
      BY <2>1 DEF Flies, PageInv, Sound
    <3>2. u.no \in 1..arrived
      BY <3>1 DEF LookOK
    <3> QED
      BY <1>1, <1>6, <3>2
  <2>2. ASSUME NEW i \in DOMAIN bubbles[Page(t)] PROVE bubbles[Page(t)][i] < t.no
    <3>1. bubbles[Page(t)][i] \in 1..arrived
      BY <1>7 DEF PageInv, ShownInv
    <3> QED
      BY <1>1, <1>6, <3>1
  <2> QED
    BY <1>6, <2>1, <2>2 DEF Fits
<1>9. /\ Sound(pending, local, wire)' /\ Distinct(pending, wire)'
      /\ Order(pending, local, wire)' /\ Later(pending, local, wire)'
      /\ asked' \in Nat /\ asked' <= MaxRequests /\ clash' \in BOOLEAN
  <2>1. t.step # "dock" /\ arrived <= arrived' /\ arrived' \in Nat
    BY <1>1, <1>6
  <2> QED
    BY <1>1, <1>2, <1>5, <1>6, <1>8, <2>1, LooksKeep DEF PageInv
<1>10. Orderly' => Orderly
  <2>1. clash => clash'
    BY <1>5 DEF Looks, LookUp, Ask
  <2>2. jumped => jumped'
    BY <1>5 DEF Looks
  <2> QED
    BY <2>1, <2>2 DEF Orderly
<1>11. ShownInv'
  <2>1. arrived <= arrived' /\ arrived' \in Nat
    BY <1>1
  <2> QED
    BY <1>1, <1>2, <1>10, <2>1, ShownStays DEF PageInv
<1>12. CrashInv'
  BY <1>1, <1>2 DEF PageInv, CrashInv, CrashNeedsStranger
<1>13. RowsInv'
  BY <1>2 DEF PageInv, RowsInv, CacheTrue
<1>14. asked' \in 0..MaxRequests /\ arrived' \in 0..Len(Traffic)
  BY <1>1, <1>9, RequestAssumption
<1> QED
  BY <1>2, <1>9, <1>11, <1>12, <1>13, <1>14 DEF PageInv

\* A look-up is answered from the table.
LEMMA TableServes ==
    ASSUME PageInv, NEW q, TableKnows(q)
    PROVE  PageInv'
<1>1. /\ running /\ local # <<>> /\ q = Head(local) /\ arrived' = arrived /\ rows' = rows
  BY DEF TableKnows, TableAnswers
<1>2. PICK todo, queue : todo = q.todo /\ queue = Tail(local)
  OBVIOUS
<1>3. PICK rest, line : rest = pending /\ line = wire
  OBVIOUS
<1>4. Ready(todo, todo.of, rest, queue, line)
  BY <1>2, <1>3 DEF TableKnows
<1>5. Served(todo.of, todo, rest, queue, line)
  BY <1>1, <1>2, <1>3, TableGives DEF PageInv, Served
<1>6. RowsInv'
  BY <1>1 DEF PageInv, RowsInv, CacheTrue
<1> QED
  BY <1>1, <1>4, <1>5, <1>6, ReadyKeeps

\* A request that is out is answered to nobody, or not at all.
LEMMA PassedOver ==
    ASSUME PageInv, wire # <<>>, Rests(pending, local, Tail(wire)),
           UNCHANGED <<running, socket, rows, arrived, cards, bubbles, crash>>
    PROVE  PageInv'
<1>1. PICK rest, queue, line : rest = pending /\ queue = local /\ line = Tail(wire)
  OBVIOUS
<1>2. Sound(rest, queue, line) /\ Distinct(rest, line) /\ Order(rest, queue, line) /\ Later(rest, queue, line)
  BY <1>1, WireGives
<1>3. asked' = asked /\ clash' = clash /\ jumped' = jumped
  BY DEF Rests
<1>4. Orderly' = Orderly
  BY <1>3 DEF Orderly
<1>5. Later(rest, queue, line)'
  BY <1>2, <1>4, LaterStays
<1>6. /\ Sound(pending, local, wire)' /\ Distinct(pending, wire)'
      /\ Order(pending, local, wire)' /\ Later(pending, local, wire)'
  BY <1>1, <1>2, <1>5, RestsKeep
<1> QED
  BY <1>3, <1>4, <1>6
     DEF PageInv, RowsInv, CacheTrue, ShownInv, CrashInv, CrashNeedsStranger

\* The server answers, or fails to.
LEMMA ServerServes ==
    ASSUME PageInv, NEW r \in Answers, Resolved(r)
    PROVE  PageInv'
<1>1. running /\ wire # <<>> /\ arrived' = arrived
  BY AnswerIs DEF Resolved
<1>2. ASSUME NEW e \in EntryOf(r),
             IF e.todo.step = "dock" THEN UNCHANGED rows ELSE Store(r, e.todo.of),
             Ready(e.todo, IdIn(r, e.todo.of), Left(r), local, Tail(wire))
      PROVE  PageInv'
  <2>1. PICK id, todo : id = IdIn(r, e.todo.of) /\ todo = e.todo
    OBVIOUS
  <2>2. PICK rest, queue, line : rest = Left(r) /\ queue = local /\ line = Tail(wire)
    OBVIOUS
  <2>3. Ready(todo, id, rest, queue, line)
    BY <1>2, <2>1, <2>2
  <2>4. ~clash /\ todo.step = "card" => id = todo.of
    <3> SUFFICES ASSUME ~clash, todo.step = "card" PROVE id = todo.of
      OBVIOUS
    <3>1. r.of = AskedAs(todo) /\ LookOK(todo)
      BY <2>1, AnswerGives
    <3>2. r.of = todo.of /\ todo.of \in Subject
      BY <3>1 DEF AskedAs, LookOK, Look
    <3> QED
      BY <2>1, <3>2 DEF IdIn, SameKind
  <2>5. Served(id, todo, rest, queue, line)
    BY <2>1, <2>2, <2>4, AnswerGives DEF Served
  <2>6. RowsInv'
    <3>1. CASE rows' = rows
      BY <3>1 DEF PageInv, RowsInv, CacheTrue
    <3>2. CASE Store(r, e.todo.of)
      BY <3>2, StoreKeeps DEF PageInv
    <3> QED
      BY <1>2, <3>1, <3>2
  <2> QED
    BY <1>1, <2>3, <2>5, <2>6, ReadyKeeps
<1>3. CASE /\ Rests(pending, local, Tail(wire))
           /\ UNCHANGED <<linkVars, rows, cards, bubbles, crash>>
  BY <1>1, <1>3, PassedOver DEF linkVars
<1> QED
  BY <1>2, <1>3 DEF Resolved

LEMMA MissingKeeps ==
    ASSUME PageInv, AnswerMissing
    PROVE  PageInv'
<1>1. /\ wire # <<>> /\ Rests(pending, local, Tail(wire))
      /\ UNCHANGED <<running, socket, rows, arrived, cards, bubbles, crash>>
  BY DEF AnswerMissing, Unanswered, linkVars, cacheVars, pageVars, Rests
<1> QED
  BY <1>1, PassedOver

\* A contact is chosen: the members of a group may be asked for.
LEMMA ChosenKeeps ==
    ASSUME PageInv, NEW s \in Subject, Chosen(s)
    PROVE  PageInv'
<1>1. /\ running /\ s \notin cards /\ cards' = cards \union {s} /\ Ask(Dock(1, s), pending, wire)
      /\ UNCHANGED <<running, socket, rows, local, arrived, bubbles, crash, jumped>>
  BY DEF Chosen, linkVars, cacheVars
<1>2. PICK req : req = Dock(1, s)
  OBVIOUS
<1>3. arrived \in Nat /\ asked \in Nat
  BY RequestAssumption, TrafficIs DEF PageInv
<1>4. /\ Len(req) \in Nat /\ DOMAIN req = 1..Len(req)
      /\ \A i \in DOMAIN req : req[i] = Members(1, s) /\ s \in Group
  <2>1. CASE s \in Group
    <3>1. req = <<Members(1, s)>>
      BY <1>1, <1>2, <2>1 DEF Dock
    <3> DEFINE m == Members(1, s)
    <3>2. req = <<m>>
      BY <3>1
    <3> HIDE DEF m
    <3>3. Len(req) = 1 /\ DOMAIN req = 1..1 /\ req[1] = m
      BY <3>2
    <3> QED
      BY <2>1, <3>3 DEF m
  <2>2. CASE s \notin Group
    BY <1>2, <2>2 DEF Dock
  <2> QED
    BY <2>1, <2>2
<1>5. \A i \in DOMAIN req : /\ LookOK(req[i].todo)' /\ req[i].of = AskedAs(req[i].todo)
                            /\ req[i].todo.step = "dock"
  <2>1. ASSUME s \in Group
        PROVE  /\ LookOK(Members(1, s).todo)' /\ Members(1, s).of = AskedAs(Members(1, s).todo)
               /\ Members(1, s).todo.step = "dock"
    BY <2>1 DEF Members, LookOK, Look, AskedAs
  <2> QED
    BY <1>4, <2>1
<1>6. PICK queue, line : queue = local /\ line = wire
  OBVIOUS
<1>7. PICK old : old = pending
  OBVIOUS
<1>8. Sound(old, queue, line) /\ Distinct(old, line)
  BY <1>6, <1>7 DEF PageInv
<1>9. PICK ids : Entered(ids, req, old, line)
  <2>1. Ask(req, old, line) /\ \A d \in old : d.id \in 1..asked
    BY <1>1, <1>2, <1>6, <1>7, <1>8 DEF Sound
  <2> QED
    BY <1>3, <1>4, <2>1, AskEnters DEF PageInv
<1>10. /\ pending' \subseteq Waiter
       /\ \A e \in pending' : e.id \in 1..asked' /\ LookOK(e.todo)'
       /\ wire' \in Seq(Asked) /\ \A k \in DOMAIN wire' : wire'[k].id <= asked'
       /\ Distinct(pending, wire)'
  <2>1. arrived' \in Nat /\ arrived <= arrived'
    BY <1>1, <1>3
  <2> QED
    BY <1>3, <1>4, <1>5, <1>8, <1>9, <2>1, AskKeeps DEF PageInv
<1>11. Sound(pending, local, wire)'
  <2>1. /\ local \in Seq([todo : Look, name : Subject])
        /\ \A k \in DOMAIN local : LookOK(local[k].todo) /\ local[k].todo.step # "dock"
    BY DEF PageInv, Sound
  <2> QED
    BY <1>1, <1>10, <2>1 DEF Sound, LookOK
<1> DEFINE up == [c \in Channel |-> 0]
<1>12. up \in [Channel -> {0, 1}] /\ \A c \in Channel : up[c] = 0
  OBVIOUS
<1> HIDE DEF up
<1>13. ASSUME ~clash', NEW c \in Channel, NEW k \in Nat, NEW u \in Look, Flies(c, k, u, pending', local, wire')
       PROVE  Flies(c, k + up[c], u, pending, local, wire)
  <2>1. k + up[c] = k
    BY <1>12
  <2>2. CASE c = "wire"
    <3>1. PICK e \in pending' : k \in DOMAIN wire' /\ e.id = wire'[k].id /\ e.todo = u /\ u.step # "dock"
      BY <1>13, <2>2 DEF Flies
    <3>2. \/ e \in old
          \/ \E i \in DOMAIN req : e = [id |-> ids[i], seen |-> FALSE, todo |-> req[i].todo]
      BY <1>9 DEF Entered
    <3>3. e \in old /\ e.id \in 1..asked
      <4>1. e \in old
        BY <1>5, <3>1, <3>2
      <4> QED
        BY <1>8, <4>1 DEF Sound
    <3>4. \A i \in DOMAIN req : req[i].of \in Subject \union {"members"}
      BY <1>4 DEF Members
    <3>5. line \in Seq(Asked)
      BY <1>8 DEF Sound
    <3>6. \/ k \in DOMAIN line /\ wire'[k] = line[k]
          \/ /\ k - Len(line) \in DOMAIN req
             /\ wire'[k] = [id |-> ids[k - Len(line)], of |-> req[k - Len(line)].of]
      BY <1>3, <1>4, <1>9, <3>1, <3>4, <3>5, LineIs
    <3>7. \A i \in DOMAIN req : ids[i] > asked /\ ids[i] \in Nat
      <4>1. \A i \in 1..Len(req) : ids[i] \in 1..(asked + Len(req))
        BY <1>9 DEF Entered
      <4>2. \A i \in 1..Len(req) : ids[i] \in Nat
        BY <1>3, <1>4, <4>1
      <4>3. \A i \in 1..Len(req) : ids[i] > asked
        BY <1>9, <1>13 DEF Entered
      <4> QED
        BY <1>4, <4>2, <4>3
    <3>8. k \in DOMAIN line /\ wire'[k] = line[k]
      <4> SUFFICES ASSUME k - Len(line) \in DOMAIN req,
                          wire'[k] = [id |-> ids[k - Len(line)], of |-> req[k - Len(line)].of]
                   PROVE  FALSE
        BY <3>6
      <4>1. PICK i \in DOMAIN req : i = k - Len(line)
        OBVIOUS
      <4>2. e.id = ids[i]
        BY <3>1, <4>1
      <4> QED
        BY <1>3, <3>3, <3>7, <4>2
    <3> QED
      BY <1>6, <1>7, <2>1, <2>2, <3>1, <3>3, <3>8 DEF Flies
  <2>3. CASE c = "table"
    BY <1>13, <2>1, <2>3 DEF Flies
  <2> QED
    BY <2>2, <2>3 DEF Channel
<1>14. PICK rest, out : rest = pending' /\ out = wire'
  OBVIOUS
<1>15. Orderly' => Orderly
  BY <1>1 DEF Orderly, Ask
<1>16. ASSUME Orderly' PROVE Order(pending, local, wire)' /\ Later(pending, local, wire)'
  <2>1. ~clash'
    BY <1>16 DEF Orderly
  <2>2. Order(rest, queue, out) /\ Later(rest, queue, out)
    BY <1>6, <1>12, <1>13, <1>14, <2>1, Shift DEF PageInv
  <2>3. Order(pending, local, wire)'
    BY <1>1, <1>6, <1>14, <1>15, <1>16, <2>2 DEF Order, Flies, Page
  <2>4. Later(pending, local, wire)'
    BY <1>1, <1>6, <1>14, <1>15, <1>16, <2>2 DEF Later, Flies, Page
  <2> QED
    BY <2>3, <2>4
<1>17. Order(pending, local, wire)' /\ Later(pending, local, wire)'
  BY <1>16 DEF Order, Later
<1>18. ShownInv'
  <2>1. arrived' \in Nat /\ arrived <= arrived'
    BY <1>1, <1>3
  <2> QED
    BY <1>1, <1>3, <1>15, <2>1, ShownStays DEF PageInv
<1>19. CrashInv'
  BY <1>1 DEF PageInv, CrashInv, CrashNeedsStranger
<1>20. asked' \in 0..MaxRequests /\ clash' \in BOOLEAN
  <2>1. asked' \in Nat /\ asked' <= MaxRequests /\ clash' \in BOOLEAN
    BY <1>3, <1>4, <1>9 DEF Entered
  <2> QED
    BY <2>1, RequestAssumption
<1> QED
  BY <1>1, <1>10, <1>11, <1>17, <1>18, <1>19, <1>20 DEF PageInv, RowsInv, CacheTrue

\* What waits is in order after every step.
LEMMA PageSteps == PageInv /\ [PageNext]_messageVars => PageInv'
<1> SUFFICES ASSUME PageInv, [PageNext]_messageVars PROVE PageInv'
  OBVIOUS
<1>1. CASE MessageArrives
  BY <1>1, ArrivesKeeps
<1>2. CASE AnswerComes
  BY <1>2, ServerServes DEF AnswerComes
<1>3. CASE TableComes
  BY <1>3, TableServes DEF TableComes
<1>4. CASE AnswerMissing
  BY <1>4, MissingKeeps
<1>5. CASE LookUpsDropped
  BY <1>5, DropKeeps
<1>6. ASSUME NEW s \in Subject, Chosen(s) PROVE PageInv'
  BY <1>6, ChosenKeeps
<1>7. CASE UNCHANGED <<linkVars, requestVars, cacheVars, pageVars>>
  <2>1. /\ UNCHANGED <<running, socket, pending, wire, asked, clash, rows, local>>
        /\ UNCHANGED <<arrived, cards, bubbles, crash, jumped>>
    BY <1>7 DEF linkVars, requestVars, cacheVars, pageVars
  <2> QED
    BY <2>1 DEF PageInv, RowsInv, CacheTrue, Sound, LookOK, Distinct, Order, Later, Flies, Page, Turn, Orderly,
                ShownInv, CrashInv, CrashNeedsStranger
<1>8. ASSUME NEW s, Click(s) PROVE UNCHANGED <<linkVars, requestVars, cacheVars, pageVars>>
  BY <1>8 DEF Click
<1>9. ASSUME NEW i, CloseTab(i) PROVE UNCHANGED <<linkVars, requestVars, cacheVars, pageVars>>
  BY <1>9 DEF CloseTab
<1>10. CASE UNCHANGED messageVars
  BY <1>7, <1>10 DEF messageVars
<1> QED
  BY <1>1, <1>2, <1>3, <1>4, <1>5, <1>6, <1>7, <1>8, <1>9, <1>10 DEF PageNext

\* A page shows its messages in the order they came in, each once, for any
\* number of users, groups and messages, unless of two look-ups for the page
\* that were out together one was answered by the table and the server was
\* asked for the other, or two requests drew one id.
THEOREM PagesAreInOrder == PageSpec => []InOrder
<1>1. PageInv => InOrder
  BY DEF PageInv, ShownInv, Orderly, InOrder
<1> QED
  BY <1>1, PageStarts, PageSteps, PTL DEF PageSpec

\* Only a message for a group from somebody without a card ends the process, or
\* an answer that reached the wrong callback: never a message from a friend.
THEOREM OnlyStrangersCrash == PageSpec => []CrashNeedsStranger
<1>1. PageInv => CrashNeedsStranger
  BY DEF PageInv, CrashInv
<1> QED
  BY <1>1, PageStarts, PageSteps, PTL DEF PageSpec

------------------------------------------------------------------------------
\* Message no is being looked up, and it is on its page.
Waits(no, rest, queue) ==
    \/ \E e \in rest : e.todo.step # "dock" /\ e.todo.no = no
    \/ \E k \in DOMAIN queue : queue[k].todo.no = no

OnPage(no) == \E s \in Subject : \E i \in DOMAIN bubbles[s] : bubbles[s][i] = no

\* No id is entered twice, and no message is looked up twice.
OneEach(rest, queue) ==
    /\ \A d, e \in rest : d.id = e.id => d = e
    /\ \A d, e \in rest :
          d.todo.step # "dock" /\ e.todo.step # "dock" /\ d.todo.no = e.todo.no => d = e
    /\ \A j, k \in DOMAIN queue : queue[j].todo.no = queue[k].todo.no => j = k
    /\ \A e \in rest : \A k \in DOMAIN queue :
          e.todo.step # "dock" => e.todo.no # queue[k].todo.no

\* The messages up to upto are each in one place, those in hand in none yet:
\* their look-up has come back, or has still to be made.
Held(hand, upto, rest, queue) ==
    /\ OneEach(rest, queue)
    /\ \A no \in hand : ~Waits(no, rest, queue)
    /\ \A no : no \in hand \/ Waits(no, rest, queue) =>
          no \in 1..upto /\ no \notin lost /\ ~OnPage(no)
    /\ \A no \in lost : no \in 1..upto /\ ~OnPage(no)
    /\ \A no : OnPage(no) => no \in 1..upto
    /\ \A s \in Subject : \A i, j \in DOMAIN bubbles[s] : bubbles[s][i] = bubbles[s][j] => i = j
    /\ running => \A no \in 1..upto :
                     no \in hand \/ Waits(no, rest, queue) \/ no \in lost \/ OnPage(no)

FollowInv == Held({}, arrived, pending, local)

\* The requests req are one for what is in hand, if anything, and others.
AskedFor(hand, req) ==
    /\ Len(req) \in Nat /\ DOMAIN req = 1..Len(req)
    /\ \A i \in DOMAIN req : req[i].todo.step # "dock" => req[i].todo.no \in hand
    /\ \A i, j \in DOMAIN req : req[i].todo.step # "dock" /\ req[j].todo.step # "dock" => i = j
    /\ \A no \in hand : \E i \in DOMAIN req : req[i].todo.step # "dock" /\ req[i].todo.no = no

\* What is in hand is asked of the server: it waits there, or an entry that drew
\* the same id took the place of its own, and then it is lost.
LEMMA AskHolds ==
    ASSUME NEW hand, NEW upto, NEW rest, NEW queue, NEW line, Held(hand, upto, rest, queue),
           NEW req, AskedFor(hand, req), Ask(req, rest, line),
           lost' = lost \union Gone(Forgotten(req, rest)), UNCHANGED <<running, bubbles>>,
           NEW next, next = pending'
    PROVE  Held({}, upto, next, queue)'
<1>0. /\ Len(req) \in Nat /\ DOMAIN req = 1..Len(req)
      /\ \A i \in DOMAIN req : req[i].todo.step # "dock" => req[i].todo.no \in hand
      /\ \A i, j \in DOMAIN req : req[i].todo.step # "dock" /\ req[j].todo.step # "dock" => i = j
      /\ \A no \in hand : \E i \in DOMAIN req : req[i].todo.step # "dock" /\ req[i].todo.no = no
  BY DEF AskedFor
<1>1. PICK ids \in NewIds(Len(req), rest) :
         next = {e \in rest : e.id \notin Range(ids)} \union EntriesFor(req, ids)
  BY DEF Ask
<1>2. \A i \in DOMAIN req : ids[i] \in Range(ids)
  BY <1>0 DEF NewIds, Range
<1>3. ASSUME NEW e \in next
      PROVE  \/ e \in rest /\ e.id \notin Range(ids)
             \/ e \in EntriesFor(req, ids) /\ e.id \in Range(ids)
  <2>1. ASSUME e \in EntriesFor(req, ids) PROVE e.id \in Range(ids)
    <3>1. PICK i \in DOMAIN req : e = [id |-> ids[i], seen |-> FALSE, todo |-> req[i].todo]
      BY <2>1, EntriesAre
    <3> QED
      BY <1>2, <3>1
  <2> QED
    BY <1>1, <2>1
<1>4. ASSUME NEW e \in EntriesFor(req, ids), e.todo.step # "dock"
      PROVE  e.todo.no \in hand /\ \E i \in DOMAIN req : e.todo = req[i].todo
  <2>1. PICK i \in DOMAIN req : e = [id |-> ids[i], seen |-> FALSE, todo |-> req[i].todo]
    BY EntriesAre
  <2>2. e.todo = req[i].todo
    BY <2>1
  <2> QED
    BY <1>0, <1>4, <2>2
<1>5. ASSUME NEW e \in next, e.todo.step # "dock", e \notin rest
      PROVE  e \in EntriesFor(req, ids) /\ e.todo.no \in hand /\ \E i \in DOMAIN req : e.todo = req[i].todo
  BY <1>3, <1>4, <1>5
<1>6. ASSUME NEW no \in hand
      PROVE  /\ \A e \in rest : e.todo.step # "dock" => e.todo.no # no
             /\ \A k \in DOMAIN queue : queue[k].todo.no # no
  BY DEF Held, Waits
<1>7. OneEach(rest, queue)
  BY DEF Held
<1>8. ASSUME NEW d \in next, NEW e \in next, d.id = e.id PROVE d = e
  <2>1. CASE d \in rest /\ d.id \notin Range(ids)
    <3>1. e \in rest
      BY <1>3, <1>8, <2>1
    <3> QED
      BY <1>7, <1>8, <2>1, <3>1 DEF OneEach
  <2>2. CASE d \in EntriesFor(req, ids) /\ d.id \in Range(ids)
    <3>1. e \in EntriesFor(req, ids)
      BY <1>3, <1>8, <2>2
    <3>2. DOMAIN req \in SUBSET Nat
      BY <1>0
    <3> QED
      BY <1>8, <2>2, <3>1, <3>2, EntriesApart
  <2> QED
    BY <1>3, <2>1, <2>2
<1>9. ASSUME NEW d \in next, NEW e \in next, d.todo.step # "dock", e.todo.step # "dock", d.todo.no = e.todo.no
      PROVE  d = e
  <2>1. CASE d \in rest /\ e \in rest
    BY <1>7, <1>9, <2>1 DEF OneEach
  <2>2. CASE d \in rest /\ e \notin rest
    BY <1>5, <1>6, <1>9, <2>2
  <2>3. CASE d \notin rest /\ e \in rest
    BY <1>5, <1>6, <1>9, <2>3
  <2>4. CASE d \notin rest /\ e \notin rest
    <3>1. d \in EntriesFor(req, ids) /\ e \in EntriesFor(req, ids)
      BY <1>5, <1>9, <2>4
    <3>2. PICK i \in DOMAIN req : d = [id |-> ids[i], seen |-> FALSE, todo |-> req[i].todo]
      BY <3>1, EntriesAre
    <3>3. PICK j \in DOMAIN req : e = [id |-> ids[j], seen |-> FALSE, todo |-> req[j].todo]
      BY <3>1, EntriesAre
    <3>4. d.todo = req[i].todo /\ e.todo = req[j].todo
      BY <3>2, <3>3
    <3>5. i = j
      BY <1>0, <1>9, <3>4
    <3> QED
      BY <3>2, <3>3, <3>5
  <2> QED
    BY <2>1, <2>2, <2>3, <2>4
<1>10. ASSUME NEW e \in next, NEW k \in DOMAIN queue, e.todo.step # "dock"
       PROVE  e.todo.no # queue[k].todo.no
  <2>1. CASE e \in rest
    BY <1>7, <1>10, <2>1 DEF OneEach
  <2>2. CASE e \notin rest
    BY <1>5, <1>6, <1>10, <2>2
  <2> QED
    BY <2>1, <2>2
<1>11. OneEach(next, queue)
  BY <1>7, <1>8, <1>9, <1>10 DEF OneEach
<1>12. ASSUME NEW no, Waits(no, next, queue) PROVE no \in hand \/ Waits(no, rest, queue)
  BY <1>5, <1>12 DEF Waits
<1> DEFINE todos == {e.todo : e \in rest} \union {q.todo : q \in Range(req)}
           gone == Gone(Forgotten(req, rest))
<1>13. ASSUME NEW no \in gone
       PROVE  \E t \in todos : t.step # "dock" /\ t.no = no /\ \A e \in next : e.todo # t
  BY DEF Gone, Forgotten
<1>14. ASSUME NEW t \in todos, t.step # "dock", \A e \in next : e.todo # t PROVE t.no \in gone
  BY <1>14 DEF Gone, Forgotten
<1>15. lost' = lost \union gone
  OBVIOUS
<1> HIDE DEF gone
<1>16. ASSUME NEW no \in gone PROVE no \in hand \/ Waits(no, rest, queue)
  <2>1. PICK t \in todos : t.step # "dock" /\ t.no = no
    BY <1>13
  <2>2. CASE \E q \in Range(req) : t = q.todo
    BY <1>0, <2>1, <2>2 DEF Range
  <2> QED
    BY <2>1, <2>2 DEF Waits
<1>17. ASSUME NEW no, Waits(no, next, queue) PROVE no \notin gone
  <2> SUFFICES ASSUME no \in gone PROVE FALSE
    OBVIOUS
  <2>1. PICK t \in todos : t.step # "dock" /\ t.no = no /\ \A e \in next : e.todo # t
    BY <1>13
  <2>2. CASE \E e \in rest : t = e.todo
    <3>1. PICK d \in rest : t = d.todo
      BY <2>2
    <3>2. \A k \in DOMAIN queue : queue[k].todo.no # no
      BY <1>7, <2>1, <3>1 DEF OneEach
    <3>3. PICK e \in next : e.todo.step # "dock" /\ e.todo.no = no
      BY <1>17, <3>2 DEF Waits
    <3>4. e \in rest
      BY <1>5, <1>6, <2>1, <3>1, <3>3
    <3>5. d = e
      BY <1>7, <2>1, <3>1, <3>3, <3>4 DEF OneEach
    <3> QED
      BY <2>1, <3>1, <3>3, <3>5
  <2>3. CASE \E q \in Range(req) : t = q.todo
    <3>1. PICK i \in DOMAIN req : t = req[i].todo
      BY <2>3 DEF Range
    <3>2. no \in hand
      BY <1>0, <2>1, <3>1
    <3>3. PICK e \in next : e.todo.step # "dock" /\ e.todo.no = no
      BY <1>6, <1>17, <3>2 DEF Waits
    <3>4. e \notin rest
      BY <1>6, <3>2, <3>3
    <3>5. PICK j \in DOMAIN req : e.todo = req[j].todo
      BY <1>5, <3>3, <3>4
    <3>6. i = j
      BY <1>0, <2>1, <3>1, <3>3, <3>5
    <3> QED
      BY <2>1, <3>1, <3>3, <3>5, <3>6
  <2> QED
    BY <2>2, <2>3
<1>18. ASSUME NEW no, no \in hand \/ Waits(no, rest, queue)
       PROVE  Waits(no, next, queue) \/ no \in gone
  <2>1. CASE \E t \in todos : t.step # "dock" /\ t.no = no
    <3>1. PICK t \in todos : t.step # "dock" /\ t.no = no
      BY <2>1
    <3> QED
      BY <1>14, <3>1 DEF Waits
  <2>2. CASE \E k \in DOMAIN queue : queue[k].todo.no = no
    BY <2>2 DEF Waits
  <2>3. CASE no \in hand
    <3>1. PICK i \in DOMAIN req : req[i].todo.step # "dock" /\ req[i].todo.no = no
      BY <1>0, <2>3
    <3>2. req[i].todo \in todos
      BY DEF Range
    <3> QED
      BY <2>1, <3>1, <3>2
  <2>4. CASE \E e \in rest : e.todo.step # "dock" /\ e.todo.no = no
    BY <2>1, <2>4
  <2> QED
    BY <1>18, <2>2, <2>3, <2>4 DEF Waits
<1> HIDE DEF todos
<1>19. \A no : OnPage(no)' <=> OnPage(no)
  BY DEF OnPage
<1>20. \A no : Waits(no, next, queue) => no \in 1..upto /\ no \notin lost' /\ ~OnPage(no)
  BY <1>12, <1>15, <1>17 DEF Held
<1>21. \A no \in lost' : no \in 1..upto /\ ~OnPage(no)
  BY <1>15, <1>16 DEF Held
<1>22. running => \A no \in 1..upto : Waits(no, next, queue) \/ no \in lost' \/ OnPage(no)
  BY <1>15, <1>18 DEF Held
<1>23. /\ \A no : OnPage(no) => no \in 1..upto
       /\ \A s \in Subject : \A i, j \in DOMAIN bubbles[s] : bubbles[s][i] = bubbles[s][j] => i = j
  BY DEF Held
<1> QED
  BY <1>11, <1>19, <1>20, <1>21, <1>22, <1>23 DEF Held, Waits, OneEach

\* What is held in the state reached is what the invariant says of it.
LEMMA HeldThen ==
    ASSUME NEW upto, NEW next, NEW queue, upto = arrived', next = pending', queue = local',
           Held({}, upto, next, queue)'
    PROVE  FollowInv'
  BY DEF FollowInv, Held, OneEach, Waits, OnPage

\* A look-up in hand is made: the table has it, or the server is asked.
LEMMA LooksHold ==
    ASSUME RowsInv, NEW rest, NEW queue, NEW line, Sound(rest, queue, line),
           NEW upto, upto = arrived',
           NEW t \in Look, LookOK(t)', t.step # "dock", Held({t.no}, upto, rest, queue),
           NEW new, Batch(new, t), Looks(new, rest, queue, line), UNCHANGED <<running, bubbles>>
    PROVE  FollowInv'
<1>1. PICK next, then : next = pending' /\ then = local'
  OBVIOUS
<1>2. PICK req : req = FromServer(new)
  OBVIOUS
<1>3. /\ Len(req) \in Nat /\ DOMAIN req = 1..Len(req)
      /\ \A i \in DOMAIN req : req[i].todo.step # "dock" => ~Hit(t.of) /\ i = Len(new) /\ req[i].todo = t
      /\ ~Hit(t.of) => Len(req) \in DOMAIN req /\ req[Len(req)].todo = t
  BY <1>2, ServerIs
<1>4. Ask(req, rest, line) /\ lost' = lost \union Gone(Forgotten(req, rest))
  BY <1>2 DEF Looks, LookUp
<1>5. then = queue \o FromTable(new)
  BY <1>1 DEF Looks, LookUp, InTurn
<1> DEFINE Answer == [todo : Look, name : Subject]
<1>6. queue \in Seq(Answer)
  BY DEF Sound
<1>7. CASE Hit(t.of)
  <2> DEFINE x == [todo |-> t, name |-> rows[t.of]]
  <2>1. FromTable(new) = <<x>>
    BY <1>7, SplitIs
  <2>2. x \in Answer /\ x.todo = t
    BY <1>7 DEF Hit, RowsInv
  <2> HIDE DEF x, Answer
  <2>3. then = Append(queue, x)
    <3>1. then = queue \o <<x>>
      BY <1>5, <2>1
    <3>2. Append(queue, x) = queue \o <<x>>
      BY <1>6, <2>2, AppendIsConcat
    <3> QED
      BY <3>1, <3>2
  <2>4. PICK n \in Nat : /\ DOMAIN queue = 1..n /\ DOMAIN then = 1..(n + 1)
                         /\ \A i \in 1..n : then[i] = queue[i]
                         /\ then[n + 1] = x
    <3>1. /\ then \in Seq(Answer) /\ Len(then) = Len(queue) + 1
          /\ \A i \in 1..Len(queue) : then[i] = queue[i]
          /\ then[Len(queue) + 1] = x
      BY <1>6, <2>2, <2>3, AppendProperties
    <3>2. DOMAIN then = 1..Len(then)
      BY <3>1, LenProperties
    <3>3. Len(queue) \in Nat /\ DOMAIN queue = 1..Len(queue)
      BY <1>6, LenProperties
    <3> QED
      BY <3>1, <3>2, <3>3
  <2>5. /\ \A k \in DOMAIN then : \/ k \in DOMAIN queue /\ then[k] = queue[k]
                                  \/ k = n + 1 /\ then[k].todo = t
        /\ \A k \in DOMAIN queue : k \in DOMAIN then /\ then[k] = queue[k]
        /\ n + 1 \in DOMAIN then /\ then[n + 1].todo = t
    BY <2>2, <2>4
  <2>6. \A no : Waits(no, rest, then) <=> no = t.no \/ Waits(no, rest, queue)
    BY <2>5 DEF Waits
  <2>7. ~Waits(t.no, rest, queue) /\ OneEach(rest, queue)
    BY DEF Held
  <2>8. /\ \A e \in rest : e.todo.step # "dock" => e.todo.no # t.no
        /\ \A k \in DOMAIN queue : queue[k].todo.no # t.no
    BY <2>7 DEF Waits
  <2>9. OneEach(rest, then)
    <3>1. \A j, k \in DOMAIN then : then[j].todo.no = then[k].todo.no => j = k
      BY <2>5, <2>7, <2>8 DEF OneEach
    <3>2. \A e \in rest : \A k \in DOMAIN then : e.todo.step # "dock" => e.todo.no # then[k].todo.no
      BY <2>5, <2>7, <2>8 DEF OneEach
    <3> QED
      BY <2>7, <3>1, <3>2 DEF OneEach
  <2>10. Held({}, upto, rest, then)
    BY <2>6, <2>9 DEF Held
  <2>11. AskedFor({}, req)
    BY <1>3, <1>7 DEF AskedFor
  <2>12. Held({}, upto, next, then)'
    BY <1>1, <1>4, <2>10, <2>11, AskHolds
  <2> QED
    BY <1>1, <2>12, HeldThen
<1>8. CASE ~Hit(t.of)
  <2>1. FromTable(new) = <<>>
    BY <1>8, SplitIs
  <2> HIDE DEF Answer
  <2>2. then = queue
    BY <1>5, <1>6, <2>1, ConcatEmptySeq
  <2>3. AskedFor({t.no}, req)
    BY <1>3, <1>8 DEF AskedFor
  <2>4. Held({}, upto, next, queue)'
    BY <1>1, <1>4, <2>3, AskHolds
  <2> QED
    BY <1>1, <2>2, <2>4, HeldThen
<1> QED
  BY <1>7, <1>8

\* Nothing is looked up, and what is in hand comes on its page.
LEMMA InsertHolds ==
    ASSUME NEW rest, NEW queue, NEW line, NEW no, NEW s \in Subject, Insert(s, no),
           Held({no}, arrived, rest, queue), Rests(rest, queue, line),
           UNCHANGED <<running, arrived>>, PageInv, NEW now, now = bubbles'
    PROVE  FollowInv'
<1>1. PICK n \in Nat : /\ DOMAIN bubbles[s] = 1..n /\ DOMAIN now[s] = 1..(n + 1)
                       /\ \A i \in 1..n : now[s][i] = bubbles[s][i]
                       /\ now[s][n + 1] = no
                       /\ \A p \in Subject : p # s => now[p] = bubbles[p]
  <2>1. bubbles[s] \in Seq(Nat)
    BY DEF PageInv, ShownInv
  <2>2. now[s] = Append(bubbles[s], no) /\ \A p \in Subject : p # s => now[p] = bubbles[p]
    BY DEF PageInv, ShownInv, Insert
  <2>3. PICK was : was = bubbles[s]
    OBVIOUS
  <2>4. PICK new : new = now[s]
    OBVIOUS
  <2>5. /\ new \in Seq(Nat) /\ Len(new) = Len(was) + 1
        /\ \A i \in 1..Len(was) : new[i] = was[i]
        /\ new[Len(was) + 1] = no
    <3>1. no \in Nat
      BY DEF Held
    <3> QED
      BY <2>1, <2>2, <2>3, <2>4, <3>1, AppendProperties
  <2>6. DOMAIN new = 1..Len(new)
    BY <2>5, LenProperties
  <2>7. Len(was) \in Nat /\ DOMAIN was = 1..Len(was)
    BY <2>1, <2>3, LenProperties
  <2> QED
    BY <2>2, <2>3, <2>4, <2>5, <2>6, <2>7
<1>2. \A i \in DOMAIN bubbles[s] : bubbles[s][i] # no
  BY DEF Held, OnPage
<1>3. \A i \in DOMAIN now[s] : \/ i \in DOMAIN bubbles[s] /\ now[s][i] = bubbles[s][i]
                               \/ i = n + 1 /\ now[s][i] = no
  BY <1>1
<1>4. \A i \in DOMAIN bubbles[s] : i \in DOMAIN now[s] /\ now[s][i] = bubbles[s][i]
  BY <1>1
<1>5. ASSUME NEW p \in Subject, NEW i \in DOMAIN now[p], NEW j \in DOMAIN now[p], now[p][i] = now[p][j]
      PROVE  i = j
  <2>1. \A k, l \in DOMAIN bubbles[p] : bubbles[p][k] = bubbles[p][l] => k = l
    BY DEF Held
  <2>2. CASE p # s
    BY <1>1, <1>5, <2>1, <2>2
  <2>3. CASE p = s
    <3>1. \/ i \in DOMAIN bubbles[s] /\ now[s][i] = bubbles[s][i] /\ now[s][i] # no
          \/ i = n + 1 /\ now[s][i] = no
      BY <1>2, <1>3, <1>5, <2>3
    <3>2. \/ j \in DOMAIN bubbles[s] /\ now[s][j] = bubbles[s][j] /\ now[s][j] # no
          \/ j = n + 1 /\ now[s][j] = no
      BY <1>2, <1>3, <1>5, <2>3
    <3> QED
      BY <1>5, <2>1, <2>3, <3>1, <3>2
  <2> QED
    BY <2>2, <2>3
<1>6. \A m : OnPage(m)' <=> m = no \/ OnPage(m)
  <2>1. ASSUME NEW m, NEW p \in Subject, NEW i \in DOMAIN now[p], now[p][i] = m
        PROVE  m = no \/ OnPage(m)
    BY <1>1, <1>3, <2>1 DEF OnPage
  <2>2. ASSUME NEW m, NEW p \in Subject, NEW i \in DOMAIN bubbles[p], bubbles[p][i] = m
        PROVE  \E k \in DOMAIN now[p] : now[p][k] = m
    BY <1>1, <1>4, <2>2
  <2>3. \E i \in DOMAIN now[s] : now[s][i] = no
    <3>1. n + 1 \in DOMAIN now[s] /\ now[s][n + 1] = no
      BY <1>1
    <3> QED
      BY <3>1
  <2>4. \A m : OnPage(m)' <=> \E p \in Subject : \E i \in DOMAIN now[p] : now[p][i] = m
    BY DEF OnPage
  <2>5. \A m : OnPage(m)' => m = no \/ OnPage(m)
    BY <2>1, <2>4
  <2>6. \A m : OnPage(m) => OnPage(m)'
    <3> SUFFICES ASSUME NEW m, OnPage(m) PROVE OnPage(m)'
      OBVIOUS
    <3>1. PICK p \in Subject : \E i \in DOMAIN bubbles[p] : bubbles[p][i] = m
      BY DEF OnPage
    <3>2. \E k \in DOMAIN now[p] : now[p][k] = m
      BY <2>2, <3>1
    <3> QED
      BY <2>4, <3>2
  <2> QED
    BY <2>3, <2>4, <2>5, <2>6
<1>7. PICK next, then, upto : next = pending' /\ then = local' /\ upto = arrived'
  OBVIOUS
<1>8. next = rest /\ then = queue /\ upto = arrived /\ lost' = lost
  BY <1>7 DEF Rests
<1>9. ~Waits(no, rest, queue) /\ OneEach(rest, queue)
  BY DEF Held
<1>10. Held({}, arrived, rest, queue)'
  <2>1. \A m : Waits(m, rest, queue) => m \in 1..upto /\ m \notin lost /\ ~OnPage(m)'
    BY <1>6, <1>8, <1>9 DEF Held
  <2>2. \A m \in lost : m \in 1..upto /\ ~OnPage(m)'
    BY <1>6, <1>8 DEF Held
  <2>3. \A m : OnPage(m)' => m \in 1..upto
    BY <1>6, <1>8 DEF Held
  <2>4. running => \A m \in 1..upto : Waits(m, rest, queue) \/ m \in lost \/ OnPage(m)'
    BY <1>6, <1>8 DEF Held
  <2>5. \A p \in Subject : \A i, j \in DOMAIN bubbles'[p] : bubbles'[p][i] = bubbles'[p][j] => i = j
    BY <1>5
  <2> QED
    BY <1>7, <1>8, <1>9, <2>1, <2>2, <2>3, <2>4, <2>5 DEF Held, Waits, OneEach
<1> QED
  BY <1>7, <1>8, <1>10, HeldThen

\* Nothing is looked up, and nothing is in hand, or the process ends.
LEMMA RestsHold ==
    ASSUME NEW hand, NEW rest, NEW queue, NEW line, Held(hand, arrived, rest, queue),
           Rests(rest, queue, line), UNCHANGED <<arrived, bubbles>>,
           (hand = {} /\ running' = running) \/ ~running'
    PROVE  FollowInv'
<1>1. PICK next, then, upto : next = pending' /\ then = local' /\ upto = arrived'
  OBVIOUS
<1>2. next = rest /\ then = queue /\ upto = arrived /\ lost' = lost /\ bubbles' = bubbles
  BY <1>1 DEF Rests
<1>3. \A no : OnPage(no)' <=> OnPage(no)
  BY <1>2 DEF OnPage
<1>4. Held({}, arrived, rest, queue)'
  <2>1. /\ \A no : Waits(no, rest, queue) => no \in 1..upto /\ no \notin lost /\ ~OnPage(no)
        /\ \A no \in lost : no \in 1..upto /\ ~OnPage(no)
        /\ \A no : OnPage(no) => no \in 1..upto
    BY <1>2 DEF Held
  <2>2. running' => \A no \in 1..upto : Waits(no, rest, queue) \/ no \in lost \/ OnPage(no)
    BY <1>2 DEF Held
  <2>3. /\ OneEach(rest, queue)
        /\ \A p \in Subject : \A i, j \in DOMAIN bubbles[p] : bubbles[p][i] = bubbles[p][j] => i = j
    BY DEF Held
  <2> QED
    BY <1>1, <1>2, <1>3, <2>1, <2>2, <2>3 DEF Held, Waits, OneEach
<1> QED
  BY <1>1, <1>2, <1>4, HeldThen

\* What a callback has in hand.
InHand(todo) == IF todo.step = "dock" THEN {} ELSE {todo.no}

\* The table's first answer is taken.
LEMMA TableHolds ==
    ASSUME PageInv, FollowInv, NEW q, local # <<>>, q = Head(local)
    PROVE  Held(InHand(q.todo), arrived, pending, Tail(local))
<1> DEFINE Answer == [todo : Look, name : Subject]
<1>1. local \in Seq(Answer)
  BY DEF PageInv, Sound
<1> HIDE DEF Answer
<1>2. PICK queue : queue = Tail(local)
  OBVIOUS
<1>3. PICK n \in Nat : /\ n # 0 /\ DOMAIN local = 1..n /\ DOMAIN queue = 1..(n - 1) /\ q = local[1]
                       /\ \A k \in DOMAIN queue : queue[k] = local[k + 1]
  <2>1. PICK n \in Nat : n = Len(local) /\ n # 0 /\ DOMAIN local = 1..n
    BY <1>1, EmptySeq, LenProperties
  <2>2. queue \in Seq(Answer) /\ Len(queue) = n - 1 /\ q = local[1]
    BY <1>1, <1>2, <2>1, HeadTailProperties
  <2>3. DOMAIN queue = 1..(n - 1)
    <3>1. DOMAIN queue = 1..Len(queue)
      BY <2>2, LenProperties
    <3> QED
      BY <2>2, <3>1
  <2>4. \A k \in DOMAIN queue : queue[k] = local[k + 1]
    BY <1>1, <1>2, TailIs
  <2> QED
    BY <2>1, <2>2, <2>3, <2>4
<1>4. PICK t : t = q.todo
  OBVIOUS
<1>5. t.step # "dock" /\ InHand(t) = {t.no}
  BY <1>4, TableGives DEF InHand
<1>6. /\ \A k \in DOMAIN local : \/ k = 1 /\ local[k].todo = t
                                 \/ k - 1 \in DOMAIN queue /\ local[k] = queue[k - 1]
      /\ \A k \in DOMAIN queue : k + 1 \in DOMAIN local /\ k + 1 # 1 /\ queue[k] = local[k + 1]
      /\ 1 \in DOMAIN local /\ local[1].todo = t
  <2>1. 1 \in DOMAIN local /\ local[1].todo = t
    BY <1>3, <1>4
  <2>2. ASSUME NEW k \in DOMAIN queue PROVE k + 1 \in DOMAIN local /\ k + 1 # 1 /\ queue[k] = local[k + 1]
    BY <1>3, <2>2
  <2>3. ASSUME NEW k \in DOMAIN local, k # 1 PROVE k - 1 \in DOMAIN queue /\ local[k] = queue[k - 1]
    <3>1. k - 1 \in DOMAIN queue /\ (k - 1) + 1 = k
      BY <1>3, <2>3
    <3> QED
      BY <1>3, <3>1
  <2> QED
    BY <2>1, <2>2, <2>3
<1>7. OneEach(pending, local)
  BY DEF FollowInv, Held
<1>8. \A no : Waits(no, pending, local) <=> no = t.no \/ Waits(no, pending, queue)
  BY <1>6 DEF Waits
<1>9. ~Waits(t.no, pending, queue)
  BY <1>4, <1>3, <1>6, <1>7 DEF OneEach, Waits
<1>10. OneEach(pending, queue)
  <2>1. \A j, k \in DOMAIN queue : queue[j].todo.no = queue[k].todo.no => j = k
    <3>1. \A j, k \in DOMAIN queue : queue[j].todo.no = queue[k].todo.no => j + 1 = k + 1
      BY <1>6, <1>7 DEF OneEach
    <3>2. \A k \in DOMAIN queue : k \in Int
      BY <1>3
    <3> QED
      BY <3>1, <3>2
  <2>2. \A e \in pending : \A k \in DOMAIN queue : e.todo.step # "dock" => e.todo.no # queue[k].todo.no
    BY <1>6, <1>7 DEF OneEach
  <2> QED
    BY <1>7, <2>1, <2>2 DEF OneEach
<1>11. Held({t.no}, arrived, pending, queue)
  <2>1. /\ \A no : Waits(no, pending, local) => no \in 1..arrived /\ no \notin lost /\ ~OnPage(no)
        /\ running => \A no \in 1..arrived : Waits(no, pending, local) \/ no \in lost \/ OnPage(no)
        /\ \A no \in lost : no \in 1..arrived /\ ~OnPage(no)
        /\ \A no : OnPage(no) => no \in 1..arrived
        /\ \A s \in Subject : \A i, j \in DOMAIN bubbles[s] : bubbles[s][i] = bubbles[s][j] => i = j
    BY DEF FollowInv, Held
  <2> QED
    BY <1>8, <1>9, <1>10, <2>1 DEF Held
<1> QED
  BY <1>2, <1>4, <1>5, <1>11

\* An entry is taken out with its answer.
LEMMA AnswerHolds ==
    ASSUME FollowInv, NEW r, NEW e \in EntryOf(r)
    PROVE  Held(InHand(e.todo), arrived, Left(r), local)
<1>1. PICK rest, t, hand : rest = Left(r) /\ t = e.todo /\ hand = InHand(t)
  OBVIOUS
<1>2. OneEach(pending, local)
  BY DEF FollowInv, Held
<1>3. e \in pending /\ \A d : d \in rest <=> d \in pending /\ d # e
  <2>1. e \in pending /\ e.id = r.id
    BY DEF EntryOf
  <2>2. \A d \in pending : d.id = r.id => d = e
    BY <1>2, <2>1 DEF OneEach
  <2> QED
    BY <1>1, <2>1, <2>2 DEF Left, EntryOf
<1>4. \A no : no \in hand <=> t.step # "dock" /\ t.no = no
  BY <1>1 DEF InHand
<1>5. \A no : Waits(no, pending, local) <=> no \in hand \/ Waits(no, rest, local)
  BY <1>1, <1>3, <1>4 DEF Waits
<1>6. \A no \in hand : ~Waits(no, rest, local)
  BY <1>1, <1>2, <1>3, <1>4 DEF Waits, OneEach
<1>7. OneEach(rest, local)
  BY <1>2, <1>3 DEF OneEach
<1>8. Held(hand, arrived, rest, local)
  <2>1. /\ \A no : Waits(no, pending, local) => no \in 1..arrived /\ no \notin lost /\ ~OnPage(no)
        /\ running => \A no \in 1..arrived : Waits(no, pending, local) \/ no \in lost \/ OnPage(no)
        /\ \A no \in lost : no \in 1..arrived /\ ~OnPage(no)
        /\ \A no : OnPage(no) => no \in 1..arrived
        /\ \A s \in Subject : \A i, j \in DOMAIN bubbles[s] : bubbles[s][i] = bubbles[s][j] => i = j
    BY DEF FollowInv, Held
  <2> QED
    BY <1>5, <1>6, <1>7, <2>1 DEF Held
<1> QED
  BY <1>1, <1>8

\* Entries that are dropped are of messages that are lost.
LEMMA DropHolds ==
    ASSUME PageInv, FollowInv, LookUpsDropped
    PROVE  FollowInv'
<1>1. PICK gone \in SUBSET Found :
         /\ pending' = {[e EXCEPT !.seen = TRUE] : e \in pending \ gone}
         /\ lost' = lost \union Gone({e.todo : e \in gone})
         /\ UNCHANGED <<running, local, arrived, bubbles>>
  BY DEF LookUpsDropped, TimesOut, linkVars, cacheVars
<1>2. PICK next, upto, now : next = pending' /\ upto = arrived' /\ now = local'
  OBVIOUS
<1>3. ASSUME NEW x \in next
      PROVE  \E d \in pending : d \notin gone /\ x = [d EXCEPT !.seen = TRUE] /\ x.id = d.id /\ x.todo = d.todo
  <2>1. PICK d \in pending : d \notin gone /\ x = [d EXCEPT !.seen = TRUE]
    BY <1>1, <1>2
  <2>2. d \in Waiter
    BY DEF PageInv, Sound
  <2> QED
    BY <2>1, <2>2 DEF Waiter
<1>4. ASSUME NEW d \in pending, d \notin gone
      PROVE  \E x \in next : x.todo = d.todo
  <2>1. [d EXCEPT !.seen = TRUE] \in next
    BY <1>1, <1>2, <1>4
  <2>2. d \in Waiter
    BY DEF PageInv, Sound
  <2>3. [d EXCEPT !.seen = TRUE].todo = d.todo
    BY <2>2 DEF Waiter
  <2> QED
    BY <2>1, <2>3
<1>5. OneEach(pending, local) /\ gone \in SUBSET pending
  BY DEF FollowInv, Held, Found
<1>6. OneEach(next, local)
  <2>1. ASSUME NEW x \in next, NEW y \in next,
               \/ x.id = y.id
               \/ x.todo.step # "dock" /\ y.todo.step # "dock" /\ x.todo.no = y.todo.no
        PROVE  x = y
    <3>1. PICK d \in pending : x = [d EXCEPT !.seen = TRUE] /\ x.id = d.id /\ x.todo = d.todo
      BY <1>3
    <3>2. PICK e \in pending : y = [e EXCEPT !.seen = TRUE] /\ y.id = e.id /\ y.todo = e.todo
      BY <1>3
    <3>3. d = e
      BY <1>5, <2>1, <3>1, <3>2 DEF OneEach
    <3> QED
      BY <3>1, <3>2, <3>3
  <2>2. ASSUME NEW x \in next, NEW k \in DOMAIN local, x.todo.step # "dock"
        PROVE  x.todo.no # local[k].todo.no
    <3>1. PICK d \in pending : x.todo = d.todo
      BY <1>3
    <3> QED
      BY <1>5, <2>2, <3>1 DEF OneEach
  <2> QED
    BY <1>5, <2>1, <2>2 DEF OneEach
<1>7. \A no : no \in lost' <=> no \in lost \/ \E e \in gone : e.todo.step # "dock" /\ e.todo.no = no
  BY <1>1 DEF Gone
<1>8. ASSUME NEW no, Waits(no, next, local)
      PROVE  Waits(no, pending, local) /\ \A e \in gone : e.todo.step = "dock" \/ e.todo.no # no
  <2>1. CASE \E k \in DOMAIN local : local[k].todo.no = no
    <3>1. Waits(no, pending, local)
      BY <2>1 DEF Waits
    <3> QED
      BY <1>5, <2>1, <3>1 DEF OneEach
  <2>2. CASE \E x \in next : x.todo.step # "dock" /\ x.todo.no = no
    <3>1. PICK x \in next : x.todo.step # "dock" /\ x.todo.no = no
      BY <2>2
    <3>2. PICK d \in pending : d \notin gone /\ x.todo = d.todo
      BY <1>3
    <3>3. Waits(no, pending, local)
      BY <3>1, <3>2 DEF Waits
    <3> QED
      BY <1>5, <3>1, <3>2, <3>3 DEF OneEach
  <2> QED
    BY <1>8, <2>1, <2>2 DEF Waits
<1>9. ASSUME NEW no, Waits(no, pending, local)
      PROVE  Waits(no, next, local) \/ no \in lost'
  BY <1>4, <1>7, <1>9 DEF Waits
<1>10. \A e \in gone : e.todo.step # "dock" => Waits(e.todo.no, pending, local)
  BY <1>5 DEF Waits
<1>11. \A no : OnPage(no)' <=> OnPage(no)
  BY <1>1 DEF OnPage
<1>12. /\ \A no : Waits(no, pending, local) => no \in 1..arrived /\ no \notin lost /\ ~OnPage(no)
       /\ running => \A no \in 1..arrived : Waits(no, pending, local) \/ no \in lost \/ OnPage(no)
       /\ \A no \in lost : no \in 1..arrived /\ ~OnPage(no)
       /\ \A no : OnPage(no) => no \in 1..arrived
       /\ \A s \in Subject : \A i, j \in DOMAIN bubbles[s] : bubbles[s][i] = bubbles[s][j] => i = j
  BY DEF FollowInv, Held
<1>13. upto = arrived /\ now = local
  BY <1>1, <1>2
<1>14. Held({}, upto, next, now)'
  <2>1. \A no : Waits(no, next, local) => no \in 1..arrived /\ no \notin lost' /\ ~OnPage(no)
    BY <1>7, <1>8, <1>12
  <2>2. \A no \in lost' : no \in 1..arrived /\ ~OnPage(no)
    BY <1>7, <1>10, <1>12
  <2>3. running => \A no \in 1..arrived : Waits(no, next, local) \/ no \in lost' \/ OnPage(no)
    BY <1>7, <1>9, <1>12
  <2> QED
    BY <1>1, <1>6, <1>11, <1>12, <1>13, <2>1, <2>2, <2>3 DEF Held, Waits, OneEach
<1> QED
  BY <1>2, <1>14, HeldThen

\* A callback puts the message it has in hand where it belongs.
LEMMA ReadyHolds ==
    ASSUME PageInv, arrived' = arrived, NEW id, NEW todo, NEW rest, NEW queue, NEW line,
           LookOK(todo), Sound(rest, queue, line), Held(InHand(todo), arrived, rest, queue),
           Ready(todo, id, rest, queue, line)
    PROVE  FollowInv'
<1>1. PICK no, m, now : no = todo.no /\ m = Traffic[no] /\ now = bubbles'
  OBVIOUS
<1>2. todo \in Look /\ todo.step \in {"card", "bubble", "dock"}
  BY DEF LookOK, Look
<1>3. todo.step # "dock" => /\ InHand(todo) = {no} /\ no \in 1..arrived /\ no \in Nat
                            /\ m.from \in User /\ m.to \in Subject /\ m.from \in Subject
  <2> SUFFICES ASSUME todo.step # "dock"
               PROVE  /\ InHand(todo) = {no} /\ no \in 1..arrived /\ no \in Nat
                      /\ m.from \in User /\ m.to \in Subject /\ m.from \in Subject
    OBVIOUS
  <2>1. no \in 1..arrived
    BY <1>1 DEF LookOK
  <2>2. no \in 1..Len(Traffic) /\ no \in Nat
    BY <2>1, TrafficIs DEF PageInv
  <2> QED
    BY <1>1, <2>1, <2>2, TrafficIs DEF InHand
<1>4. CASE todo.step = "dock"
  <2>1. Rests(rest, queue, line) /\ UNCHANGED <<running, bubbles>>
    BY <1>4 DEF Ready, NoteReady, linkVars
  <2>2. Held({}, arrived, rest, queue)
    BY <1>4 DEF InHand
  <2> QED
    BY <2>1, <2>2, RestsHold
<1>5. CASE todo.step = "bubble"
  <2>1. Rests(rest, queue, line) /\ UNCHANGED running /\ Insert(m.to, no)
    BY <1>1, <1>5 DEF Ready, NoteReady, linkVars
  <2>2. Held({no}, arrived, rest, queue)
    BY <1>3, <1>5
  <2> QED
    BY <1>1, <1>3, <1>5, <2>1, <2>2, InsertHolds
<1>6. CASE todo.step = "card"
  <2> DEFINE known == {m.from, m.to} \subseteq CardFirst(id)
  <2>1. \/ ~known /\ Crashes(no) /\ Rests(rest, queue, line)
        \/ known /\ m.to \in User /\ Insert(m.to, no) /\ Rests(rest, queue, line) /\ UNCHANGED <<linkVars, crash>>
        \/ /\ known /\ m.to \in Group
           /\ Looks(Dock(no, id) \o <<Of("bubble", no, m.from)>>, rest, queue, line)
           /\ UNCHANGED <<linkVars, bubbles, crash>>
    BY <1>1, <1>6 DEF Ready, CardReady
  <2>2. Held({no}, arrived, rest, queue)
    BY <1>3, <1>6
  <2>3. CASE Crashes(no) /\ Rests(rest, queue, line)
    <3>1. ~running' /\ UNCHANGED bubbles
      BY <2>3 DEF Crashes
    <3> QED
      BY <2>2, <2>3, <3>1, RestsHold
  <2>4. CASE Insert(m.to, no) /\ Rests(rest, queue, line) /\ UNCHANGED linkVars
    <3>1. UNCHANGED running
      BY <2>4 DEF linkVars
    <3> QED
      BY <1>1, <1>3, <1>6, <2>2, <2>4, <3>1, InsertHolds
  <2>5. CASE /\ m.to \in Group
             /\ Looks(Dock(no, id) \o <<Of("bubble", no, m.from)>>, rest, queue, line)
             /\ UNCHANGED <<linkVars, bubbles>>
    <3>1. PICK t : t = [no |-> no, step |-> "bubble", of |-> m.from]
      OBVIOUS
    <3>2. t \in Look /\ LookOK(t)' /\ t.step # "dock" /\ t.no = no
      <4>1. t \in Look /\ t.step = "bubble" /\ t.no = no /\ t.of = m.from
        BY <1>3, <1>6, <3>1 DEF Look
      <4>2. Traffic[t.no].from = t.of /\ Traffic[t.no].to \in Group /\ t.no \in 1..arrived'
        BY <1>1, <1>3, <1>6, <2>5, <4>1
      <4> QED
        BY <4>1, <4>2 DEF LookOK
    <3>3. PICK new : new = Dock(no, id) \o <<Of("bubble", no, m.from)>>
      OBVIOUS
    <3>4. Batch(new, t)
      BY <1>3, <1>6, <3>1, <3>3, CardBatch
    <3>5. Looks(new, rest, queue, line) /\ UNCHANGED <<running, bubbles>>
      BY <2>5, <3>3 DEF linkVars
    <3>6. PICK upto : upto = arrived'
      OBVIOUS
    <3>7. Held({t.no}, upto, rest, queue)
      BY <2>2, <3>2, <3>6
    <3>8. RowsInv
      BY DEF PageInv
    <3> QED
      BY <3>2, <3>4, <3>5, <3>6, <3>7, <3>8, LooksHold
  <2> QED
    BY <2>1, <2>3, <2>4, <2>5
<1> QED
  BY <1>2, <1>4, <1>5, <1>6

\* A message that arrives is in hand.
LEMMA ArrivesHolds ==
    ASSUME PageInv, FollowInv, MessageArrives
    PROVE  FollowInv'
<1>1. /\ arrived \in Nat /\ Len(Traffic) \in Nat /\ arrived < Len(Traffic) /\ arrived' = arrived + 1
      /\ arrived' \in 1..Len(Traffic) /\ UNCHANGED <<running, bubbles>>
  BY TrafficIs DEF PageInv, MessageArrives, linkVars
<1>2. PICK upto, rest, queue, line : upto = arrived' /\ rest = pending /\ queue = local /\ line = wire
  OBVIOUS
<1>3. PICK t : t = [no |-> upto, step |-> "card", of |-> Traffic[upto].to]
  OBVIOUS
<1>4. PICK new : new = <<Of("card", upto, Traffic[upto].to)>>
  OBVIOUS
<1>5. Looks(new, rest, queue, line)
  BY <1>2, <1>4 DEF MessageArrives
<1>6. t \in Look /\ t.step # "dock" /\ t.no = upto /\ LookOK(t)' /\ Batch(new, t)
  <2>1. Traffic[upto].to \in Subject
    BY <1>1, <1>2, TrafficIs
  <2>2. t \in Look /\ t.step = "card" /\ t.no = upto
    BY <1>1, <1>2, <1>3, <2>1 DEF Look
  <2>3. LookOK(t)'
    BY <1>1, <1>2, <1>3, <2>2 DEF LookOK
  <2>4. Batch(new, t)
    BY <1>3, <1>4 DEF Batch
  <2> QED
    BY <2>2, <2>3, <2>4
<1>7. Held({upto}, upto, rest, queue)
  <2>1. Held({}, arrived, rest, queue)
    BY <1>2 DEF FollowInv
  <2>2. /\ \A no \in 1..arrived : no \in 1..upto /\ no # upto
        /\ \A no \in 1..upto : no = upto \/ no \in 1..arrived
        /\ upto \in 1..upto
    BY <1>1, <1>2
  <2> QED
    BY <2>1, <2>2 DEF Held
<1>8. Sound(rest, queue, line) /\ RowsInv
  BY <1>2 DEF PageInv
<1> QED
  BY <1>1, <1>2, <1>5, <1>6, <1>7, <1>8, LooksHold

\* A contact is chosen: a group's members may be asked for under an id that
\* takes the place of a message's.
LEMMA ChosenHolds ==
    ASSUME PageInv, FollowInv, NEW s \in Subject, Chosen(s)
    PROVE  FollowInv'
<1>1. PICK req, rest, queue, line, upto, next :
         /\ req = Dock(1, s) /\ rest = pending /\ queue = local /\ line = wire
         /\ upto = arrived' /\ next = pending'
  OBVIOUS
<1>2. /\ Ask(req, rest, line) /\ lost' = lost \union Gone(Forgotten(req, rest))
      /\ UNCHANGED <<running, local, arrived, bubbles>>
  BY <1>1 DEF Chosen, linkVars, cacheVars
<1>3. AskedFor({}, req)
  <2>1. CASE req = <<>>
    BY <2>1 DEF AskedFor
  <2>2. CASE req = <<Members(1, s)>>
    <3> DEFINE x == Members(1, s)
    <3>1. x.todo.step = "dock"
      BY DEF Members
    <3> HIDE DEF x
    <3>2. Len(req) = 1 /\ DOMAIN req = 1..1 /\ req[1] = x
      BY <2>2 DEF x
    <3> QED
      BY <3>1, <3>2 DEF AskedFor
  <2> QED
    BY <1>1, <2>1, <2>2 DEF Dock
<1>4. Held({}, upto, rest, queue)
  BY <1>1, <1>2 DEF FollowInv
<1>5. Held({}, upto, next, queue)'
  BY <1>1, <1>2, <1>3, <1>4, AskHolds
<1>6. queue = local'
  BY <1>1, <1>2
<1> QED
  BY <1>1, <1>5, <1>6, HeldThen

LEMMA FollowSteps == PageInv /\ FollowInv /\ [PageNext]_messageVars => FollowInv'
<1> SUFFICES ASSUME PageInv, FollowInv, [PageNext]_messageVars PROVE FollowInv'
  OBVIOUS
<1>1. CASE MessageArrives
  BY <1>1, ArrivesHolds
<1>2. ASSUME NEW r \in Answers, Resolved(r) PROVE FollowInv'
  <2>1. wire # <<>> /\ arrived' = arrived
    BY <1>2, AnswerIs DEF Resolved
  <2>2. ASSUME NEW e \in EntryOf(r), Ready(e.todo, IdIn(r, e.todo.of), Left(r), local, Tail(wire))
        PROVE  FollowInv'
    <3>1. PICK id, todo, rest, queue, line :
             /\ id = IdIn(r, e.todo.of) /\ todo = e.todo
             /\ rest = Left(r) /\ queue = local /\ line = Tail(wire)
      OBVIOUS
    <3>2. Held(InHand(todo), arrived, rest, queue)
      BY <3>1, AnswerHolds
    <3>3. LookOK(todo) /\ Sound(rest, queue, line)
      BY <3>1, AnswerGives
    <3> QED
      BY <2>1, <2>2, <3>1, <3>2, <3>3, ReadyHolds
  <2>3. CASE Rests(pending, local, Tail(wire)) /\ UNCHANGED <<linkVars, bubbles>>
    <3>1. PICK rest, queue, line : rest = pending /\ queue = local /\ line = Tail(wire)
      OBVIOUS
    <3>2. Held({}, arrived, rest, queue) /\ Rests(rest, queue, line) /\ UNCHANGED <<running, arrived, bubbles>>
      BY <2>1, <2>3, <3>1 DEF FollowInv, linkVars
    <3> QED
      BY <3>2, RestsHold
  <2> QED
    BY <1>2, <2>2, <2>3 DEF Resolved
<1>3. ASSUME NEW q, TableKnows(q) PROVE FollowInv'
  <2>1. local # <<>> /\ q = Head(local) /\ arrived' = arrived
    BY <1>3 DEF TableKnows, TableAnswers
  <2>2. PICK id, todo, rest, queue, line :
           id = q.todo.of /\ todo = q.todo /\ rest = pending /\ queue = Tail(local) /\ line = wire
    OBVIOUS
  <2>3. Ready(todo, id, rest, queue, line)
    BY <1>3, <2>2 DEF TableKnows
  <2>4. Held(InHand(todo), arrived, rest, queue)
    BY <2>1, <2>2, TableHolds
  <2>5. LookOK(todo) /\ Sound(rest, queue, line)
    BY <2>1, <2>2, TableGives
  <2> QED
    BY <2>1, <2>3, <2>4, <2>5, ReadyHolds
<1>4. CASE AnswerMissing
  <2>1. PICK rest, queue, line : rest = pending /\ queue = local /\ line = Tail(wire)
    OBVIOUS
  <2>2. Held({}, arrived, rest, queue) /\ Rests(rest, queue, line) /\ UNCHANGED <<running, arrived, bubbles>>
    BY <1>4, <2>1 DEF FollowInv, AnswerMissing, Unanswered, linkVars, cacheVars, pageVars, Rests
  <2> QED
    BY <2>2, RestsHold
<1>5. CASE LookUpsDropped
  BY <1>5, DropHolds
<1>6. ASSUME NEW s \in Subject, Chosen(s) PROVE FollowInv'
  BY <1>6, ChosenHolds
<1>7. CASE UNCHANGED <<linkVars, requestVars, cacheVars, pageVars>>
  BY <1>7 DEF linkVars, requestVars, cacheVars, pageVars, FollowInv, Held, OneEach, Waits, OnPage
<1>8. ASSUME NEW s, Click(s) PROVE FollowInv'
  BY <1>7, <1>8 DEF Click
<1>9. ASSUME NEW i, CloseTab(i) PROVE FollowInv'
  BY <1>7, <1>9 DEF CloseTab
<1>10. CASE UNCHANGED messageVars
  BY <1>7, <1>10 DEF messageVars
<1> QED
  BY <1>1, <1>2, <1>3, <1>4, <1>5, <1>6, <1>8, <1>9, <1>10 DEF PageNext, AnswerComes, TableComes

LEMMA FollowStarts == PageInit => FollowInv
<1> SUFFICES ASSUME PageInit PROVE FollowInv
  OBVIOUS
<1>1. /\ pending = {} /\ local = <<>> /\ arrived = 0 /\ lost = {}
      /\ \A s \in Subject : bubbles[s] = <<>>
  BY DEF PageInit, RequestInit, CacheInit
<1>2. DOMAIN <<>> = {} /\ 1..0 = {}
  OBVIOUS
<1> QED
  BY <1>1, <1>2 DEF FollowInv, Held, OneEach, Waits, OnPage

\* The messages that are being looked up, at the server or with an answer from
\* the table.
OutFor == Gone({e.todo : e \in pending}) \union Gone({q.todo : q \in Range(local)})

\* While the client runs, a message that has arrived is on its page, is being
\* looked up, or has been lost with a look-up of its; it is in one of these
\* places only, and on its page once.
EachInItsPlace ==
    /\ running => 1..arrived \subseteq Shown \union OutFor \union lost
    /\ Shown \intersect OutFor = {} /\ Shown \intersect lost = {} /\ OutFor \intersect lost = {}
    /\ \A s \in Subject : IsInjective(bubbles[s])

\* No message is forgotten or shown twice, whoever answers first, whatever the
\* timer drops and whichever ids are drawn twice: of every message that has
\* arrived the client still knows where it is.  What is not on its page is
\* waited for, or was dropped with a look-up.
THEOREM MessagesAreFollowed == PageSpec => []EachInItsPlace
<1>1. PageInv /\ FollowInv => EachInItsPlace
  <2> SUFFICES ASSUME PageInv, FollowInv PROVE EachInItsPlace
    OBVIOUS
  <2>1. \A no : no \in Shown <=> OnPage(no)
    BY DEF Shown, OnPage, ToSet
  <2>2. \A no : no \in OutFor <=> Waits(no, pending, local)
    <3>1. \A k \in DOMAIN local : local[k].todo.step # "dock"
      BY DEF PageInv, Sound
    <3>2. \A no : no \in OutFor <=> \/ \E e \in pending : e.todo.step # "dock" /\ e.todo.no = no
                                    \/ \E k \in DOMAIN local : local[k].todo.step # "dock" /\ local[k].todo.no = no
      BY DEF OutFor, Gone, Range
    <3> QED
      BY <3>1, <3>2 DEF Waits
  <2>3. \A s \in Subject : IsInjective(bubbles[s])
    BY DEF FollowInv, Held, IsInjective
  <2> QED
    BY <2>1, <2>2, <2>3 DEF FollowInv, Held, EachInItsPlace
<1> QED
  BY <1>1, PageStarts, PageSteps, FollowStarts, FollowSteps, PTL DEF PageSpec

\* A look-up for a message never waits at the server without the timer that
\* would drop it, so that the message does not stay out for ever.
THEOREM MessagesAreTimed == PageSpec => []TimerRuns
<1>1. PageInit => TimerRuns
  BY DEF PageInit, RequestInit, TimerRuns
<1>2. TimerRuns /\ [PageNext]_messageVars => TimerRuns'
  <2> SUFFICES ASSUME TimerRuns, [PageNext]_messageVars PROVE TimerRuns'
    OBVIOUS
  <2>1. CASE MessageArrives
    <3>1. PICK new : new = <<Of("card", arrived', Traffic[arrived'].to)>>
      OBVIOUS
    <3>2. Ask(FromServer(new), pending, wire) /\ StopWhenEmpty(Asks(new))
      BY <2>1, <3>1 DEF MessageArrives, Looks, LookUp
    <3>3. CASE FromServer(new) = <<>>
      BY <3>2, <3>3, NothingAsked DEF Ask, StopWhenEmpty, TimerRuns
    <3>4. CASE FromServer(new) # <<>>
      BY <3>2, <3>4 DEF Asks, StopWhenEmpty, TimerRuns
    <3> QED
      BY <3>3, <3>4
  <2>2. ASSUME NEW r, Resolved(r) PROVE TimerRuns'
    BY <2>2 DEF Resolved, StopWhenEmpty, Left, TimerRuns
  <2>3. ASSUME NEW q, TableKnows(q) PROVE TimerRuns'
    BY <2>3 DEF TableKnows, TimerRuns
  <2>4. CASE LookUpsDropped
    BY <2>4 DEF LookUpsDropped, TimesOut, TimerRuns
  <2>5. ASSUME NEW s, Chosen(s) PROVE TimerRuns'
    <3>1. CASE s \in Group
      BY <2>5, <3>1 DEF Chosen, TimerRuns
    <3>2. CASE s \notin Group
      <4>1. Dock(1, s) = <<>>
        BY <3>2 DEF Dock
      <4>2. Ask(<<>>, pending, wire) /\ (timer => timer')
        BY <2>5, <3>2, <4>1 DEF Chosen
      <4> QED
        BY <4>2, NothingAsked DEF Ask, TimerRuns
    <3> QED
      BY <3>1, <3>2
  <2>6. CASE UNCHANGED <<pending, timer>>
    BY <2>6 DEF TimerRuns
  <2>7. CASE AnswerMissing \/ UNCHANGED messageVars
    BY <2>6, <2>7 DEF AnswerMissing, Unanswered, messageVars, requestVars
  <2>8. ASSUME NEW s, Click(s) PROVE TimerRuns'
    BY <2>6, <2>8 DEF Click, requestVars
  <2>9. ASSUME NEW i, CloseTab(i) PROVE TimerRuns'
    BY <2>6, <2>9 DEF CloseTab, requestVars
  <2> QED
    BY <2>1, <2>2, <2>3, <2>4, <2>5, <2>7, <2>8, <2>9 DEF PageNext, AnswerComes, TableComes
<1> QED
  BY <1>1, <1>2, PTL DEF PageSpec

LEMMA RemoveAtIs ==
    ASSUME NEW S, NEW s \in Seq(S), NEW k \in 1..Len(s)
    PROVE  /\ RemoveAt(s, k) \in Seq(S)
           /\ Len(RemoveAt(s, k)) = Len(s) - 1
           /\ \A i \in 1..(Len(s) - 1) :
                 RemoveAt(s, k)[i] = IF i < k THEN s[i] ELSE s[i + 1]
<1> DEFINE n == Len(s)
           a == SubSeq(s, 1, k - 1)
           b == SubSeq(s, k + 1, n)
<1>1. n \in Nat /\ k \in 1..n /\ DOMAIN s = 1..n
  BY LenProperties
<1>2. \A i \in 1..n : s[i] \in S
  BY ElementOfSeq
<1>3. /\ a \in Seq(S) /\ Len(a) = k - 1 /\ \A i \in 1..(k - 1) : a[i] = s[i]
  <2>1. \A i \in 1..(k - 1) : s[i] \in S
    BY <1>1, <1>2
  <2> QED
    BY <1>1, <2>1, SubSeqProperties
<1>4. /\ b \in Seq(S) /\ Len(b) = n - k /\ \A i \in 1..(n - k) : b[i] = s[k + i]
  <2>1. \A i \in (k + 1)..n : s[i] \in S
    BY <1>1, <1>2
  <2>2. /\ b \in Seq(S) /\ Len(b) = IF k + 1 <= n THEN n - (k + 1) + 1 ELSE 0
        /\ \A i \in 1..(n - (k + 1) + 1) : b[i] = s[k + 1 + i - 1]
    <3>1. k + 1 \in Int /\ n \in Int
      BY <1>1
    <3> HIDE DEF n
    <3> QED
      BY <2>1, <3>1, SubSeqProperties
  <2> HIDE DEF b
  <2> HIDE DEF n
  <2>3. n - (k + 1) + 1 = n - k /\ (IF k + 1 <= n THEN n - (k + 1) + 1 ELSE 0) = n - k
    BY <1>1
  <2>4. \A i \in 1..(n - k) : k + 1 + i - 1 = k + i
    BY <1>1
  <2> QED
    BY <2>2, <2>3, <2>4
<1>5. RemoveAt(s, k) = a \o b
  BY DEF RemoveAt
<1> HIDE DEF a, b
<1>6. /\ a \o b \in Seq(S) /\ Len(a \o b) = n - 1
      /\ \A i \in 1..(n - 1) : (a \o b)[i] = IF i <= k - 1 THEN a[i] ELSE b[i - (k - 1)]
  <2>1. Len(a) + Len(b) = n - 1
    BY <1>1, <1>3, <1>4
  <2>2. /\ a \o b \in Seq(S) /\ Len(a \o b) = Len(a) + Len(b)
        /\ \A i \in 1..(Len(a) + Len(b)) :
              (a \o b)[i] = IF i <= Len(a) THEN a[i] ELSE b[i - Len(a)]
    <3>1. a \in Seq(S) /\ b \in Seq(S)
      BY <1>3, <1>4
    <3> QED
      BY <3>1, ConcatProperties
  <2> QED
    BY <1>3, <2>1, <2>2
<1>7. ASSUME NEW i \in 1..(n - 1)
      PROVE  (a \o b)[i] = IF i < k THEN s[i] ELSE s[i + 1]
  <2>1. CASE i < k
    <3>1. i \in 1..(k - 1) /\ i <= k - 1
      BY <1>1, <2>1
    <3> QED
      BY <1>3, <1>6, <2>1, <3>1
  <2>2. CASE ~(i < k)
    <3>1. i - (k - 1) \in 1..(n - k) /\ ~(i <= k - 1) /\ k + (i - (k - 1)) = i + 1
      BY <1>1, <2>2
    <3> QED
      BY <1>4, <1>6, <2>2, <3>1
  <2> QED
    BY <2>1, <2>2
<1> QED
  BY <1>5, <1>6, <1>7

\* The place at which a sequence is searched for an entry it has is one of the
\* entry's.
LEMMA FirstOfIs ==
    ASSUME NEW s, NEW e, \E i \in 1..Len(s) : s[i] = e
    PROVE  \E k \in 1..Len(s) : s[k] = e /\ RemoveFirst(s, e) = RemoveAt(s, k)
<1> DEFINE I == {i \in 1..Len(s) : s[i] = e}
<1>1. RemoveFirst(s, e) = RemoveAt(s, IF I # {} THEN Min(I) ELSE 0)
  BY DEF RemoveFirst, SelectInSeq
<1>2. I \subseteq Nat /\ I # {}
  OBVIOUS
<1>3. PICK k \in I : \A y \in I : k <= y
  BY <1>2, Least
<1>4. Min(I) \in I
  BY <1>3 DEF Min
<1> QED
  BY <1>1, <1>2, <1>4

\* A sequence without repetition has none after an entry is taken out, and the
\* entry is gone.
LEMMA RemoveAtInjective ==
    ASSUME NEW S, NEW s \in Seq(S), IsInjective(s), NEW k \in 1..Len(s)
    PROVE  /\ RemoveAt(s, k) \in Seq(S) /\ IsInjective(RemoveAt(s, k))
           /\ \A i \in 1..Len(RemoveAt(s, k)) : RemoveAt(s, k)[i] # s[k]
<1> DEFINE r == RemoveAt(s, k)
           n == Len(s)
<1>1. /\ r \in Seq(S) /\ Len(r) = n - 1
      /\ \A i \in 1..(n - 1) : r[i] = IF i < k THEN s[i] ELSE s[i + 1]
  BY RemoveAtIs
<1>2. n \in Nat /\ DOMAIN s = 1..n /\ DOMAIN r = 1..(n - 1)
  <2>1. n \in Nat /\ DOMAIN s = 1..n
    BY LenProperties
  <2>2. DOMAIN r = 1..Len(r)
    <3> HIDE DEF r
    <3> QED
      BY <1>1, LenProperties
  <2> QED
    BY <1>1, <2>1, <2>2
<1>3. \A a, b \in 1..n : s[a] = s[b] => a = b
  BY <1>2 DEF IsInjective
<1>4. k \in 1..n
  OBVIOUS
<1> HIDE DEF r, n
<1>5. \A i \in 1..(n - 1) : \E a \in 1..n : a # k /\ r[i] = s[a] /\ a = (IF i < k THEN i ELSE i + 1)
  BY <1>1, <1>2, <1>4
<1>6. \A i, j \in 1..(n - 1) : r[i] = r[j] => i = j
  <2> SUFFICES ASSUME NEW i \in 1..(n - 1), NEW j \in 1..(n - 1), r[i] = r[j] PROVE i = j
    OBVIOUS
  <2>1. PICK a \in 1..n : r[i] = s[a] /\ a = (IF i < k THEN i ELSE i + 1)
    BY <1>5
  <2>2. PICK b \in 1..n : r[j] = s[b] /\ b = (IF j < k THEN j ELSE j + 1)
    BY <1>5
  <2>3. a = b
    BY <1>3, <2>1, <2>2
  <2> QED
    BY <1>2, <1>4, <2>1, <2>2, <2>3
<1>7. \A i \in 1..(n - 1) : r[i] # s[k]
  BY <1>3, <1>4, <1>5
<1>8. IsInjective(r)
  BY <1>2, <1>6 DEF IsInjective
<1>9. \A i \in 1..Len(r) : r[i] # s[k]
  BY <1>1, <1>7
<1> QED
  BY <1>1, <1>8, <1>9 DEF r

LEMMA RemoveFirstInjective ==
    ASSUME NEW S, NEW s \in Seq(S), IsInjective(s), NEW e
    PROVE  /\ RemoveFirst(s, e) \in Seq(S) /\ IsInjective(RemoveFirst(s, e))
           /\ \A i \in 1..Len(RemoveFirst(s, e)) : RemoveFirst(s, e)[i] # e
<1>1. CASE \E i \in 1..Len(s) : s[i] = e
  <2>1. PICK k \in 1..Len(s) : s[k] = e /\ RemoveFirst(s, e) = RemoveAt(s, k)
    BY <1>1, FirstOfIs
  <2>2. /\ RemoveAt(s, k) \in Seq(S) /\ IsInjective(RemoveAt(s, k))
        /\ \A i \in 1..Len(RemoveAt(s, k)) : RemoveAt(s, k)[i] # s[k]
    BY RemoveAtInjective
  <2> QED
    BY <2>1, <2>2
<1>2. CASE ~\E i \in 1..Len(s) : s[i] = e
  <2>1. RemoveFirst(s, e) = s
    BY <1>2 DEF RemoveFirst
  <2> QED
    BY <1>2, <2>1
<1> QED
  BY <1>1, <1>2

\* A new entry at the end of a sequence without repetition.
LEMMA AppendNew ==
    ASSUME NEW S, NEW s \in Seq(S), IsInjective(s), NEW e \in S,
           \A i \in 1..Len(s) : s[i] # e
    PROVE  /\ Append(s, e) \in Seq(S) /\ IsInjective(Append(s, e))
           /\ Len(Append(s, e)) \in DOMAIN Append(s, e)
           /\ Append(s, e)[Len(Append(s, e))] = e
<1> DEFINE n == Len(s)
           r == Append(s, e)
<1>1. /\ r \in Seq(S) /\ Len(r) = n + 1
      /\ \A i \in 1..n : r[i] = s[i]
      /\ r[n + 1] = e
  BY AppendProperties
<1> HIDE DEF r
<1>2. n \in Nat /\ DOMAIN s = 1..n
  BY LenProperties
<1>3. DOMAIN r = 1..(n + 1)
  BY <1>1, LenProperties
<1>4. \A a, b \in 1..n : s[a] = s[b] => a = b
  BY <1>2 DEF IsInjective
<1>5. \A i \in 1..n : s[i] # e
  OBVIOUS
<1> HIDE DEF n
<1>6. \A a, b \in 1..(n + 1) : r[a] = r[b] => a = b
  <2> SUFFICES ASSUME NEW a \in 1..(n + 1), NEW b \in 1..(n + 1), r[a] = r[b] PROVE a = b
    OBVIOUS
  <2>1. a \in 1..n \/ a = n + 1
    BY <1>2
  <2>2. b \in 1..n \/ b = n + 1
    BY <1>2
  <2> QED
    BY <1>1, <1>4, <1>5, <2>1, <2>2
<1>7. IsInjective(r)
  BY <1>3, <1>6 DEF IsInjective
<1>8. n + 1 \in 1..(n + 1)
  BY <1>2
<1>9. Len(r) \in DOMAIN r /\ r[Len(r)] = e
  BY <1>1, <1>3, <1>8
<1> QED
  BY <1>1, <1>7, <1>9 DEF r

------------------------------------------------------------------------------
\* No page has two tabs, and the tab of what was clicked last is in front.
TabInv ==
    /\ tabs \in Seq(Subject) /\ IsInjective(tabs)
    /\ \A s \in wanted : current \in DOMAIN tabs /\ tabs[current] = s

LEMMA ShowsKeeps ==
    ASSUME TabInv, NEW s \in Subject, Shows(s)
    PROVE  TabInv'
<1>1. CASE /\ OwnPage(s, place[s]) /\ current' = place[s]
           /\ UNCHANGED <<tabs, place>>
  BY <1>1 DEF TabInv, Shows, OwnPage, IsInjective
<1>2. CASE /\ ~OwnPage(s, place[s])
           /\ tabs' = Append(RemoveFirst(tabs, s), s)
           /\ current' = Len(tabs')
  <2>1. PICK old \in Seq(Subject) : old = tabs /\ IsInjective(old)
    BY DEF TabInv
  <2>2. PICK r \in Seq(Subject) :
             r = RemoveFirst(old, s) /\ IsInjective(r) /\ \A i \in 1..Len(r) : r[i] # s
    BY <2>1, RemoveFirstInjective
  <2> DEFINE a == Append(r, s)
  <2>3. a \in Seq(Subject) /\ IsInjective(a) /\ Len(a) \in DOMAIN a /\ a[Len(a)] = s
    BY <2>2, AppendNew
  <2> HIDE DEF a
  <2>4. tabs' = a
    BY <1>2, <2>1, <2>2 DEF a
  <2>5. current' = Len(a) /\ wanted' = {s}
    BY <1>2, <2>4 DEF Shows
  <2> QED
    BY <2>3, <2>4, <2>5 DEF TabInv, IsInjective
<1> QED
  BY <1>1, <1>2 DEF Shows

LEMMA CloseKeeps ==
    ASSUME TabInv, NEW i, CloseTab(i)
    PROVE  TabInv'
<1>1. PICK old \in Seq(Subject) : old = tabs /\ IsInjective(old)
  BY DEF TabInv
<1>2. i \in 1..Len(old)
  BY <1>1, LenProperties DEF CloseTab
<1> DEFINE r == RemoveAt(old, i)
<1>3. r \in Seq(Subject) /\ IsInjective(r)
  BY <1>1, <1>2, RemoveAtInjective
<1>4. tabs' = r /\ wanted' = {}
  BY <1>1 DEF CloseTab
<1> HIDE DEF r
<1> QED
  BY <1>3, <1>4 DEF TabInv, IsInjective

LEMMA TabsStay == TabInv /\ UNCHANGED tabVars => TabInv'
  BY DEF TabInv, tabVars, IsInjective

LEMMA TabSteps == TabInv /\ [PageNext]_messageVars => TabInv'
<1> SUFFICES ASSUME TabInv, [PageNext]_messageVars PROVE TabInv'
  OBVIOUS
<1>1. CASE MessageArrives
  BY <1>1, TabsStay DEF MessageArrives
<1>2. CASE AnswerComes
  BY <1>2, TabsStay DEF AnswerComes, Resolved
<1>3. CASE TableComes
  BY <1>3, TabsStay DEF TableComes, TableKnows
<1>4. CASE AnswerMissing
  BY <1>4, TabsStay DEF AnswerMissing
<1>5. CASE LookUpsDropped
  BY <1>5, TabsStay DEF LookUpsDropped
<1>6. ASSUME NEW s \in Subject, Click(s) \/ Chosen(s) PROVE TabInv'
  BY <1>6, ShowsKeeps DEF Click, Chosen
<1>7. ASSUME NEW i \in DOMAIN tabs, CloseTab(i) PROVE TabInv'
  BY <1>7, CloseKeeps
<1>8. CASE UNCHANGED messageVars
  BY <1>8, TabsStay DEF messageVars
<1> QED
  BY <1>1, <1>2, <1>3, <1>4, <1>5, <1>6, <1>7, <1>8 DEF PageNext

\* No page has two tabs, and the page of the card clicked last is in front until
\* a tab is closed, whatever places are remembered of tabs that have moved.
THEOREM ClicksShowTheirPage == PageSpec => []ClickShows
<1>1. PageInit => TabInv
  BY EmptySeq DEF PageInit, TabInv, IsInjective
<1>2. TabInv => ClickShows
  <2> SUFFICES ASSUME TabInv PROVE ClickShows
    OBVIOUS
  <2>1. DOMAIN tabs = 1..Len(tabs) /\ Len(tabs) \in Nat
    BY LenProperties DEF TabInv
  <2> QED
    BY <2>1 DEF TabInv, ClickShows
<1> QED
  BY <1>1, <1>2, TabSteps, PTL DEF PageSpec

\* The look-ups of messages, too, leave no name in a table that the server does
\* not have for that id.
THEOREM TablesStayTrue == PageSpec => []CacheTrue
<1>1. PageInv => CacheTrue
  BY DEF PageInv, RowsInv
<1> QED
  BY <1>1, PageStarts, PageSteps, PTL DEF PageSpec
===============================================================================
