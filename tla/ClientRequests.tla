--------------------------- MODULE ClientRequests ---------------------------
(***************************************************************************)
(* ClientRequestHandler: a request is entered in m_pendingRequests under a *)
(* generated id, with what is to be done with its answer, and sent if the  *)
(* socket is connected.  An answer takes its entry out; a timer that runs  *)
(* while there are entries drops those older than ten seconds, without a   *)
(* word to whoever waits for them.                                         *)
(*                                                                         *)
(* An id is the time in milliseconds and a random number: two requests     *)
(* made close together can draw the same id.  An id is modelled by the     *)
(* number of the first request that drew it.  An entry the timer finds for *)
(* the first time is not too old, since it fires every five seconds.       *)
(***************************************************************************)
EXTENDS ClientLink, SequencesExt

CONSTANT MaxRequests   \* bound: requests made by one run of the client

ASSUME RequestAssumption == MaxRequests \in Nat

VARIABLES
    pending,   \* m_pendingRequests: entries [id, seen, todo]
    timer,     \* m_timeoutTimer is active
    wire,      \* requests [id, of] that are out, in order
    asked,     \* requests made so far
    clash      \* ghost: two requests drew one id

requestVars == <<pending, timer, wire, asked, clash>>

NoId == 0       \* a login has no id

\* Of is what requests can be about, Todo what can be done with an answer.
RequestTypeOK(Of, Todo) ==
    /\ \A e \in pending : e.id \in 1..asked /\ e.seen \in BOOLEAN /\ e.todo \in Todo
    /\ timer \in BOOLEAN
    /\ wire \in Seq([id : 0..asked, of : Of])
    /\ asked \in 0..MaxRequests
    /\ clash \in BOOLEAN

RequestInit ==
    /\ pending = {} /\ timer = FALSE
    /\ wire = <<>>
    /\ asked = 0
    /\ clash = FALSE

------------------------------------------------------------------------------
\* generateRequestId, called n times in one go.  An id drawn before counts only
\* while its entry is there.
Young(rest) == {e.id : e \in {d \in rest : ~d.seen}}

NewIds(n, rest) ==
    {f \in [1..n -> Young(rest) \union (asked + 1)..(asked + n)] :
        \A i \in 1..n : /\ f[i] <= asked + i
                        /\ f[i] > asked => f[f[i] - asked] = f[i]}

\* clinet_write_data: what is written without a connection is lost.
Written(line, rs) == IF socket = "connected" THEN line \o rs ELSE line

\* The entries of requests [of, todo] made in one go under the given ids: of
\* two with one id the second replaces the first.
EntriesFor(new, ids) ==
    {[id |-> ids[i], seen |-> FALSE, todo |-> new[i].todo] :
        i \in {j \in DOMAIN new : \A k \in DOMAIN new : ids[k] = ids[j] => k <= j}}

\* queryUserInfoByUid and its like, called for each of new while the entries
\* are rest and the requests that are out line.
Ask(new, rest, line) ==
    /\ asked + Len(new) <= MaxRequests
    /\ asked' = asked + Len(new)
    /\ \E ids \in NewIds(Len(new), rest) :
          /\ pending' = {e \in rest : e.id \notin Range(ids)} \union EntriesFor(new, ids)
          /\ wire' = Written(line,
                [i \in DOMAIN new |-> [id |-> ids[i], of |-> new[i].of]])
          /\ clash' = (clash \/ Range(ids) \cap Young(rest) # {} \/ ~IsInjective(ids))

\* What is to be done with an answer that will not be recognised: its entry was
\* replaced.
Forgotten(new, rest) ==
    ({e.todo : e \in rest} \union {q.todo : q \in Range(new)}) \ {e.todo : e \in pending'}

\* addFriendRequestHandler, createGroupRequestHandler and
\* sendMessageContentHandler, whose answers nothing waits for: one entry, and
\* one packet, none if a file cannot be read, or two for two pictures.
AskPlain(of, todo, packets) ==
    /\ running
    /\ asked < MaxRequests
    /\ asked' = asked + 1
    /\ \E ids \in NewIds(1, pending) :
          /\ pending' = {e \in pending : e.id # ids[1]} \union
                            {[id |-> ids[1], seen |-> FALSE, todo |-> todo]}
          /\ wire' = Written(wire, [i \in 1..packets |-> [id |-> ids[1], of |-> of]])
          /\ clash' = (clash \/ ids[1] \in Young(pending))
    /\ timer' = TRUE

------------------------------------------------------------------------------
\* The server handles a connection's requests in turn and answers each or
\* fails to (a statement that fails, a user it does not know: the answer has no
\* id).  The client sees no more than the moment it takes the answer.  An answer
\* that is not ok refuses a login, or has an empty name because the query of the
\* name failed.  How a message fared makes no difference to it.
Unanswered ==
    /\ wire # <<>>
    /\ wire' = Tail(wire)
    /\ UNCHANGED <<pending, timer, asked, clash>>

Answers ==
    IF Online /\ wire # <<>>
      THEN {[id |-> Head(wire).id, of |-> Head(wire).of, ok |-> ok] :
               ok \in {TRUE, Head(wire).of = "message"}}
      ELSE {}

\* client_reply_info: the entry under the answer's id is taken out, if there
\* is one ...
EntryOf(r) == {e \in pending : e.id = r.id}
Left(r) == pending \ EntryOf(r)

\* ... and at the end, when its callback may have asked more, the timer is
\* stopped if there are no entries.
StopAtOnce(started) == timer' = FALSE   \* Mutant: any answer stops the timer.
StopWhenEmpty(started) == timer' = (pending' # {} /\ (timer \/ started))

\* cleanupTimeoutRequests: of the entries found before some are too old, in the
\* end all.
Found == {e \in pending : e.seen}

TimesOut(gone) ==
    /\ running /\ timer
    /\ pending' = {[e EXCEPT !.seen = TRUE] : e \in pending \ gone}
    /\ timer' = (pending' # {})
    /\ UNCHANGED <<wire, asked, clash>>

\* The socket fails: what was under way is gone.
LoseWire ==
    /\ wire' = <<>>
    /\ UNCHANGED <<pending, timer, asked, clash>>

RequestsEnd ==
    /\ pending' = {} /\ timer' = FALSE
    /\ wire' = <<>>
    /\ asked' = 0
    /\ clash' = FALSE

------------------------------------------------------------------------------
\* Entries never wait without the timer that would drop them: it is started
\* after the request is written, stopped by whichever of an answer and the
\* timer itself finds nothing left, and the callback of an answer may ask more
\* in between.
TimerRuns == pending # {} => timer
=============================================================================
