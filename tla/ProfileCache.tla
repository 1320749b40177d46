---------------------------- MODULE ProfileCache ----------------------------
(***************************************************************************)
(* DbCacheHelper over the SQLite tables of users and groups, which outlive *)
(* the process.  A look-up whose row is there and has a name is answered   *)
(* from it by a zero timer, any other by the server, whose answer is       *)
(* stored and handed on.  Rows are never renewed.                          *)
(***************************************************************************)
EXTENDS ClientRequests

CONSTANTS
    User, Group,   \* the uids and gids that are looked up
    NoRow,         \* there is no row
    Empty          \* the empty name

Subject == User \union Group

ASSUME SubjectAssumption ==
    User \cap Group = {} /\ NoRow \notin Subject /\ Empty \notin Subject \union {NoRow}

VARIABLES
    dbOpen,    \* DatabaseManager::isOpen
    rows,      \* the name in the row of a user or group; s itself is s's name
    local      \* look-ups answered from the table whose timer has not fired

cacheVars == <<dbOpen, rows, local>>

CacheTypeOK(Todo) ==
    /\ dbOpen \in BOOLEAN
    /\ rows \in [Subject -> Subject \union {NoRow, Empty}]
    /\ local \in Seq([todo : Todo, name : Subject])

CacheInit ==
    /\ dbOpen \in BOOLEAN
    /\ rows = [s \in Subject |-> NoRow]
    /\ local = <<>>

\* getUserInfo and getGroupInfo: from the table, or to be asked of the server.
Hit(s) == dbOpen /\ s \in Subject /\ rows[s] \notin {NoRow, Empty}
Hits(new) == {i \in DOMAIN new : Hit(new[i].of)}

\* Those of new that are at the places, in order.
Ascending(places) ==
    {f \in [1..Cardinality(places) -> places] : \A i, j \in DOMAIN f : i < j => f[i] < f[j]}
Picked(new, places) ==
    LET f == CHOOSE f \in Ascending(places) : TRUE
    IN  [i \in 1..Cardinality(places) |-> new[f[i]]]

FromTable(new) ==
    LET hits == Picked(new, Hits(new))
    IN  [i \in DOMAIN hits |-> [todo |-> hits[i].todo, name |-> rows[hits[i].of]]]
FromServer(new) == Picked(new, DOMAIN new \ Hits(new))

LatestFirst(queue, new) == new \o queue   \* Mutant: timers are taken from the back.
InTurn(queue, new) == queue \o new

\* The look-ups new, [of, todo] each, made in one go, while the entries are
\* rest, the answers from the table queue, and the requests that are out line.
LookUp(new, rest, queue, line) ==
    /\ local' = InTurn(queue, FromTable(new))
    /\ Ask(FromServer(new), rest, line)

------------------------------------------------------------------------------
\* What the answer r holds for a callback that asked about s: the fields of a
\* user are not those of a group, and a field that is missing reads as empty.
SameKind(r, s) == r.of \in Subject /\ (r.of \in User <=> s \in User)
NameIn(r, s) == IF r.ok /\ SameKind(r, s) THEN r.of ELSE Empty

\* The callback of a look-up of s stores the row under the id in the answer;
\* that of a user in a group's answer, or the other way round, is 0.
KeyAsked(r, s) == s   \* Mutant: the row is stored under the id asked for.
KeyOf(r, s) == r.of

Store(r, s) ==
    \/ /\ dbOpen /\ SameKind(r, s)
       /\ rows' = [rows EXCEPT ![KeyOf(r, s)] = NameIn(r, s)]
    \/ UNCHANGED rows   \* not open, the row of 0, or the statement fails

\* The zero timer of the first look-up answered from the table fires.
TableAnswers(q) ==
    /\ running /\ local # <<>> /\ q = Head(local)
    /\ UNCHANGED <<dbOpen, rows>>

\* The tables outlive the process.
TablesClose ==
    /\ dbOpen' = FALSE
    /\ local' = <<>>
    /\ UNCHANGED rows

TablesOpen == dbOpen' \in BOOLEAN /\ UNCHANGED <<rows, local>>

------------------------------------------------------------------------------
\* A name in the table is the server's, even if an answer reaches another
\* callback because two requests drew one id.
CacheTrue == \A s \in Subject : rows[s] \in {s, NoRow, Empty}
=============================================================================
