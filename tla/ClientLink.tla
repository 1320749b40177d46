----------------------------- MODULE ClientLink -----------------------------
(***************************************************************************)
(* The client's one socket: connecting, losing the connection, trying      *)
(* again.  handle_error tells two kinds of errors apart: after a refused   *)
(* connection or a network error the retry timer is started, which fires   *)
(* every ten seconds until it is stopped; after any other error, a server  *)
(* that hangs up among them, it is stopped and the sign-in button is       *)
(* frozen.  connectToServer calls abort() when the socket is in use: that  *)
(* is the C function, and it ends the process.                             *)
(***************************************************************************)
EXTENDS Naturals

CONSTANT MaxRetries   \* m_maxRetries

ASSUME RetryAssumption == MaxRetries \in Nat

VARIABLES
    running,     \* the process is alive
    socket,      \* the state of the socket
    retries,     \* m_currentRetry
    retryTimer,  \* m_reconnectTimer is active
    signIn       \* the sign-in button is enabled

linkVars == <<running, socket, retries, retryTimer, signIn>>

LinkTypeOK ==
    /\ running \in BOOLEAN
    /\ socket \in {"unconnected", "connecting", "connected"}
    /\ retries \in 0..MaxRetries
    /\ retryTimer \in BOOLEAN
    /\ signIn \in BOOLEAN

\* main shows the sign-in page, whose button waits for the connection, and
\* starts to connect.
LinkInit ==
    /\ running = TRUE
    /\ socket = "connecting"
    /\ retries = 0
    /\ retryTimer = FALSE
    /\ signIn = FALSE

Online == running /\ socket = "connected"

ConnectedFrozen ==   \* Mutant: the button is left as it was.
    /\ running /\ socket = "connecting"
    /\ socket' = "connected"
    /\ retries' = 0 /\ retryTimer' = FALSE
    /\ UNCHANGED <<running, signIn>>

\* The handler of connected().
Connected ==
    /\ running /\ socket = "connecting"
    /\ socket' = "connected"
    /\ signIn' = TRUE
    /\ retries' = 0 /\ retryTimer' = FALSE
    /\ UNCHANGED running

TriesOver(n) == n <= MaxRetries   \* Mutant: one try too many.
TriesLeft(n) == n < MaxRetries

SameCount(n) == n   \* Mutant: the attempts are not counted.
NextCount(n) == n + 1

\* handle_error for ConnectionRefusedError and NetworkError.
Retry ==
    /\ retryTimer' = TriesLeft(retries)
    /\ retries' = IF TriesLeft(retries) THEN NextCount(retries) ELSE retries
    /\ UNCHANGED signIn

\* handle_error for everything else.
GiveUp ==
    /\ signIn' = FALSE
    /\ retryTimer' = FALSE
    /\ UNCHANGED retries

\* An attempt fails, or the connection does.
Fails(from) ==
    /\ running /\ socket = from
    /\ socket' = "unconnected"
    /\ Retry \/ GiveUp
    /\ UNCHANGED running

\* The retry timer fires: connectToServer.
RetryTick ==
    /\ running /\ retryTimer /\ socket = "unconnected"
    /\ socket' = "connecting"
    /\ UNCHANGED <<running, retries, retryTimer, signIn>>

TickAborts == running /\ retryTimer /\ socket # "unconnected"

\* The process ends, and the user starts it again.
LinkEnds ==
    /\ running /\ running' = FALSE
    /\ socket' = "unconnected"
    /\ retries' = 0 /\ retryTimer' = FALSE
    /\ signIn' = FALSE

Launch ==
    /\ ~running /\ running' = TRUE
    /\ socket' = "connecting"
    /\ signIn' = FALSE
    /\ UNCHANGED <<retries, retryTimer>>
=============================================================================
