----------------------------- MODULE BatchLoader ------------------------------
(* The batch loader (client/batch-loader.ts): loads join a window, one fiber  *)
(* owns every round trip, and the answers are handed out request by request.  *)
EXTENDS Naturals, FiniteSets

CONSTANTS
    Callers,        \* who may have one load under way
    Requests,       \* what may be asked for (an IndexValue)
    RequestOf,      \* the request of each caller
    MaxWake         \* bound of the model: wake tokens in the queue

ASSUME LoaderConstants ==
    /\ RequestOf \in [Callers -> Requests]
    /\ MaxWake \in Nat

VARIABLES
    pending,        \* the window, a Ref: per request the callers that share its deferred
    wake,           \* tokens in the queue `wake`
    fiber,          \* where the background fiber waits
    flight,         \* the window it is fetching, taken out of the Ref
    answer          \* settled deferreds their caller has not resumed from

lvars == <<pending, wake, fiber, flight, answer>>

\* A request nobody asked for is not in the map.
NoWindow == [r \in Requests |-> {}]

Waiting(w) == UNION {w[r] : r \in Requests}

LoaderInit ==
    /\ pending = NoWindow
    /\ wake = 0
    /\ fiber = "idle"
    /\ flight = NoWindow
    /\ answer = [c \in Callers |-> "none"]

\* Mutant: a token only for a fiber that looks asleep.
JoinWindow_TokenWhenIdle(c) ==
    LET r == RequestOf[c]
    IN  /\ c \notin Waiting(pending) \cup Waiting(flight)
        /\ answer[c] = "none"
        /\ pending' = [pending EXCEPT ![r] = @ \cup {c}]
        /\ wake' = IF fiber = "idle" THEN wake + 1 ELSE wake

\* Only the first caller of a request makes a deferred and offers a token.
JoinWindow(c) ==
    LET r == RequestOf[c]
    IN  /\ c \notin Waiting(pending) \cup Waiting(flight)
        /\ answer[c] = "none"
        /\ pending' = [pending EXCEPT ![r] = @ \cup {c}]
        /\ wake' = IF pending[r] = {} THEN wake + 1 ELSE wake

Load(c) ==
    /\ wake < MaxWake
    /\ JoinWindow(c)
    /\ UNCHANGED <<fiber, flight, answer>>

\* A token is taken; the yield that follows lets the rest of the tick join.
Wake ==
    /\ fiber = "idle"
    /\ wake > 0
    /\ wake' = wake - 1
    /\ fiber' = "awake"
    /\ UNCHANGED <<pending, flight, answer>>

\* Mutant: the Ref is read and left as it is.
Flush_Get ==
    /\ fiber = "awake"
    /\ flight' = pending
    /\ fiber' = IF Waiting(pending) = {} THEN "idle" ELSE "fetching"
    /\ UNCHANGED <<pending, wake, answer>>

\* The window closes as a whole; a token left over from a window that is gone
\* finds nothing to fetch.
Flush ==
    /\ fiber = "awake"
    /\ flight' = pending
    /\ pending' = NoWindow
    /\ fiber' = IF Waiting(pending) = {} THEN "idle" ELSE "fetching"
    /\ UNCHANGED <<wake, answer>>

Settle(outcome) ==
    /\ fiber = "fetching"
    /\ answer' = [c \in Callers |-> IF c \in Waiting(flight) THEN outcome[c] ELSE answer[c]]
    /\ flight' = NoWindow
    /\ fiber' = "idle"
    /\ UNCHANGED <<pending, wake>>

\* Mutant: the loop goes on and leaves its riders behind.
FetchFails_LeavesRiders ==
    /\ fiber = "fetching"
    /\ flight' = NoWindow
    /\ fiber' = "idle"
    /\ UNCHANGED <<pending, wake, answer>>

\* The exit of the fetch is caught, whatever it is: the fiber lives on.
FetchFails == Settle([c \in Callers |-> "failed"])

\* Mutant: only the deferreds of the results that came are completed.
FetchAnswers_ResultsOnly ==
    \E left \in SUBSET Requests :
        Settle([c \in Callers |-> IF RequestOf[c] \in left THEN answer[c] ELSE "result"])

\* A result the response lacks is a defect for the callers of that request only.
FetchAnswers ==
    \E left \in SUBSET Requests :
        Settle([c \in Callers |-> IF RequestOf[c] \in left THEN "missing" ELSE "result"])

\* The caller resumes.
Resume(c) ==
    /\ answer[c] # "none"
    /\ answer' = [answer EXCEPT ![c] = "none"]
    /\ UNCHANGED <<pending, wake, fiber, flight>>

Fetcher == Wake \/ Flush \/ FetchFails \/ FetchAnswers

LoaderNext == Fetcher \/ \E c \in Callers : Load(c) \/ Resume(c)

LoaderSpec == LoaderInit /\ [][LoaderNext]_lvars

-----------------------------------------------------------------------------
(* What the loader promises *)

\* A window that is open has its flush ahead: somebody's load is never left behind by
\* tokens spent on an earlier window (Queue.take, yieldNow, getAndSet).
NoLostWake == Waiting(pending) # {} => wake > 0 \/ fiber = "awake"

\* The fiber fetches exactly while it holds a window, and nobody is in two at once.
OneWindowEach ==
    /\ fiber = "fetching" <=> Waiting(flight) # {}
    /\ \A c \in Callers :
        /\ c \notin Waiting(pending) \cap Waiting(flight)
        /\ answer[c] # "none" => c \notin Waiting(pending) \cup Waiting(flight)

Service == INSTANCE BatchService
    WITH asked <- Waiting(pending), riding <- Waiting(flight)

\* Windows, deduplication and the shared round trip implement the abstract service:
\* one answer per load, from a fetch that left after it was asked, equal for equal
\* requests, and a failure that stays in its round trip.
Serves == Service!Spec
=============================================================================
