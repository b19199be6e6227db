----------------------------- MODULE BatchService -----------------------------
(* What the batch loader (client/batch-loader.ts) promises its callers: a     *)
(* caller is answered once, by one round trip that left after it asked; who   *)
(* asked for the same thing in the same round trip hears the same thing, and  *)
(* a round trip that fails, fails everyone on it and nobody else.             *)

CONSTANTS
    Callers,        \* who may have one load under way
    Requests,       \* what may be asked for (an IndexValue)
    RequestOf       \* the request of each caller

VARIABLES
    asked,          \* callers no round trip has left for yet
    riding,         \* callers of the round trip under way
    answer          \* what each caller has been told and not yet acted on

bsvars == <<asked, riding, answer>>

Answers == {"none", "result", "missing", "failed"}

Init ==
    /\ asked = {}
    /\ riding = {}
    /\ answer = [c \in Callers |-> "none"]

Ask(c) ==
    /\ c \notin asked \cup riding
    /\ answer[c] = "none"
    /\ asked' = asked \cup {c}
    /\ UNCHANGED <<riding, answer>>

\* One round trip at a time, for everyone who is waiting.
Send ==
    /\ asked # {}
    /\ riding = {}
    /\ riding' = asked
    /\ asked' = {}
    /\ UNCHANGED answer

Told(outcome) == answer' = [c \in Callers |-> IF c \in riding THEN outcome[c] ELSE answer[c]]

Fail ==
    /\ riding # {}
    /\ Told([c \in Callers |-> "failed"])
    /\ riding' = {}
    /\ UNCHANGED asked

\* The server answers request by request; it may leave some out.
Respond ==
    /\ riding # {}
    /\ \E left \in SUBSET Requests :
        Told([c \in Callers |-> IF RequestOf[c] \in left THEN "missing" ELSE "result"])
    /\ riding' = {}
    /\ UNCHANGED asked

Take(c) ==
    /\ answer[c] # "none"
    /\ answer' = [answer EXCEPT ![c] = "none"]
    /\ UNCHANGED <<asked, riding>>

Next == Send \/ Fail \/ Respond \/ \E c \in Callers : Ask(c) \/ Take(c)

Spec == Init /\ [][Next]_bsvars
=============================================================================
