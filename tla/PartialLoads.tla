---------------------------- MODULE PartialLoads ------------------------------
(* From a component to the server and back: usePartialLoad (react/src), the   *)
(* in-flight map of loadBy* (define-collection.ts), ensureSubset               *)
(* (sync-broker.ts) and the batch loader they share.  What a subset's rows    *)
(* hold is PartialCollection's matter; here a subset is proven or it is not.  *)
EXTENDS BatchLoader

CONSTANTS
    Hooks,              \* mounted usePartialLoad calls
    FirstTarget,        \* what each of them asks for when it mounts
    MaxAttempts,        \* bound of the model: effects each hook runs
    MaxGeneration       \* bound of the model: recoveries

\* What loadBy* can be asked for: an instance and one of its subsets.
Targets == Callers

ASSUME PartialLoadsConstants ==
    /\ Hooks # {}
    /\ FirstTarget \in [Hooks -> Targets]
    /\ MaxAttempts \in [Hooks -> Nat]
    /\ MaxGeneration \in Nat

VARIABLES
    generation,         \* of the broker
    proven,             \* requests whose rows are in the table, marked and covered
    ensure,             \* per target the promise in `inFlight` and its fiber
    told,               \* reactions of settled promises that have not run yet
    hook                \* per hook its rendered props, its last effect and its status

pvars == <<generation, proven, ensure, told, hook>>
vars == <<lvars, pvars>>

Outcomes == {"Ready", "Forbidden", "Failed"}

\* The effect that called loadBy*; no effect has number 0.
Caller == Hooks \X Nat

\* by: the effect that started the ensure; joined: the effects that await it.
Ensure == [pc : {"off", "plan", "load", "land", "done"}, by : Caller, gen : Nat, at : Nat,
           outcome : Outcomes, joined : SUBSET Caller]
NoEnsure == [pc |-> "off", by |-> <<CHOOSE h \in Hooks : TRUE, 0>>, gen |-> 0, at |-> 0,
             outcome |-> "Ready", joined |-> {}]

\* due: the commit has been made, its effect has not run.  from: the ensure that gave
\* the last status, of which target, and the generation in which it proved it.
Hook == [target : Targets, due : BOOLEAN, effect : Nat, status : Outcomes \cup {"Loading"},
         from : [by : Caller, target : Targets, at : Nat]]

Reaction == [to : Caller, outcome : Outcomes, from : [by : Caller, target : Targets, at : Nat]]

PLInit ==
    /\ LoaderInit
    /\ generation = 0
    /\ proven = {}
    /\ ensure = [t \in Targets |-> NoEnsure]
    /\ told = {}
    /\ hook = [h \in Hooks |->
        [target |-> FirstTarget[h], due |-> TRUE, effect |-> 0, status |-> "Loading",
         from |-> [by |-> NoEnsure.by, target |-> FirstTarget[h], at |-> 0]]]

-----------------------------------------------------------------------------
(* usePartialLoad *)

\* The component renders with another collection or value.
Navigate(h, t) ==
    /\ hook[h].target # t
    /\ hook[h].effect < MaxAttempts[h]
    /\ hook' = [hook EXCEPT ![h].target = t, ![h].due = TRUE]
    /\ UNCHANGED <<lvars, generation, proven, ensure, told>>

\* The retry handle of a failed status: another attempt.
Retry(h) ==
    /\ hook[h].status = "Failed"
    /\ ~hook[h].due
    /\ hook[h].effect < MaxAttempts[h]
    /\ hook' = [hook EXCEPT ![h].due = TRUE]
    /\ UNCHANGED <<lvars, generation, proven, ensure, told>>

\* loadBy*: join the promise in flight, or start an ensure; its fiber notes the
\* generation before its first await.
LoadBy(t, caller) ==
    IF ensure[t].pc # "off" THEN [ensure[t] EXCEPT !.joined = @ \cup {caller}]
    ELSE [NoEnsure EXCEPT !.pc = "plan", !.by = caller, !.gen = generation,
                          !.joined = {caller}]

\* Cleanup cancels the effect before it; the new one shows Loading and asks.
RunEffect(h) ==
    /\ hook[h].due
    /\ LET n == hook[h].effect + 1
           t == hook[h].target
       IN  /\ hook' = [hook EXCEPT ![h].due = FALSE, ![h].effect = n, ![h].status = "Loading"]
           /\ ensure' = [ensure EXCEPT ![t] = LoadBy(t, <<h, n>>)]
    /\ UNCHANGED <<lvars, generation, proven, told>>

\* Mutant: no cancelled flag.
React_IgnoresCancel(r) ==
    /\ r \in told
    /\ told' = told \ {r}
    /\ hook' = [hook EXCEPT ![r.to[1]].status = r.outcome, ![r.to[1]].from = r.from]
    /\ UNCHANGED <<lvars, generation, proven, ensure>>

\* A settled promise reaches an effect; a cancelled one ignores it.
React(r) ==
    /\ r \in told
    /\ told' = told \ {r}
    /\ LET h == r.to[1]
       IN  hook' = IF r.to[2] = hook[h].effect
                   THEN [hook EXCEPT ![h].status = r.outcome, ![h].from = r.from]
                   ELSE hook
    /\ UNCHANGED <<lvars, generation, proven, ensure>>

-----------------------------------------------------------------------------
(* ensureSubset *)

Finished(t, outcome) ==
    ensure' = [ensure EXCEPT ![t].pc = "done", ![t].outcome = outcome, ![t].gen = 0,
                             ![t].at = IF outcome = "Ready" THEN generation ELSE 0]

\* The promise of an ensure that outlived a recovery fails.
Checked(t) == IF ensure[t].gen = generation THEN "Ready" ELSE "Failed"

\* The mark is trusted: skip, or replay what it lacks.  After a recovery the plan may
\* still hold the mark of before.
TrustMark(t) ==
    /\ ensure[t].pc = "plan"
    /\ RequestOf[t] \in proven \/ ensure[t].gen # generation
    /\ Finished(t, Checked(t))
    /\ UNCHANGED <<lvars, generation, proven, told, hook>>

\* It is not: join the batch window.
Fetch(t) ==
    /\ ensure[t].pc = "plan"
    /\ RequestOf[t] \notin proven
    /\ Load(t)
    /\ ensure' = [ensure EXCEPT ![t].pc = "load"]
    /\ UNCHANGED <<generation, proven, told, hook>>

\* The answer: a failed round trip, a missing result and another epoch than the
\* stored one fail the ensure; the server may refuse; else the slice is to land.
Answered(t) ==
    /\ ensure[t].pc = "load"
    /\ Resume(t)
    /\ \/ Finished(t, "Failed")
       \/ answer[t] = "result" /\ Finished(t, "Forbidden")
       \/ answer[t] = "result" /\ ensure' = [ensure EXCEPT ![t].pc = "land"]
    /\ UNCHANGED <<generation, proven, told, hook>>

\* Behind the recovery gate: check, replace the slice, replay, mark.
Land(t) ==
    /\ ensure[t].pc = "land"
    /\ proven' = IF ensure[t].gen = generation THEN proven \cup {RequestOf[t]} ELSE proven
    /\ Finished(t, Checked(t))
    /\ UNCHANGED <<lvars, generation, told, hook>>

\* Mutant: the entry is cleared after its callers have heard of it.
SettlePromise_Late(t) ==
    LET e == ensure[t]
    IN  /\ e.pc = "done"
        /\ told' = told \cup
            {[to |-> c, outcome |-> e.outcome, from |-> [by |-> e.by, target |-> t, at |-> e.at]] :
                c \in e.joined}
        /\ ensure' = [ensure EXCEPT ![t] =
                IF e.joined = {} /\ \A r \in told : r.from.by # e.by THEN NoEnsure
                ELSE [e EXCEPT !.joined = {}]]
        /\ UNCHANGED <<lvars, generation, proven, hook>>

\* The promise settles: `finally` clears it before any of its callers hears of it.
SettlePromise(t) ==
    /\ ensure[t].pc = "done"
    /\ told' = told \cup
        {[to |-> c, outcome |-> ensure[t].outcome,
          from |-> [by |-> ensure[t].by, target |-> t, at |-> ensure[t].at]] :
            c \in ensure[t].joined}
    /\ ensure' = [ensure EXCEPT ![t] = NoEnsure]
    /\ UNCHANGED <<lvars, generation, proven, hook>>

\* A recovery of the broker: marks, rows and coverage of before are gone.
Recovery ==
    /\ generation < MaxGeneration
    /\ generation' = generation + 1
    /\ proven' = {}
    /\ UNCHANGED <<lvars, ensure, told, hook>>

-----------------------------------------------------------------------------
(* Specification *)

EnsureStep(t) == TrustMark(t) \/ Fetch(t) \/ Answered(t) \/ Land(t) \/ SettlePromise(t)

RunLoader == Fetcher /\ UNCHANGED pvars

\* What the client does of itself, and the network for it.
Runs ==
    \/ RunLoader
    \/ \E h \in Hooks : RunEffect(h)
    \/ \E t \in Targets : EnsureStep(t)
    \/ \E r \in told : React(r)

PLNext ==
    \/ Runs
    \/ Recovery
    \/ \E h \in Hooks : Retry(h) \/ \E t \in Targets : Navigate(h, t)

\* The event loop does not stop while there is something to run, and a round trip
\* ends, one way or the other.  Nobody has to navigate, to retry or to recover.
PLSpec == PLInit /\ [][PLNext]_vars /\ WF_vars(Runs)

-----------------------------------------------------------------------------
(* What a component may believe *)

PLTypeOK ==
    /\ pending \in [Requests -> SUBSET Callers] /\ flight \in [Requests -> SUBSET Callers]
    /\ wake \in 0 .. MaxWake /\ fiber \in {"idle", "awake", "fetching"}
    /\ answer \in [Callers -> Service!Answers]
    /\ generation \in 0 .. MaxGeneration
    /\ proven \subseteq Requests
    /\ ensure \in [Targets -> Ensure]
    /\ told \subseteq Reaction
    /\ hook \in [Hooks -> Hook]
    /\ \A t \in Targets : ensure[t].pc = "load" <=>
        t \in Waiting(pending) \cup Waiting(flight) \/ answer[t] # "none"

\* Ready is about the subset on screen, and its rows are proven, unless the client has
\* recovered since: no late answer to an earlier value or attempt, and no load that
\* began before a recovery, shows as Ready (the cancelled flag, checkGeneration).
ReadyIsEarned ==
    \A h \in Hooks : hook[h].status = "Ready" /\ ~hook[h].due =>
        /\ hook[h].from.target = hook[h].target
        /\ RequestOf[hook[h].target] \in proven \/ generation > hook[h].from.at

\* A hook that asks again is not told what it was told before: whoever hears of a
\* failure and retries gets another load, not the promise that failed (loadFor).
AnswersAreNew ==
    [][\A h \in Hooks : hook'[h].status # hook[h].status /\ hook'[h].status # "Loading" =>
        hook'[h].from.by # hook[h].from.by]_vars

\* No eternal spinner: whatever fails, is refused or is recovered meanwhile, a hook
\* that shows Loading shows something else in the end (SubsetStatus.Failed: "a real
\* state with a retry handle, not an eternal spinner").
LoadingEnds == \A h \in Hooks : hook[h].status = "Loading" ~> hook[h].status # "Loading"
=============================================================================
