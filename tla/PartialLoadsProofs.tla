-------------------------- MODULE PartialLoadsProofs --------------------------
(* No load is left behind by the loader, and the loader implements the         *)
(* service it promises, for any number of callers and requests; and what a     *)
(* component is shown of a partial load, for any number of hooks, subsets and  *)
(* recoveries, over that loader.                                               *)
EXTENDS PartialLoads, TLAPS

LoaderTypes ==
    /\ pending \in [Requests -> SUBSET Callers]
    /\ flight \in [Requests -> SUBSET Callers]
    /\ wake \in Nat
    /\ fiber \in {"idle", "awake", "fetching"}
    /\ answer \in [Callers -> Service!Answers]

LoaderInv == LoaderTypes /\ NoLostWake /\ OneWindowEach

-----------------------------------------------------------------------------
(* Windows *)

\* An empty map holds no callers.
LEMMA NobodyWaits == Waiting(NoWindow) = {}
BY DEF Waiting, NoWindow

\* Joining a window adds exactly the caller.
LEMMA Joined ==
    ASSUME LoaderTypes, NEW c \in Callers
    PROVE  Waiting([pending EXCEPT ![RequestOf[c]] = @ \cup {c}]) = Waiting(pending) \cup {c}
<1> DEFINE r == RequestOf[c]
           joined == [pending EXCEPT ![r] = @ \cup {c}]
<1>1. r \in Requests
    BY LoaderConstants
<1>2. joined[r] = pending[r] \cup {c} /\ \A q \in Requests : q # r => joined[q] = pending[q]
    BY <1>1 DEF LoaderTypes
<1>3. Waiting(joined) = UNION {joined[q] : q \in Requests}
    BY DEF Waiting
<1>4. ASSUME NEW x \in Waiting(joined) PROVE x \in Waiting(pending) \cup {c}
    BY <1>2, <1>3, <1>4 DEF Waiting
<1>5. ASSUME NEW x \in Waiting(pending) \cup {c} PROVE x \in Waiting(joined)
    <2>1. CASE x = c
        BY <1>1, <1>2, <1>3, <2>1
    <2>2. CASE x \in Waiting(pending)
        <3>1. PICK q \in Requests : x \in pending[q]
            BY <2>2 DEF Waiting
        <3>2. x \in joined[q]
            BY <1>2, <3>1
        <3> QED
            BY <1>3, <3>1, <3>2
    <2> QED
        BY <1>5, <2>1, <2>2
<1> QED
    BY <1>4, <1>5

\* Everyone who waits is a caller.
LEMMA WaitersAreCallers ==
    ASSUME LoaderTypes
    PROVE  Waiting(pending) \subseteq Callers /\ Waiting(flight) \subseteq Callers
BY DEF LoaderTypes, Waiting

-----------------------------------------------------------------------------
(* The invariant *)

\* The loader starts with nothing asked and nothing under way.
LEMMA LoaderStarts == LoaderInit => LoaderInv
<1> SUFFICES ASSUME LoaderInit PROVE LoaderInv
    OBVIOUS
<1>1. NoWindow \in [Requests -> SUBSET Callers]
    BY DEF NoWindow
<1> QED
    BY <1>1, NobodyWaits DEF LoaderInit, LoaderInv, LoaderTypes, NoLostWake, OneWindowEach, Service!Answers

\* Every step of the loader or of a caller keeps the invariant.
LEMMA LoaderKeeps == LoaderInv /\ [LoaderNext]_lvars => LoaderInv'
<1> SUFFICES ASSUME LoaderInv, [LoaderNext]_lvars PROVE LoaderInv'
    OBVIOUS
<1> USE DEF LoaderInv
<1>0. NoWindow \in [Requests -> SUBSET Callers]
    BY DEF NoWindow
<1>1. ASSUME NEW c \in Callers, Load(c) PROVE LoaderInv'
    <2>0. RequestOf[c] \in Requests
        BY LoaderConstants
    <2>1. /\ c \notin Waiting(pending) \cup Waiting(flight) /\ answer[c] = "none"
          /\ pending' = [pending EXCEPT ![RequestOf[c]] = @ \cup {c}]
          /\ wake' = IF pending[RequestOf[c]] = {} THEN wake + 1 ELSE wake
          /\ UNCHANGED <<fiber, flight, answer>>
        BY <1>1 DEF Load, JoinWindow
    <2>2. Waiting(pending)' = Waiting(pending) \cup {c} /\ Waiting(flight)' = Waiting(flight)
        BY <2>1, Joined DEF Waiting
    <2>3. LoaderTypes'
        BY <2>0, <2>1 DEF LoaderTypes
    <2>4. NoLostWake'
        <3>1. CASE pending[RequestOf[c]] = {}
            BY <2>1, <3>1 DEF NoLostWake, LoaderTypes
        <3>2. CASE pending[RequestOf[c]] # {}
            <4>1. Waiting(pending) # {}
                BY <2>0, <3>2 DEF Waiting
            <4> QED
                BY <2>1, <3>2, <4>1 DEF NoLostWake
        <3> QED
            BY <3>1, <3>2
    <2>5. OneWindowEach'
        BY <2>1, <2>2 DEF OneWindowEach
    <2> QED
        BY <2>3, <2>4, <2>5
<1>2. CASE Wake
    BY <1>2 DEF Wake, LoaderTypes, NoLostWake, OneWindowEach, Waiting
<1>3. CASE Flush
    <2>1. Waiting(pending)' = {} /\ Waiting(flight)' = Waiting(pending)
        BY <1>3, NobodyWaits DEF Flush, Waiting
    <2>2. LoaderTypes'
        BY <1>0, <1>3 DEF Flush, LoaderTypes
    <2>3. NoLostWake'
        BY <2>1 DEF NoLostWake
    <2>4. OneWindowEach'
        BY <1>3, <2>1 DEF Flush, OneWindowEach
    <2> QED
        BY <2>2, <2>3, <2>4
<1>4. ASSUME NEW outcome \in [Callers -> {"failed", "missing", "result"}], Settle(outcome)
      PROVE  LoaderInv'
    <2>1. Waiting(flight)' = {} /\ Waiting(pending)' = Waiting(pending)
        BY <1>4, NobodyWaits DEF Settle, Waiting
    <2>2. LoaderTypes'
        BY <1>0, <1>4 DEF Settle, LoaderTypes, Service!Answers
    <2>3. NoLostWake'
        BY <1>4, <2>1 DEF Settle, NoLostWake
    <2>4. OneWindowEach'
        <3>1. fiber' # "fetching"
            BY <1>4 DEF Settle
        <3>2. ASSUME NEW c \in Callers, answer'[c] # "none" PROVE c \notin Waiting(pending)
            <4>1. answer'[c] = IF c \in Waiting(flight) THEN outcome[c] ELSE answer[c]
                BY <1>4 DEF Settle
            <4> QED
                BY <3>2, <4>1 DEF OneWindowEach
        <3> QED
            BY <2>1, <3>1, <3>2 DEF OneWindowEach
    <2> QED
        BY <2>2, <2>3, <2>4
<1>5. CASE FetchFails
    BY <1>4, <1>5 DEF FetchFails
<1>6. CASE FetchAnswers
    BY <1>4, <1>6 DEF FetchAnswers
<1>7. ASSUME NEW c \in Callers, Resume(c) PROVE LoaderInv'
    BY <1>7 DEF Resume, LoaderTypes, NoLostWake, OneWindowEach, Waiting, Service!Answers
<1>8. CASE UNCHANGED lvars
    BY <1>8 DEF lvars, LoaderTypes, NoLostWake, OneWindowEach, Waiting
<1> QED
    BY <1>1, <1>2, <1>3, <1>5, <1>6, <1>7, <1>8 DEF LoaderNext, Fetcher

\* No open window is ever left without a flush ahead of it, however many tokens earlier
\* windows spent (Queue.take, yieldNow, getAndSet of client/batch-loader.ts).
THEOREM NoLoadLeftBehind == LoaderSpec => []NoLostWake
<1>1. LoaderInv => NoLostWake
    BY DEF LoaderInv
<1> QED
    BY <1>1, LoaderStarts, LoaderKeeps, PTL DEF LoaderSpec

-----------------------------------------------------------------------------
(* The refinement *)

\* A step of the loader is a step of the service, or none.
LEMMA LoaderStep ==
    ASSUME LoaderInv, [LoaderNext]_lvars
    PROVE  [Service!Next]_(Service!bsvars)
<1> USE DEF LoaderInv
<1>1. ASSUME NEW c \in Callers, Load(c) PROVE Service!Ask(c)
    <2>1. /\ c \notin Waiting(pending) \cup Waiting(flight) /\ answer[c] = "none"
          /\ pending' = [pending EXCEPT ![RequestOf[c]] = @ \cup {c}]
          /\ UNCHANGED <<flight, answer>>
        BY <1>1 DEF Load, JoinWindow
    <2>2. Waiting(pending)' = Waiting(pending) \cup {c} /\ Waiting(flight)' = Waiting(flight)
        BY <2>1, Joined DEF Waiting
    <2> QED
        BY <2>1, <2>2 DEF Service!Ask
<1>2. CASE Wake
    BY <1>2 DEF Wake, Waiting, Service!bsvars
<1>3. CASE Flush
    <2>1. Waiting(pending)' = {} /\ Waiting(flight)' = Waiting(pending) /\ answer' = answer
        BY <1>3, NobodyWaits DEF Flush, Waiting
    <2>2. Waiting(flight) = {}
        BY <1>3 DEF Flush, OneWindowEach
    <2> QED
        BY <2>1, <2>2 DEF Service!Send, Service!Next, Service!bsvars
<1>4. ASSUME NEW outcome, Settle(outcome)
      PROVE  /\ Waiting(flight) # {} /\ Waiting(flight)' = {}
             /\ Waiting(pending)' = Waiting(pending)
             /\ Service!Told(outcome)
    BY <1>4, NobodyWaits DEF Settle, Waiting, OneWindowEach, Service!Told
<1>5. CASE FetchFails
    BY <1>4, <1>5 DEF FetchFails, Service!Fail, Service!Next
<1>6. CASE FetchAnswers
    <2>1. PICK left \in SUBSET Requests :
            Settle([c \in Callers |-> IF RequestOf[c] \in left THEN "missing" ELSE "result"])
        BY <1>6 DEF FetchAnswers
    <2> QED
        BY <1>4, <2>1 DEF Service!Respond, Service!Next
<1>7. ASSUME NEW c \in Callers, Resume(c) PROVE Service!Take(c)
    BY <1>7 DEF Resume, Waiting, Service!Take
<1>8. CASE UNCHANGED lvars
    BY <1>8 DEF lvars, Waiting, Service!bsvars
<1> QED
    BY <1>1, <1>2, <1>3, <1>5, <1>6, <1>7, <1>8 DEF LoaderNext, Fetcher, Service!Next

\* The loader implements the service: one answer per load, out of a round trip that left
\* after it, equal for equal requests, failures confined to their round trip.
THEOREM LoaderServes == LoaderSpec => Serves
<1>1. LoaderInit => Service!Init
    BY NobodyWaits DEF LoaderInit, Service!Init
<1>2. LoaderInv /\ [LoaderNext]_lvars => [Service!Next]_(Service!bsvars)
    BY LoaderStep
<1> QED
    BY <1>1, <1>2, LoaderStarts, LoaderKeeps, PTL DEF LoaderSpec, Serves, Service!Spec

-----------------------------------------------------------------------------
(* The hooks over the loader *)

\* Everyone who has an effect's number: it has run.
HasRun(c) == c[2] <= hook[c[1]].effect

\* The effect asked for what is on screen, unless a later commit waits for its effect.
Current(c, t) == c[2] = hook[c[1]].effect /\ ~hook[c[1]].due => hook[c[1]].target = t

\* Rows of the subset are proven, or the client has recovered since.
Earned(t, at) == RequestOf[t] \in proven \/ generation > at

\* An ensure was started by an effect that has run; what it found is earned.
EnsuresAreEarned ==
    \A t \in Targets :
        /\ \A c \in ensure[t].joined : HasRun(c) /\ Current(c, t)
        /\ ensure[t].at <= generation
        /\ ensure[t].pc = "done" /\ ensure[t].outcome = "Ready" => Earned(t, ensure[t].at)

\* So is what the effects that await it are told of it, and what they show of that.
AnswersAreEarned ==
    /\ \A r \in told :
        /\ HasRun(r.to) /\ Current(r.to, r.from.target)
        /\ r.outcome = "Ready" => Earned(r.from.target, r.from.at)
        /\ r.from.at <= generation
    /\ \A h \in Hooks : hook[h].from.at <= generation
    /\ ReadyIsEarned

\* The effect that started an ensure has started no other, and nobody has heard of an
\* ensure that runs.
EnsuresAreNew ==
    /\ \A t \in Targets : ensure[t].pc # "off" =>
        /\ HasRun(ensure[t].by)
        /\ \A u \in Targets : ensure[u].pc # "off" /\ ensure[u].by = ensure[t].by => u = t
        /\ \A r \in told : r.from.by # ensure[t].by
        /\ \A h \in Hooks : hook[h].from.by # ensure[t].by
    /\ \A r \in told : HasRun(r.from.by)
    /\ \A h \in Hooks : HasRun(hook[h].from.by)

\* An effect awaits one ensure, hears of it once, and has not shown it yet.
AnswersComeOnce ==
    /\ \A t \in Targets : ensure[t].joined # {} => ensure[t].pc # "off"
    /\ \A t, u \in Targets : \A c \in ensure[t].joined \cap ensure[u].joined : t = u
    /\ \A r \in told :
        /\ \A t \in Targets : r.to \notin ensure[t].joined
        /\ \A q \in told : q.to = r.to => q = r
        /\ r.to[2] = hook[r.to[1]].effect => hook[r.to[1]].from.by # r.from.by

PLTypes ==
    /\ generation \in 0 .. MaxGeneration
    /\ proven \subseteq Requests
    /\ ensure \in [Targets -> Ensure]
    /\ told \subseteq Reaction
    /\ hook \in [Hooks -> Hook]

\* An ensure waits for the loader while the loader has it, or an answer for it.
LoadsWait ==
    \A t \in Targets : ensure[t].pc = "load" <=>
        t \in Waiting(pending) \cup Waiting(flight) \/ answer[t] # "none"

PLInv ==
    /\ LoaderInv /\ wake <= MaxWake /\ PLTypes /\ LoadsWait
    /\ EnsuresAreEarned /\ AnswersAreEarned /\ EnsuresAreNew /\ AnswersComeOnce

\* Every step of the client is a step of the loader or leaves it alone.
LEMMA StepOfLoader == [PLNext]_vars => [LoaderNext]_lvars
<1> SUFFICES ASSUME [PLNext]_vars PROVE [LoaderNext]_lvars
    OBVIOUS
<1>1. CASE UNCHANGED vars
    BY <1>1 DEF vars
<1>2. CASE RunLoader
    BY <1>2 DEF RunLoader, LoaderNext
<1>3. ASSUME NEW t \in Targets, EnsureStep(t) PROVE [LoaderNext]_lvars
    BY <1>3 DEF EnsureStep, TrustMark, Fetch, Answered, Land, SettlePromise, LoaderNext, Targets
<1>4. ASSUME NEW h \in Hooks, \/ RunEffect(h) \/ Retry(h) \/ \E t \in Targets : Navigate(h, t)
      PROVE  UNCHANGED lvars
    BY <1>4 DEF RunEffect, Retry, Navigate
<1>5. ASSUME NEW r \in told, React(r) PROVE UNCHANGED lvars
    BY <1>5 DEF React
<1>6. CASE Recovery
    BY <1>6 DEF Recovery
<1> QED
    BY <1>1, <1>2, <1>3, <1>4, <1>5, <1>6 DEF PLNext, Runs

-----------------------------------------------------------------------------
(* One ensure moves on *)

\* An ensure under way that keeps its starter and its callers.
Moves(t, e) ==
    /\ ensure' = [ensure EXCEPT ![t] = e]
    /\ ensure[t].pc # "off" /\ e.pc # "off"
    /\ e.by = ensure[t].by /\ e.joined = ensure[t].joined
    /\ e.at <= generation
    /\ e.pc = "done" /\ e.outcome = "Ready" => RequestOf[t] \in proven' \/ generation > e.at

\* It keeps everything but what the loader knows of it.
LEMMA EnsureMoves ==
    ASSUME PLInv, NEW t \in Targets, NEW e \in Ensure, Moves(t, e),
           proven \subseteq proven', proven' \subseteq Requests,
           UNCHANGED <<generation, told, hook>>
    PROVE  /\ PLTypes' /\ EnsuresAreEarned' /\ AnswersAreEarned' /\ EnsuresAreNew'
           /\ AnswersComeOnce'
<1>1. \A u \in Targets : ensure'[u] = IF u = t THEN e ELSE ensure[u]
    BY DEF Moves, PLInv, PLTypes
<1>2. /\ \A u \in Targets : /\ ensure'[u].by = ensure[u].by /\ ensure'[u].joined = ensure[u].joined
                            /\ ensure'[u].pc # "off" <=> ensure[u].pc # "off"
      /\ told' = told /\ hook' = hook /\ generation' = generation
    BY <1>1 DEF Moves
<1>3. PLTypes'
    BY DEF Moves, PLInv, PLTypes
<1>4. EnsuresAreEarned'
    BY <1>1, <1>2 DEF Moves, PLInv, EnsuresAreEarned, Earned, HasRun, Current
<1>5. AnswersAreEarned'
    BY <1>2 DEF PLInv, AnswersAreEarned, ReadyIsEarned, Earned, HasRun, Current
<1>6. EnsuresAreNew'
    BY <1>2 DEF PLInv, EnsuresAreNew, HasRun
<1>7. AnswersComeOnce'
    BY <1>2 DEF PLInv, AnswersComeOnce
<1> QED
    BY <1>3, <1>4, <1>5, <1>6, <1>7

\* Settling an ensure's outcome is such a move.
LEMMA Finishes ==
    ASSUME PLInv, NEW t \in Targets, NEW outcome \in Outcomes, Finished(t, outcome),
           ensure[t].pc # "off",
           outcome = "Ready" => RequestOf[t] \in proven'
    PROVE  \E e \in Ensure : Moves(t, e) /\ e.pc = "done"
<1> DEFINE e == [ensure[t] EXCEPT !.pc = "done", !.outcome = outcome, !.gen = 0,
                                  !.at = IF outcome = "Ready" THEN generation ELSE 0]
<1>1. ensure[t] \in Ensure /\ generation \in Nat
    BY PartialLoadsConstants DEF PLInv, PLTypes
<1>2. /\ e \in Ensure /\ e.pc = "done" /\ e.by = ensure[t].by /\ e.joined = ensure[t].joined
      /\ e.outcome = outcome /\ e.at = IF outcome = "Ready" THEN generation ELSE 0
    BY <1>1 DEF Ensure
<1>3. ensure' = [ensure EXCEPT ![t] = e]
    BY <1>1 DEF Finished, PLInv, PLTypes
<1> HIDE DEF e
<1>4. e.at <= generation
    BY <1>1, <1>2
<1>5. Moves(t, e)
    BY <1>2, <1>3, <1>4 DEF Moves
<1> QED
    BY <1>2, <1>5

\* What the loader has of an ensure is unchanged where it neither joins nor resumes.
LEMMA StillWaits ==
    ASSUME PLInv, NEW t \in Targets, NEW e \in Ensure, Moves(t, e), UNCHANGED lvars,
           ensure[t].pc # "load", e.pc # "load"
    PROVE  LoadsWait'
<1>1. \A u \in Targets : ensure'[u] = IF u = t THEN e ELSE ensure[u]
    BY DEF Moves, PLInv, PLTypes
<1> QED
    BY <1>1 DEF PLInv, LoadsWait, lvars, Waiting

LEMMA EnsureStepKeeps ==
    ASSUME PLInv, LoaderInv', NEW t \in Targets, TrustMark(t) \/ Fetch(t) \/ Answered(t) \/ Land(t)
    PROVE  PLInv'
<1>0. /\ ensure[t] \in Ensure /\ RequestOf[t] \in Requests /\ wake \in Nat
      /\ proven \subseteq Requests /\ ensure[t].at <= generation
    BY LoaderConstants DEF PLInv, PLTypes, Targets, LoaderInv, LoaderTypes, EnsuresAreEarned
<1>1. CASE TrustMark(t)
    <2>1. /\ ensure[t].pc = "plan" /\ Finished(t, Checked(t)) /\ UNCHANGED lvars
          /\ UNCHANGED <<generation, told, hook>> /\ proven' = proven
          /\ Checked(t) \in Outcomes
          /\ Checked(t) = "Ready" => RequestOf[t] \in proven
        BY <1>1 DEF TrustMark, Checked, Outcomes
    <2>2. PICK e \in Ensure : Moves(t, e) /\ e.pc = "done"
        BY <2>1, Finishes
    <2>3. LoadsWait'
        BY <2>1, <2>2, StillWaits
    <2> QED
        BY <1>0, <2>1, <2>2, <2>3, EnsureMoves DEF PLInv, lvars
<1>2. CASE Fetch(t)
    <2> DEFINE e == [ensure[t] EXCEPT !.pc = "load"]
    <2>1. /\ ensure[t].pc = "plan" /\ Load(t) /\ UNCHANGED <<generation, told, hook>>
          /\ proven' = proven /\ ensure' = [ensure EXCEPT ![t] = e]
        BY <1>2 DEF Fetch
    <2>2. e \in Ensure /\ e.pc = "load" /\ e.by = ensure[t].by /\ e.joined = ensure[t].joined
          /\ e.at = ensure[t].at
        BY <1>0 DEF Ensure
    <2> HIDE DEF e
    <2>3. Moves(t, e)
        BY <1>0, <2>1, <2>2 DEF Moves
    <2>4. wake' <= MaxWake
        BY <1>0, <2>1, LoaderConstants DEF Load, JoinWindow
    <2>5. Waiting(pending)' = Waiting(pending) \cup {t} /\ Waiting(flight)' = Waiting(flight)
        BY <2>1, Joined DEF Load, JoinWindow, Waiting, PLInv, LoaderInv, Targets
    <2>6. LoadsWait'
        <3>1. \A u \in Targets : ensure'[u] = IF u = t THEN e ELSE ensure[u]
            BY <2>1 DEF PLInv, PLTypes
        <3>2. answer' = answer
            BY <2>1 DEF Load
        <3> QED
            BY <2>2, <2>5, <3>1, <3>2 DEF PLInv, LoadsWait
    <2> QED
        BY <1>0, <2>1, <2>2, <2>3, <2>4, <2>6, EnsureMoves DEF PLInv
<1>3. CASE Answered(t)
    <2>1. /\ ensure[t].pc = "load" /\ Resume(t) /\ UNCHANGED <<generation, told, hook>>
          /\ proven' = proven
        BY <1>3 DEF Answered
    <2>2. PICK e \in Ensure : Moves(t, e) /\ e.pc # "load"
        <3>1. CASE Finished(t, "Failed") \/ Finished(t, "Forbidden")
            BY <2>1, <3>1, Finishes DEF Outcomes
        <3>2. CASE ensure' = [ensure EXCEPT ![t].pc = "land"]
            <4> DEFINE e == [ensure[t] EXCEPT !.pc = "land"]
            <4>1. e \in Ensure /\ e.pc = "land" /\ e.by = ensure[t].by /\ e.joined = ensure[t].joined
                  /\ e.at = ensure[t].at
                BY <1>0 DEF Ensure
            <4>2. ensure' = [ensure EXCEPT ![t] = e]
                BY <3>2
            <4> HIDE DEF e
            <4> QED
                BY <1>0, <2>1, <4>1, <4>2 DEF Moves
        <3> QED
            BY <1>3, <3>1, <3>2 DEF Answered
    <2>3. LoadsWait'
        <3>1. \A u \in Targets : ensure'[u] = IF u = t THEN e ELSE ensure[u]
            BY <2>2 DEF Moves, PLInv, PLTypes
        <3>2. /\ answer[t] # "none" /\ answer'[t] = "none"
              /\ \A u \in Targets : u # t => answer'[u] = answer[u]
              /\ UNCHANGED <<pending, flight>>
            BY <2>1 DEF Resume, PLInv, LoaderInv, LoaderTypes, Targets
        <3>3. t \notin Waiting(pending) \cup Waiting(flight)
            BY <3>2 DEF PLInv, LoaderInv, OneWindowEach, Targets
        <3> QED
            BY <2>2, <3>1, <3>2, <3>3 DEF PLInv, LoadsWait, Waiting
    <2>4. wake' = wake
        BY <2>1 DEF Resume
    <2> QED
        BY <1>0, <2>1, <2>2, <2>3, <2>4, EnsureMoves DEF PLInv
<1>4. CASE Land(t)
    <2>1. /\ ensure[t].pc = "land" /\ Finished(t, Checked(t)) /\ UNCHANGED lvars
          /\ UNCHANGED <<generation, told, hook>>
          /\ proven \subseteq proven' /\ proven' \subseteq Requests
          /\ Checked(t) \in Outcomes
          /\ Checked(t) = "Ready" => RequestOf[t] \in proven'
        BY <1>0, <1>4 DEF Land, Checked, Outcomes
    <2>2. PICK e \in Ensure : Moves(t, e) /\ e.pc = "done"
        BY <2>1, Finishes
    <2>3. LoadsWait'
        BY <2>1, <2>2, StillWaits
    <2> QED
        BY <1>0, <2>1, <2>2, <2>3, EnsureMoves DEF PLInv, lvars
<1> QED
    BY <1>1, <1>2, <1>3, <1>4
-----------------------------------------------------------------------------
(* The rest of the client *)

\* The promise of an ensure settles.
LEMMA SettleKeeps ==
    ASSUME PLInv, LoaderInv', NEW t \in Targets, SettlePromise(t)
    PROVE  PLInv'
<1> DEFINE From == [by |-> ensure[t].by, target |-> t, at |-> ensure[t].at]
           New == {[to |-> c, outcome |-> ensure[t].outcome, from |-> From] : c \in ensure[t].joined}
<1>1. /\ ensure[t].pc = "done" /\ told' = told \cup New /\ ensure' = [ensure EXCEPT ![t] = NoEnsure]
      /\ UNCHANGED <<lvars, generation, proven, hook>>
    BY DEF SettlePromise
<1>2. /\ ensure[t] \in Ensure /\ ensure[t].by \in Caller /\ ensure[t].joined \subseteq Caller
      /\ ensure[t].outcome \in Outcomes /\ ensure[t].at \in Nat
    BY DEF PLInv, PLTypes, Ensure
<1>3. /\ NoEnsure \in Ensure /\ NoEnsure.pc = "off" /\ NoEnsure.joined = {} /\ NoEnsure.at = 0
      /\ generation \in Nat
    BY PartialLoadsConstants DEF PLInv, PLTypes, NoEnsure, Ensure, Caller, Outcomes
<1>4. \A u \in Targets : ensure'[u] = IF u = t THEN NoEnsure ELSE ensure[u]
    BY <1>1 DEF PLInv, PLTypes
<1>5. \A r \in New : /\ r.to \in ensure[t].joined /\ r.outcome = ensure[t].outcome
                     /\ r.from = From /\ r.from.by = ensure[t].by /\ r.from.target = t
                     /\ r.from.at = ensure[t].at
                     /\ r \in Reaction
    BY <1>2 DEF Reaction
<1>6. \A r, q \in New : r.to = q.to => r = q
    OBVIOUS
<1> HIDE DEF From, New
<1>7. PLTypes'
    BY <1>1, <1>3, <1>5 DEF PLInv, PLTypes
<1>8. LoadsWait' /\ wake' <= MaxWake
    BY <1>1, <1>3, <1>4 DEF PLInv, LoadsWait, lvars, Waiting
<1>9. EnsuresAreEarned'
    BY <1>1, <1>3, <1>4 DEF PLInv, EnsuresAreEarned, HasRun, Current, Earned
<1>10. AnswersAreEarned'
    <2>1. ASSUME NEW r \in told'
          PROVE  /\ HasRun(r.to) /\ Current(r.to, r.from.target)
                 /\ r.outcome = "Ready" => Earned(r.from.target, r.from.at)
                 /\ r.from.at <= generation
        <3>1. CASE r \in told
            BY <3>1 DEF PLInv, AnswersAreEarned
        <3>2. CASE r \in New
            BY <1>1, <1>5, <3>2 DEF PLInv, EnsuresAreEarned
        <3> QED
            BY <1>1, <2>1, <3>1, <3>2
    <2> QED
        BY <1>1, <2>1 DEF PLInv, AnswersAreEarned, ReadyIsEarned, HasRun, Current, Earned
<1>11. EnsuresAreNew'
    <2>1. ASSUME NEW u \in Targets, ensure'[u].pc # "off"
          PROVE  /\ u # t /\ ensure'[u] = ensure[u]
                 /\ \A r \in told' : r.from.by # ensure[u].by
        BY <1>1, <1>3, <1>4, <1>5, <2>1 DEF PLInv, EnsuresAreNew
    <2>2. \A r \in told' : HasRun(r.from.by)
        BY <1>1, <1>5 DEF PLInv, EnsuresAreNew
    <2> QED
        BY <1>1, <2>1, <2>2 DEF PLInv, EnsuresAreNew, HasRun
<1>12. AnswersComeOnce'
    <2>1. \A u \in Targets : ensure'[u].joined # {} =>
            u # t /\ ensure'[u] = ensure[u] /\ ensure[u].pc # "off"
        BY <1>3, <1>4 DEF PLInv, AnswersComeOnce
    <2>2. ASSUME NEW r \in told'
          PROVE  /\ \A u \in Targets : r.to \notin ensure'[u].joined
                 /\ \A q \in told' : q.to = r.to => q = r
                 /\ r.to[2] = hook[r.to[1]].effect => hook[r.to[1]].from.by # r.from.by
        <3>1. CASE r \in told
            BY <1>1, <1>3, <1>4, <1>5, <3>1 DEF PLInv, AnswersComeOnce
        <3>2. CASE r \in New
            <4>1. \A u \in Targets : r.to \notin ensure'[u].joined
                BY <1>3, <1>4, <1>5, <3>2 DEF PLInv, AnswersComeOnce
            <4>2. \A q \in told' : q.to = r.to => q = r
                BY <1>1, <1>5, <1>6, <3>2 DEF PLInv, AnswersComeOnce
            <4>3. r.to[1] \in Hooks /\ hook[r.to[1]].from.by # r.from.by
                BY <1>1, <1>2, <1>5, <3>2 DEF PLInv, EnsuresAreNew, Caller
            <4> QED
                BY <4>1, <4>2, <4>3
        <3> QED
            BY <1>1, <2>2, <3>1, <3>2
    <2> QED
        BY <1>1, <2>1, <2>2 DEF PLInv, AnswersComeOnce
<1> QED
    BY <1>7, <1>8, <1>9, <1>10, <1>11, <1>12 DEF PLInv

\* A reaction runs: the effect it was for is still the last one, or nothing happens.
LEMMA ReactKeeps ==
    ASSUME PLInv, LoaderInv', NEW r \in told, React(r)
    PROVE  PLInv' /\ \A h \in Hooks :
            hook'[h].status # hook[h].status => hook'[h].from.by # hook[h].from.by
<1> DEFINE h == r.to[1]
           new == IF r.to[2] = hook[h].effect
                  THEN [hook[h] EXCEPT !.status = r.outcome, !.from = r.from] ELSE hook[h]
<1>1. /\ r \in Reaction /\ h \in Hooks /\ r.to \in Caller /\ hook[h] \in Hook
    BY DEF PLInv, PLTypes, Reaction, Caller
<1>2. /\ new \in Hook /\ new.target = hook[h].target /\ new.due = hook[h].due
      /\ new.effect = hook[h].effect
      /\ r.to[2] = hook[h].effect => new.status = r.outcome /\ new.from = r.from
      /\ r.to[2] # hook[h].effect => new = hook[h]
    BY <1>1 DEF Hook, Reaction
<1>3. /\ told' = told \ {r} /\ hook' = [hook EXCEPT ![h] = new]
      /\ UNCHANGED <<lvars, generation, proven, ensure>>
    BY <1>1 DEF React, PLInv, PLTypes
<1> HIDE DEF new
<1>4. \A g \in Hooks : hook'[g] = IF g = h THEN new ELSE hook[g]
    BY <1>3 DEF PLInv, PLTypes
<1>5. \A g \in Hooks : /\ hook'[g].target = hook[g].target /\ hook'[g].due = hook[g].due
                       /\ hook'[g].effect = hook[g].effect
    BY <1>2, <1>4
<1>6. \A c \in Caller : (HasRun(c))' = HasRun(c) /\ \A t \in Targets : Current(c, t)' = Current(c, t)
    BY <1>5 DEF HasRun, Current, Caller
<1>7. PLTypes'
    BY <1>2, <1>3 DEF PLInv, PLTypes
<1>8. LoadsWait' /\ wake' <= MaxWake
    BY <1>3 DEF PLInv, LoadsWait, lvars, Waiting
<1>9. EnsuresAreEarned'
    BY <1>3, <1>6 DEF PLInv, PLTypes, Ensure, EnsuresAreEarned, Earned
<1>10. AnswersAreEarned'
    <2>1. ReadyIsEarned'
        <3>1. ASSUME r.to[2] = hook[h].effect, r.outcome = "Ready", ~hook[h].due
              PROVE  /\ r.from.target = hook[h].target
                     /\ RequestOf[hook[h].target] \in proven \/ generation > r.from.at
            BY <3>1 DEF PLInv, AnswersAreEarned, Current, Earned
        <3> QED
            BY <1>2, <1>3, <1>4, <1>5, <3>1 DEF PLInv, AnswersAreEarned, ReadyIsEarned
    <2>2. \A q \in told : q.to \in Caller /\ q.from.target \in Targets
        BY DEF PLInv, PLTypes, Reaction
    <2>3. ASSUME NEW g \in Hooks PROVE hook'[g].from.at <= generation
        BY <1>2, <1>4, <2>3 DEF PLInv, AnswersAreEarned
    <2> QED
        BY <1>3, <1>6, <2>1, <2>2, <2>3 DEF PLInv, AnswersAreEarned, Earned
<1>11. EnsuresAreNew'
    <2>1. \A q \in told : q.from.by \in Caller
        BY DEF PLInv, PLTypes, Reaction
    <2>2. \A g \in Hooks : hook'[g].from.by \in Caller /\ (hook'[g].from = hook[g].from \/ hook'[g].from = r.from)
        BY <1>2, <1>4, <1>7 DEF PLTypes, Hook
    <2>3. \A t \in Targets : ensure[t].by \in Caller
        BY DEF PLInv, PLTypes, Ensure
    <2> QED
        BY <1>3, <1>6, <2>1, <2>2, <2>3 DEF PLInv, EnsuresAreNew
<1>12. AnswersComeOnce'
    <2>1. ASSUME NEW q \in told', q.to[2] = hook[q.to[1]].effect
          PROVE  hook'[q.to[1]].from.by # q.from.by
        <3>1. q \in told /\ q # r /\ q.to \in Caller /\ q.to[1] \in Hooks
            BY <1>3 DEF PLInv, PLTypes, Reaction, Caller
        <3>2. q.to # r.to
            BY <3>1 DEF PLInv, AnswersComeOnce
        <3>3. q.to[1] = h => r.to[2] # hook[h].effect
            BY <1>1, <2>1, <3>1, <3>2 DEF Caller
        <3>4. hook'[q.to[1]].from = hook[q.to[1]].from
            BY <1>2, <1>4, <3>1, <3>3
        <3> QED
            BY <2>1, <3>1, <3>4 DEF PLInv, AnswersComeOnce
    <2>2. \A q \in told' : q \in told /\ q.to[1] \in Hooks
        BY <1>3 DEF PLInv, PLTypes, Reaction, Caller
    <2>3. \A q \in told' : hook'[q.to[1]].effect = hook[q.to[1]].effect
        BY <1>5, <2>2
    <2> QED
        BY <1>3, <2>1, <2>2, <2>3 DEF PLInv, AnswersComeOnce
<1>13. \A g \in Hooks : hook'[g].status # hook[g].status => hook'[g].from.by # hook[g].from.by
    BY <1>2, <1>4 DEF PLInv, AnswersComeOnce
<1> QED
    BY <1>3, <1>7, <1>8, <1>9, <1>10, <1>11, <1>12, <1>13 DEF PLInv
\* A commit whose effect has not run shows what was shown before, and is owed nothing.
LEMMA CommitKeeps ==
    ASSUME PLInv, LoaderInv', NEW h \in Hooks, NEW new \in Hook, new.due,
           new.effect = hook[h].effect, new.status = hook[h].status, new.from = hook[h].from,
           hook' = [hook EXCEPT ![h] = new],
           UNCHANGED <<lvars, generation, proven, ensure, told>>
    PROVE  PLInv'
<1>1. \A g \in Hooks : hook'[g] = IF g = h THEN new ELSE hook[g]
    BY DEF PLInv, PLTypes
<1>2. \A g \in Hooks : /\ hook'[g].effect = hook[g].effect /\ hook'[g].from = hook[g].from
                       /\ hook'[g].status = hook[g].status
                       /\ ~hook'[g].due => hook'[g] = hook[g]
    BY <1>1
<1>3. \A c \in Caller : c[1] \in Hooks /\ c[2] \in Nat
    BY DEF Caller
<1>4. \A c \in Caller : /\ (HasRun(c))' = HasRun(c)
                        /\ \A t \in Targets : Current(c, t) => Current(c, t)'
    BY <1>2, <1>3 DEF HasRun, Current
<1>5. /\ \A r \in told : r.to \in Caller /\ r.from.by \in Caller /\ r.from.target \in Targets
      /\ \A t \in Targets : ensure[t].by \in Caller /\ ensure[t].joined \subseteq Caller
      /\ \A g \in Hooks : hook[g].from.by \in Caller
    BY DEF PLInv, PLTypes, Reaction, Ensure, Hook
<1>6. PLTypes'
    BY DEF PLInv, PLTypes
<1>7. LoadsWait' /\ wake' <= MaxWake
    BY DEF PLInv, LoadsWait, lvars, Waiting
<1>8. EnsuresAreEarned'
    BY <1>4, <1>5 DEF PLInv, EnsuresAreEarned, Earned
<1>9. AnswersAreEarned'
    <2>1. ReadyIsEarned'
        BY <1>2 DEF PLInv, AnswersAreEarned, ReadyIsEarned
    <2> QED
        BY <1>2, <1>4, <1>5, <2>1 DEF PLInv, AnswersAreEarned, Earned
<1>10. EnsuresAreNew'
    BY <1>2, <1>4, <1>5 DEF PLInv, EnsuresAreNew
<1>11. AnswersComeOnce'
    BY <1>2, <1>3, <1>5 DEF PLInv, AnswersComeOnce
<1> QED
    BY <1>6, <1>7, <1>8, <1>9, <1>10, <1>11 DEF PLInv

\* The effect runs: it joins the promise in flight or starts an ensure.
LEMMA RunEffectKeeps ==
    ASSUME PLInv, LoaderInv', NEW h \in Hooks, RunEffect(h),
           NEW n \in Nat, n = hook[h].effect + 1, NEW t \in Targets, t = hook[h].target
    PROVE  PLInv'
<1> DEFINE c == <<h, n>>
           Ran(d) == d[2] <= hook'[d[1]].effect
           Shows(d, u) ==
               d[2] = hook'[d[1]].effect /\ ~hook'[d[1]].due => hook'[d[1]].target = u
           new == [hook[h] EXCEPT !.due = FALSE, !.effect = n, !.status = "Loading"]
           e == LoadBy(t, c)
<1>1. /\ hook[h].due /\ hook' = [hook EXCEPT ![h] = new] /\ ensure' = [ensure EXCEPT ![t] = e]
      /\ UNCHANGED <<lvars, generation, proven, told>>
    BY DEF RunEffect, PLInv, PLTypes
<1>2. /\ hook[h] \in Hook /\ hook[h].effect \in Nat /\ c \in Caller
      /\ ensure[t] \in Ensure /\ generation \in Nat
    BY PartialLoadsConstants DEF PLInv, PLTypes, Hook, Caller
<1>3. /\ new \in Hook /\ new.target = t /\ new.due = FALSE /\ new.effect = n
      /\ new.status = "Loading" /\ new.from = hook[h].from
    BY <1>2 DEF Hook
<1>4. NoEnsure \in Ensure /\ NoEnsure.pc = "off" /\ NoEnsure.joined = {} /\ NoEnsure.at = 0
    BY SMTT(40), PartialLoadsConstants DEF NoEnsure, Ensure, Caller, Outcomes
<1>5. /\ e \in Ensure /\ e.pc # "off"
      /\ ensure[t].pc # "off" => /\ e.joined = ensure[t].joined \cup {c} /\ e.by = ensure[t].by
                                 /\ e.pc = ensure[t].pc /\ e.at = ensure[t].at
                                 /\ e.outcome = ensure[t].outcome
      /\ ensure[t].pc = "off" => e.joined = {c} /\ e.by = c /\ e.pc = "plan"
                                 /\ e.at = 0
    BY <1>2, <1>4 DEF LoadBy, Ensure
<1> HIDE DEF new, e
<1>6. /\ \A g \in Hooks : hook'[g] = IF g = h THEN new ELSE hook[g]
      /\ \A u \in Targets : ensure'[u] = IF u = t THEN e ELSE ensure[u]
    BY <1>1, <1>2 DEF PLInv, PLTypes
<1>7. /\ \A r \in told : r.to \in Caller /\ r.from.by \in Caller /\ r.from.target \in Targets
      /\ \A u \in Targets : ensure[u].by \in Caller /\ ensure[u].joined \subseteq Caller
      /\ \A g \in Hooks : hook[g].from.by \in Caller
    BY DEF PLInv, PLTypes, Reaction, Ensure, Hook
<1>8. \A d \in Caller : /\ d[1] \in Hooks /\ d[2] \in Nat /\ hook[d[1]].effect \in Nat
                        /\ d = <<d[1], d[2]>>
    BY DEF Caller, PLInv, PLTypes, Hook
<1>9. ASSUME NEW d \in Caller, HasRun(d)
      PROVE  /\ Ran(d) /\ d # c
             /\ d[2] = hook'[d[1]].effect => d[1] # h
             /\ \A u \in Targets : Current(d, u) => Shows(d, u)
    <2>1. /\ hook'[d[1]] = (IF d[1] = h THEN new ELSE hook[d[1]])
          /\ d[2] <= hook[d[1]].effect /\ d[2] \in Nat /\ hook[d[1]].effect \in Nat
        BY <1>6, <1>8, <1>9 DEF HasRun
    <2>2. CASE d[1] = h
        <3>1. d[2] < n /\ hook'[d[1]].effect = n
            BY <1>2, <1>3, <2>1, <2>2
        <3> QED
            BY <1>2, <2>1, <2>2, <3>1 DEF HasRun, Current
    <2>3. CASE d[1] # h
        BY <2>1, <2>3 DEF HasRun, Current
    <2> QED
        BY <2>2, <2>3
<1>10. Ran(c) /\ Shows(c, t) /\ ~HasRun(c)
    BY <1>2, <1>3, <1>6 DEF HasRun, Current
<1>11. PLTypes'
    BY <1>1, <1>3, <1>5 DEF PLInv, PLTypes
<1>12. LoadsWait' /\ wake' <= MaxWake
    <2>1. \A u \in Targets : ensure'[u].pc = "load" <=> ensure[u].pc = "load"
        BY <1>5, <1>6
    <2> QED
        BY <1>1, <2>1 DEF PLInv, LoadsWait, lvars, Waiting
<1>13. \A u \in Targets : \A d \in ensure'[u].joined :
            \/ d \in ensure[u].joined /\ d \in Caller /\ HasRun(d)
            \/ u = t /\ d = c
    <2>1. \A u \in Targets : \A d \in ensure[u].joined : HasRun(d) /\ d \in Caller
        BY <1>7 DEF PLInv, EnsuresAreEarned
    <2>2. \A u \in Targets : u # t => ensure'[u].joined = ensure[u].joined
        BY <1>6
    <2>3. ensure[t].pc = "off" => ensure'[t].joined = {c}
        BY <1>2, <1>5, <1>6
    <2>4. ensure[t].pc # "off" => ensure'[t].joined = ensure[t].joined \cup {c}
        BY <1>2, <1>5, <1>6
    <2> QED
        BY <2>1, <2>2, <2>3, <2>4
<1>14. EnsuresAreEarned'
    <2>1. ASSUME NEW u \in Targets, NEW d \in ensure'[u].joined
          PROVE  Ran(d) /\ Shows(d, u)
        <3>1. CASE d \in ensure[u].joined /\ d \in Caller /\ HasRun(d)
            BY <1>9, <3>1 DEF PLInv, EnsuresAreEarned
        <3> QED
            BY <1>10, <1>13, <3>1
    <2>2. ASSUME NEW u \in Targets, ensure'[u].pc = "done", ensure'[u].outcome = "Ready"
          PROVE  RequestOf[u] \in proven' \/ generation' > ensure'[u].at
        <3>1. ensure[u].pc = "done" /\ ensure[u].outcome = "Ready" /\ ensure'[u].at = ensure[u].at
            BY <1>5, <1>6, <2>2
        <3> QED
            BY <1>1, <3>1 DEF PLInv, EnsuresAreEarned, Earned
    <2>3. ASSUME NEW u \in Targets PROVE ensure'[u].at <= generation
        BY <1>2, <1>5, <1>6, <2>3 DEF PLInv, EnsuresAreEarned
    <2> QED
        BY <1>1, <2>1, <2>2, <2>3 DEF EnsuresAreEarned, HasRun, Current, Earned
<1>15. AnswersAreEarned'
    <2>1. ReadyIsEarned'
        BY <1>1, <1>3, <1>6 DEF PLInv, AnswersAreEarned, ReadyIsEarned
    <2>2. \A g \in Hooks : hook'[g].from = hook[g].from
        BY <1>3, <1>6
    <2> QED
        BY <1>1, <1>7, <1>9, <2>1, <2>2 DEF PLInv, AnswersAreEarned, Earned, HasRun, Current
<1>16. EnsuresAreNew'
    <2>1. \A r \in told' : Ran(r.from.by) /\ r.from.by # c
        BY <1>1, <1>7, <1>9 DEF PLInv, EnsuresAreNew
    <2>2. \A g \in Hooks : /\ hook'[g].from = hook[g].from
                           /\ Ran(hook[g].from.by) /\ hook[g].from.by # c
        BY <1>3, <1>6, <1>7, <1>9 DEF PLInv, EnsuresAreNew
    <2>3. ASSUME NEW u \in Targets, ensure'[u].pc # "off"
          PROVE  \/ /\ ensure[u].pc # "off" /\ ensure'[u].by = ensure[u].by
                    /\ Ran(ensure[u].by) /\ ensure[u].by # c
                 \/ u = t /\ ensure'[u].by = c /\ ensure[t].pc = "off"
        BY <1>2, <1>5, <1>6, <1>7, <1>9, <2>3 DEF PLInv, EnsuresAreNew
    <2>4. ASSUME NEW u \in Targets, ensure'[u].pc # "off"
          PROVE  /\ Ran(ensure'[u].by)
                 /\ \A v \in Targets : ensure'[v].pc # "off" /\ ensure'[v].by = ensure'[u].by => v = u
                 /\ \A r \in told' : r.from.by # ensure'[u].by
                 /\ \A g \in Hooks : hook'[g].from.by # ensure'[u].by
        <3>1. CASE u = t /\ ensure'[u].by = c /\ ensure[t].pc = "off"
            BY <1>10, <2>1, <2>2, <2>3, <3>1
        <3>2. CASE /\ ensure[u].pc # "off" /\ ensure'[u].by = ensure[u].by
                   /\ Ran(ensure[u].by) /\ ensure[u].by # c
            <4>1. \A v \in Targets : ensure'[v].pc # "off" /\ ensure'[v].by = ensure'[u].by => v = u
                BY <2>3, <3>2 DEF PLInv, EnsuresAreNew
            <4> QED
                BY <1>1, <2>2, <3>2, <4>1 DEF PLInv, EnsuresAreNew
        <3> QED
            BY <2>3, <2>4, <3>1, <3>2
    <2> QED
        BY <2>1, <2>2, <2>4 DEF EnsuresAreNew, HasRun
<1>17. AnswersComeOnce'
    <2>1. \A u \in Targets : ensure'[u].joined # {} => ensure'[u].pc # "off"
        BY <1>5, <1>6 DEF PLInv, AnswersComeOnce
    <2>2. ASSUME NEW u \in Targets, NEW v \in Targets, NEW d \in ensure'[u].joined \cap ensure'[v].joined
          PROVE  u = v
        <3>1. ~HasRun(c)
            BY <1>10
        <3> QED
            BY <1>13, <2>2, <3>1 DEF PLInv, AnswersComeOnce
    <2>3. ASSUME NEW r \in told'
          PROVE  /\ \A u \in Targets : r.to \notin ensure'[u].joined
                 /\ \A q \in told' : q.to = r.to => q = r
                 /\ r.to[2] = hook'[r.to[1]].effect => hook'[r.to[1]].from.by # r.from.by
        <3>1. r \in told /\ r.to \in Caller /\ HasRun(r.to)
            BY <1>1, <1>7 DEF PLInv, AnswersAreEarned
        <3>2. r.to # c /\ (r.to[2] = hook'[r.to[1]].effect => r.to[1] # h)
            BY <1>9, <3>1
        <3>3. r.to[2] = hook'[r.to[1]].effect => hook'[r.to[1]] = hook[r.to[1]]
            BY <1>6, <1>8, <3>1, <3>2
        <3> QED
            BY <1>1, <1>13, <3>1, <3>2, <3>3 DEF PLInv, AnswersComeOnce
    <2> QED
        BY <2>1, <2>2, <2>3 DEF AnswersComeOnce
<1> QED
    BY <1>1, <1>11, <1>12, <1>14, <1>15, <1>16, <1>17 DEF PLInv
\* The loader's own steps: what was asked for stays asked for until it is answered.
LEMMA FetcherKeepsLoads ==
    ASSUME PLInv, LoaderInv', RunLoader
    PROVE  PLInv'
<1>1. Fetcher /\ UNCHANGED pvars
    BY DEF RunLoader
<1>2. LoadsWait' /\ wake' <= MaxWake
    <2>0. wake \in Nat /\ wake <= MaxWake
        BY DEF PLInv, LoaderInv, LoaderTypes
    <2>1. CASE Wake
        BY <1>1, <2>0, <2>1, LoaderConstants DEF Wake, PLInv, LoadsWait, Waiting, pvars
    <2>2. CASE Flush
        <3>1. Waiting(pending)' = {} /\ Waiting(flight)' = Waiting(pending)
            BY <2>2, NobodyWaits DEF Flush, Waiting
        <3>2. Waiting(flight) = {}
            BY <2>2 DEF Flush, PLInv, LoaderInv, OneWindowEach
        <3> QED
            BY <1>1, <2>0, <2>2, <3>1, <3>2 DEF Flush, PLInv, LoadsWait, pvars
    <2>3. ASSUME NEW outcome, Settle(outcome), \A c \in Callers : outcome[c] # "none"
          PROVE  LoadsWait' /\ wake' <= MaxWake
        <3>1. Waiting(flight)' = {} /\ Waiting(pending)' = Waiting(pending) /\ wake' = wake
            BY <2>3, NobodyWaits DEF Settle, Waiting
        <3>2. \A t \in Targets : answer'[t] = IF t \in Waiting(flight) THEN outcome[t] ELSE answer[t]
            BY <2>3 DEF Settle, Targets
        <3>3. \A t \in Targets : ensure'[t] = ensure[t]
            BY <1>1 DEF pvars
        <3> QED
            BY <2>0, <2>3, <3>1, <3>2, <3>3 DEF PLInv, LoadsWait, Targets
    <2>4. CASE FetchFails
        BY <2>3, <2>4 DEF FetchFails
    <2>5. CASE FetchAnswers
        BY <2>3, <2>5 DEF FetchAnswers
    <2> QED
        BY <1>1, <2>1, <2>2, <2>4, <2>5 DEF Fetcher
<1>3. PLTypes' /\ EnsuresAreEarned'
    BY <1>1 DEF pvars, PLInv, PLTypes, EnsuresAreEarned, HasRun, Current, Earned
<1>4. AnswersAreEarned'
    BY <1>1 DEF pvars, PLInv, AnswersAreEarned, ReadyIsEarned, HasRun, Current, Earned
<1>5. EnsuresAreNew' /\ AnswersComeOnce'
    BY <1>1 DEF pvars, PLInv, EnsuresAreNew, AnswersComeOnce, HasRun
<1> QED
    BY <1>2, <1>3, <1>4, <1>5 DEF PLInv

\* A recovery: what was earned before it is older than it.
LEMMA RecoveryKeepsLoads ==
    ASSUME PLInv, LoaderInv', Recovery
    PROVE  PLInv'
<1>1. /\ generation < MaxGeneration /\ generation' = generation + 1 /\ proven' = {}
      /\ UNCHANGED <<lvars, ensure, told, hook>>
    BY DEF Recovery
<1>2. generation \in Nat /\ MaxGeneration \in Nat
    BY PartialLoadsConstants DEF PLInv, PLTypes
<1>3. /\ \A t \in Targets : ensure[t].at \in Nat
      /\ \A r \in told : r.from.at \in Nat
      /\ \A h \in Hooks : hook[h].from.at \in Nat
      /\ \A t \in Targets : ensure[t].at <= generation
      /\ \A r \in told : r.from.at <= generation
      /\ \A h \in Hooks : hook[h].from.at <= generation
    BY DEF PLInv, PLTypes, Ensure, Reaction, Hook, EnsuresAreEarned, AnswersAreEarned
<1>4. PLTypes'
    BY <1>1, <1>2 DEF PLInv, PLTypes
<1>5. LoadsWait' /\ wake' <= MaxWake
    BY <1>1 DEF PLInv, LoadsWait, lvars, Waiting
<1>6. EnsuresAreEarned'
    BY <1>1, <1>2, <1>3 DEF PLInv, EnsuresAreEarned, HasRun, Current, Earned
<1>7. AnswersAreEarned'
    BY <1>1, <1>2, <1>3 DEF PLInv, AnswersAreEarned, ReadyIsEarned, HasRun, Current, Earned
<1>8. EnsuresAreNew' /\ AnswersComeOnce'
    BY <1>1 DEF PLInv, EnsuresAreNew, AnswersComeOnce, HasRun
<1> QED
    BY <1>4, <1>5, <1>6, <1>7, <1>8 DEF PLInv

-----------------------------------------------------------------------------
(* The theorems *)

\* Every hook has mounted and none has run its effect.
LEMMA LoadsStart == PLInit => PLInv
<1> SUFFICES ASSUME PLInit PROVE PLInv
    OBVIOUS
<1>1. /\ NoEnsure \in Ensure /\ NoEnsure.pc = "off" /\ NoEnsure.joined = {} /\ NoEnsure.at = 0
      /\ NoEnsure.by \in Caller /\ NoEnsure.by[2] = 0
    BY PartialLoadsConstants DEF NoEnsure, Ensure, Caller, Outcomes
<1>2. LoaderInv /\ Waiting(pending) = {} /\ Waiting(flight) = {} /\ wake <= MaxWake
      /\ \A t \in Targets : answer[t] = "none"
    BY LoaderStarts, NobodyWaits, LoaderConstants DEF PLInit, LoaderInit, Targets
<1>3. \A h \in Hooks : /\ hook[h] \in Hook /\ hook[h].effect = 0 /\ hook[h].due
                       /\ hook[h].from.by = NoEnsure.by /\ hook[h].from.at = 0
    BY <1>1, PartialLoadsConstants DEF PLInit, Hook, Outcomes
<1>4. PLTypes
    BY <1>1, <1>3, PartialLoadsConstants DEF PLInit, PLTypes
<1>5. LoadsWait
    BY <1>1, <1>2 DEF PLInit, LoadsWait
<1>6. EnsuresAreEarned
    BY <1>1 DEF PLInit, EnsuresAreEarned
<1>7. AnswersAreEarned
    BY <1>3 DEF PLInit, AnswersAreEarned, ReadyIsEarned
<1>8. EnsuresAreNew
    BY <1>1, <1>3 DEF PLInit, EnsuresAreNew, HasRun, Caller
<1>9. AnswersComeOnce
    BY <1>1 DEF PLInit, AnswersComeOnce
<1> QED
    BY <1>2, <1>4, <1>5, <1>6, <1>7, <1>8, <1>9 DEF PLInv

\* Every step of the client keeps the invariant, and tells a hook only what is new.
LEMMA LoadsKeep ==
    ASSUME PLInv, [PLNext]_vars
    PROVE  /\ PLInv'
           /\ \A h \in Hooks : hook'[h].status # hook[h].status /\ hook'[h].status # "Loading" =>
                hook'[h].from.by # hook[h].from.by
<1> DEFINE NewsOnly == \A h \in Hooks :
            hook'[h].status # hook[h].status /\ hook'[h].status # "Loading" =>
                hook'[h].from.by # hook[h].from.by
<1>0. LoaderInv'
    BY StepOfLoader, LoaderKeeps DEF PLInv
<1>1. CASE UNCHANGED vars
    <2>1. UNCHANGED <<lvars, generation, proven, ensure, told, hook>>
        BY <1>1 DEF vars, pvars
    <2>2. PLTypes' /\ LoadsWait' /\ wake' <= MaxWake
        BY <2>1 DEF PLInv, PLTypes, LoadsWait, lvars, Waiting
    <2>3. EnsuresAreEarned' /\ AnswersAreEarned'
        BY <2>1 DEF PLInv, EnsuresAreEarned, AnswersAreEarned, ReadyIsEarned, HasRun, Current, Earned
    <2>4. EnsuresAreNew' /\ AnswersComeOnce'
        BY <2>1 DEF PLInv, EnsuresAreNew, AnswersComeOnce, HasRun
    <2> QED
        BY <1>0, <2>1, <2>2, <2>3, <2>4 DEF PLInv
<1>2. CASE RunLoader
    BY <1>0, <1>2, FetcherKeepsLoads DEF RunLoader, pvars
<1>3. ASSUME NEW h \in Hooks, RunEffect(h) PROVE PLInv' /\ NewsOnly
    <2>1. hook[h] \in Hook /\ hook[h].effect + 1 \in Nat /\ hook[h].target \in Targets
        BY DEF PLInv, PLTypes, Hook
    <2>2. \A g \in Hooks : g # h => hook'[g] = hook[g]
        BY <1>3 DEF RunEffect, PLInv, PLTypes
    <2>3. hook'[h].status = "Loading"
        BY <1>3, <2>1 DEF RunEffect, PLInv, PLTypes, Hook
    <2> QED
        BY <1>0, <1>3, <2>1, <2>2, <2>3, RunEffectKeeps
<1>4. ASSUME NEW t \in Targets, EnsureStep(t) PROVE PLInv' /\ NewsOnly
    <2>1. hook' = hook
        BY <1>4 DEF EnsureStep, TrustMark, Fetch, Answered, Land, SettlePromise
    <2> QED
        BY <1>0, <1>4, <2>1, EnsureStepKeeps, SettleKeeps DEF EnsureStep
<1>5. ASSUME NEW r \in told, React(r) PROVE PLInv' /\ NewsOnly
    BY <1>0, <1>5, ReactKeeps
<1>6. CASE Recovery
    BY <1>0, <1>6, RecoveryKeepsLoads DEF Recovery
<1>7. ASSUME NEW h \in Hooks, Retry(h) \/ \E t \in Targets : Navigate(h, t) PROVE PLInv' /\ NewsOnly
    <2>0. hook[h] \in Hook
        BY DEF PLInv, PLTypes
    <2>1. PICK new \in Hook :
            /\ new.due /\ new.effect = hook[h].effect /\ new.status = hook[h].status
            /\ new.from = hook[h].from /\ hook' = [hook EXCEPT ![h] = new]
            /\ UNCHANGED <<lvars, generation, proven, ensure, told>>
        <3>1. CASE Retry(h)
            <4> DEFINE new == [hook[h] EXCEPT !.due = TRUE]
            <4>1. /\ new \in Hook /\ new.due /\ new.effect = hook[h].effect
                  /\ new.status = hook[h].status /\ new.from = hook[h].from
                BY <2>0 DEF Hook
            <4>2. /\ hook' = [hook EXCEPT ![h] = new]
                  /\ UNCHANGED <<lvars, generation, proven, ensure, told>>
                BY <3>1 DEF Retry
            <4> QED
                BY <4>1, <4>2
        <3>2. ASSUME NEW t \in Targets, Navigate(h, t)
              PROVE  \E new \in Hook :
                        /\ new.due /\ new.effect = hook[h].effect /\ new.status = hook[h].status
                        /\ new.from = hook[h].from /\ hook' = [hook EXCEPT ![h] = new]
                        /\ UNCHANGED <<lvars, generation, proven, ensure, told>>
            <4> DEFINE new == [hook[h] EXCEPT !.target = t, !.due = TRUE]
            <4>1. /\ new \in Hook /\ new.due /\ new.effect = hook[h].effect
                  /\ new.status = hook[h].status /\ new.from = hook[h].from
                BY <2>0 DEF Hook
            <4>2. /\ hook' = [hook EXCEPT ![h] = new]
                  /\ UNCHANGED <<lvars, generation, proven, ensure, told>>
                BY <2>0, <3>2 DEF Navigate, PLInv, PLTypes
            <4> QED
                BY <4>1, <4>2
        <3> QED
            BY <1>7, <3>1, <3>2
    <2>2. NewsOnly
        BY <2>1 DEF PLInv, PLTypes
    <2> QED
        BY <1>0, <2>1, <2>2, CommitKeeps
<1> QED
    BY <1>1, <1>2, <1>3, <1>4, <1>5, <1>6, <1>7 DEF PLNext, Runs

\* The promise map, the ensures and the loader under them keep their types, and an ensure
\* is at its load exactly while the loader has it or an answer for it (inFlight of
\* define-collection.ts, client/batch-loader.ts).
THEOREM PartialLoadsTyped == PLSpec => []PLTypeOK
<1>1. PLInv => PLTypeOK
    BY LoaderConstants DEF PLInv, LoaderInv, LoaderTypes, PLTypes, LoadsWait, PLTypeOK
<1>2. PLInv /\ [PLNext]_vars => PLInv'
    BY LoadsKeep
<1> QED
    BY <1>1, <1>2, LoadsStart, PTL DEF PLSpec

\* What is on screen as Ready is that subset, proven since the last recovery: neither the
\* answer to an earlier value or attempt nor a load from before a recovery is shown
\* (the cancelled flag of usePartialLoad, checkGeneration of ensureSubset).
THEOREM ReadyIsTheSubsetOnScreen == PLSpec => []ReadyIsEarned
<1>1. PLInv => ReadyIsEarned
    BY DEF PLInv, AnswersAreEarned
<1>2. PLInv /\ [PLNext]_vars => PLInv'
    BY LoadsKeep
<1> QED
    BY <1>1, <1>2, LoadsStart, PTL DEF PLSpec

\* Every answer a hook shows comes from a load it has not shown before: the promise that
\* failed is gone from the map before anybody can ask again (loadFor's `finally` in
\* define-collection.ts).
THEOREM RetriesAskAgain == PLSpec => AnswersAreNew
<1>1. PLInv /\ [PLNext]_vars => PLInv'
    BY LoadsKeep
<1>2. PLInv /\ [PLNext]_vars =>
        [\A h \in Hooks : hook'[h].status # hook[h].status /\ hook'[h].status # "Loading" =>
            hook'[h].from.by # hook[h].from.by]_vars
    BY LoadsKeep
<1> QED
    BY <1>1, <1>2, LoadsStart, PTL DEF PLSpec, AnswersAreNew

\* The client uses the loader as the loader's callers may: all it promises them, it
\* promises here.
THEOREM ClientUsesTheLoader == PLSpec => []NoLostWake /\ Serves
<1>1. PLInit => LoaderInit
    BY DEF PLInit
<1>2. PLSpec => LoaderSpec
    BY <1>1, StepOfLoader, PTL DEF PLSpec, LoaderSpec
<1> QED
    BY <1>2, NoLoadLeftBehind, LoaderServes, PTL
==============================================================================
