-------------------------- MODULE CollectionRegistry --------------------------
(* The lifetimes of collection instances: the registry of the client          *)
(* (registry/collection-registry.ts), the drain and the finalizer an instance *)
(* is built with (define-collection.ts), and teardowns that overlap remounts  *)
(* and each other.                                                            *)
EXTENDS Naturals, Sequences, FiniteSets

CONSTANTS
    Keys,           \* collection keys
    ScopeOf,        \* the scope of a key, or NoScope for a global one
    Calls,          \* teardowns that may be under way at a time
    MaxInstances,   \* bound of the model: instances built
    Windows         \* the race windows of the code that are left open

NoScope == "global"
NoInstance == 0

\* Two teardowns that overlap: the later one evicts an entry the earlier one has
\* listed, the app mounts the key again, and the earlier one deletes the new entry by
\* its key.  The window is closed by a guard on the mount.
RegistryWindows == {"late-evict"}

ASSUME RegistryConstants ==
    /\ ScopeOf \in [Keys -> STRING]
    /\ MaxInstances \in Nat
    /\ Windows \subseteq RegistryWindows

VARIABLES
    entries,        \* the map from key to instance
    instances,      \* every instance built, in order
    call            \* per teardown what it has listed and where it waits

rvars == <<entries, instances, call>>

\* The child scope of an instance, its drain's fiber, and the collection itself.
Instance == [key : Keys, scope : {"open", "closed"},
             drain : {"running", "interrupted", "done"}, collection : {"live", "clean"}]

Ids == 1 .. Len(instances)

\* made: an effect that has listed its entries and does not run yet.
Call == [pc : {"idle", "made", "running"}, listed : SUBSET (Keys \X Nat), at : Nat,
         closed : SUBSET Nat]
NoCall == [pc |-> "idle", listed |-> {}, at |-> NoInstance, closed |-> {}]

RInit ==
    /\ entries = [k \in Keys |-> NoInstance]
    /\ instances = <<>>
    /\ call = [c \in Calls |-> NoCall]

\* A teardown that is running and waits for no finalizer has the thread: listing,
\* resuming and evicting up to the next await are one synchronous run.
HasThread(c) == call[c].pc = "running" /\ call[c].at = NoInstance
Quiet == \A c \in Calls : ~HasThread(c)

-----------------------------------------------------------------------------
(* getOrCreate *)

\* Mutant: the entry leads to the instance built before.
GetOrCreate_OffByOne(k) ==
    /\ Quiet
    /\ entries[k] = NoInstance
    /\ Len(instances) < MaxInstances
    /\ instances' = Append(instances, [key |-> k, scope |-> "open", drain |-> "running",
                                       collection |-> "live"])
    /\ entries' = [entries EXCEPT ![k] = Len(instances)]
    /\ UNCHANGED call

\* Looking up, building the collection, forking its drain and recording the entry are
\* one synchronous run.  A key that has an entry keeps it.
GetOrCreate(k) ==
    /\ Quiet
    /\ entries[k] = NoInstance
    /\ Len(instances) < MaxInstances
    /\ "late-evict" \in Windows \/ \A c \in Calls : \A x \in call[c].listed : x[1] # k
    /\ instances' = Append(instances, [key |-> k, scope |-> "open", drain |-> "running",
                                       collection |-> "live"])
    /\ entries' = [entries EXCEPT ![k] = Len(instances) + 1]
    /\ UNCHANGED call

-----------------------------------------------------------------------------
(* Teardowns *)

Listed(ks) == {<<k, entries[k]>> : k \in {k \in ks : entries[k] # NoInstance}}

\* A teardown that finds nothing returns in the same run.
Begin(c, pc, ks) ==
    /\ Quiet
    /\ Listed(ks) # {}
    /\ call[c].pc = "idle"
    /\ call' = [call EXCEPT ![c] = [NoCall EXCEPT !.pc = pc, !.listed = Listed(ks)]]
    /\ UNCHANGED <<entries, instances>>

\* disposeScope lists the entries when it is called; its effect may run later.
DisposeScope(c, scope) == scope # NoScope /\ Begin(c, "made", {k \in Keys : ScopeOf[k] = scope})

Run(c) ==
    /\ Quiet
    /\ call[c].pc = "made"
    /\ call' = [call EXCEPT ![c].pc = "running"]
    /\ UNCHANGED <<entries, instances>>

\* The others list them when they run.
Dispose(c, k) == Begin(c, "running", {k})
DisposeAllScoped(c) == Begin(c, "running", {k \in Keys : ScopeOf[k] # NoScope})
DisposeAll(c) == Begin(c, "running", Keys)

\* Mutant: the finalizer waits for the drain and does not interrupt it.
Closed_Awaits(i) == [instances[i] EXCEPT !.scope = "closed"]

\* Closing a scope a second time does nothing and waits for nobody; closing it at all
\* runs the finalizer, which at once interrupts the drain.
Closed(i) ==
    IF instances[i].scope = "closed" THEN instances[i]
    ELSE [instances[i] EXCEPT !.scope = "closed", !.drain = "interrupted"]

\* Mutant: the entry stays in the map.
Evict_KeepsEntry(c) ==
    /\ HasThread(c)
    /\ \E x \in call[c].listed :
        /\ instances' = [instances EXCEPT ![x[2]] = Closed(x[2])]
        /\ call' = [call EXCEPT ![c].listed = @ \ {x}, ![c].closed = @ \cup {x[2]},
                      ![c].at = IF instances[x[2]].scope = "open" THEN x[2] ELSE NoInstance]
    /\ UNCHANGED entries

\* Mutant: the close is not waited for.
Evict_Forks(c) ==
    /\ HasThread(c)
    /\ \E x \in call[c].listed :
        /\ entries' = [entries EXCEPT ![x[1]] = NoInstance]
        /\ instances' = [instances EXCEPT ![x[2]] = Closed(x[2])]
        /\ call' = [call EXCEPT ![c].listed = @ \ {x}, ![c].closed = @ \cup {x[2]}]

\* evict, for the entries listed, one after the other (in any order): delete the key,
\* whatever it leads to by now, and close the scope of the instance that was listed.
Evict(c) ==
    /\ HasThread(c)
    /\ \E x \in call[c].listed :
        LET k == x[1]
            i == x[2]
        IN  /\ entries' = [entries EXCEPT ![k] = NoInstance]
            /\ instances' = [instances EXCEPT ![i] = Closed(i)]
            /\ call' = [call EXCEPT ![c].listed = @ \ {x}, ![c].closed = @ \cup {i},
                          ![c].at = IF instances[i].scope = "open" THEN i ELSE NoInstance]

\* The interrupted drain has unwound.
DrainEnds(i) ==
    /\ Quiet
    /\ instances[i].drain = "interrupted"
    /\ instances' = [instances EXCEPT ![i].drain = "done"]
    /\ UNCHANGED <<entries, call>>

\* Mutant: the finalizer does not wait for the drain.
Cleanup_Eager(i) ==
    /\ Quiet
    /\ instances[i].scope = "closed"
    /\ instances[i].collection = "live"
    /\ instances' = [instances EXCEPT ![i].collection = "clean"]
    /\ UNCHANGED <<entries, call>>

\* Then, and only then, the finalizer cleans the collection up.
Cleanup(i) ==
    /\ Quiet
    /\ instances[i].drain = "done"
    /\ instances[i].collection = "live"
    /\ instances' = [instances EXCEPT ![i].collection = "clean"]
    /\ UNCHANGED <<entries, call>>

\* The teardown that closed the scope goes on when its finalizer is through.
GoOn(c) ==
    /\ Quiet
    /\ call[c].at # NoInstance
    /\ instances[call[c].at].collection = "clean"
    /\ call' = [call EXCEPT ![c].at = NoInstance]
    /\ UNCHANGED <<entries, instances>>

Return(c) ==
    /\ HasThread(c)
    /\ call[c].listed = {}
    /\ call' = [call EXCEPT ![c] = NoCall]
    /\ UNCHANGED <<entries, instances>>

-----------------------------------------------------------------------------
(* Specification *)

Teardown(c) == Run(c) \/ Evict(c) \/ GoOn(c) \/ Return(c)
Finalizer(i) == DrainEnds(i) \/ Cleanup(i)

RNext ==
    \/ \E k \in Keys : GetOrCreate(k)
    \/ \E c \in Calls :
        \/ \E s \in {ScopeOf[k] : k \in Keys} : DisposeScope(c, s)
        \/ \E k \in Keys : Dispose(c, k)
        \/ DisposeAllScoped(c) \/ DisposeAll(c)
        \/ Teardown(c)
    \/ \E i \in Ids : Finalizer(i)

RSafe == RInit /\ [][RNext]_rvars

\* The run that has the thread goes on; what waits for the thread gets it, however often
\* others get it first (the event loop's queue is in order).  An effect that was made
\* need not be run.
RSpec ==
    /\ RSafe
    /\ \A c \in Calls : WF_rvars(Evict(c) \/ Return(c)) /\ SF_rvars(GoOn(c))
    /\ SF_rvars(\E i \in Ids : Finalizer(i))

-----------------------------------------------------------------------------
(* What the registry promises *)

RTypeOK ==
    /\ entries \in [Keys -> Nat]
    /\ instances \in Seq(Instance)
    /\ call \in [Calls -> Call]
    /\ \A k \in Keys : entries[k] # NoInstance => entries[k] \in Ids /\ instances[entries[k]].key = k
    /\ \A c \in Calls :
        /\ \A x \in call[c].listed : x[2] \in Ids /\ instances[x[2]].key = x[1]
        /\ call[c].at # NoInstance => call[c].at \in Ids

\* One canonical instance per key: what is open is what the registry hands out, through
\* remounts and teardowns that overlap.  An open instance the registry has forgotten
\* would drain into the table of the next one, and nothing could ever close it.
OneInstancePerKey ==
    /\ \A i \in Ids : instances[i].scope = "open" => entries[instances[i].key] = i
    /\ \A k \in Keys : entries[k] # NoInstance => instances[entries[k]].scope = "open"

\* No signal lands on a cleaned-up collection: its drain has ended before cleanup, and
\* at most one drain per key writes, a closing instance's being interrupted already.
DrainsEndFirst ==
    /\ \A i \in Ids : instances[i].collection = "clean" => instances[i].drain = "done"
    /\ \A i, j \in Ids : /\ instances[i].drain = "running" /\ instances[j].drain = "running"
                         /\ instances[i].key = instances[j].key
                         => i = j

\* A teardown that is through has left nothing of what it listed running.
TeardownIsDone ==
    \A c \in Calls : HasThread(c) =>
        \A i \in call[c].closed :
            /\ instances[i].drain # "running"
            /\ instances[i].collection = "live" =>
                \E d \in Calls : call[d].at = i

\* Every teardown that runs ends, and so does everything it closes.
TeardownEnds ==
    /\ \A c \in Calls : call[c].pc = "running" ~> call[c].pc # "running"
    /\ \A n \in 1 .. MaxInstances :
        n \in Ids /\ instances[n].scope = "closed" ~> n \in Ids /\ instances[n].collection = "clean"
=============================================================================
