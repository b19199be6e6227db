----------------------- MODULE CollectionRegistryProofs -----------------------
(* One open instance per key, and none cleaned up under its drain, for any    *)
(* keys, scopes and number of teardowns, when no key is mounted again while a *)
(* teardown that listed it has yet to come to it.                             *)
EXTENDS CollectionRegistry, TLAPS

RTypes ==
    /\ entries \in [Keys -> Nat]
    /\ instances \in Seq(Instance)
    /\ call \in [Calls -> Call]

\* An entry leads to an open instance of its key, and an open instance is its entry.
Canonical ==
    /\ \A k \in Keys : entries[k] # NoInstance =>
        /\ entries[k] \in Ids
        /\ instances[entries[k]].key = k
        /\ instances[entries[k]].scope = "open"
    /\ \A i \in Ids : instances[i].scope = "open" => entries[instances[i].key] = i

\* What a teardown has listed is still what the key leads to, or the key leads nowhere.
ListedIsCurrent ==
    \A c \in Calls : \A x \in call[c].listed :
        /\ x[1] \in Keys
        /\ x[2] \in Ids
        /\ instances[x[2]].key = x[1]
        /\ entries[x[1]] \in {x[2], NoInstance}

DrainWithScope ==
    \A i \in Ids :
        /\ instances[i].drain = "running" <=> instances[i].scope = "open"
        /\ instances[i].collection = "clean" => instances[i].drain = "done"

RInv == RTypes /\ Canonical /\ ListedIsCurrent /\ DrainWithScope

\* An empty registry.
LEMMA RegistryStarts == RInit => RInv
<1> SUFFICES ASSUME RInit PROVE RInv
    OBVIOUS
<1>1. NoCall \in Call
    BY DEF NoCall, Call, NoInstance
<1>2. RTypes
    BY <1>1 DEF RInit, RTypes, NoInstance
<1>3. Canonical /\ DrainWithScope
    BY DEF RInit, Canonical, DrainWithScope, Ids, NoInstance
<1>4. ListedIsCurrent
    BY DEF RInit, ListedIsCurrent, NoCall
<1> QED
    BY <1>2, <1>3, <1>4 DEF RInv

\* Building an instance.
LEMMA MountKeeps ==
    ASSUME "late-evict" \notin Windows, RInv, NEW k \in Keys, GetOrCreate(k)
    PROVE  RInv'
<1> DEFINE n == Len(instances) + 1
           new == [key |-> k, scope |-> "open", drain |-> "running", collection |-> "live"]
<1>1. /\ entries[k] = NoInstance
      /\ \A c \in Calls : \A x \in call[c].listed : x[1] # k
      /\ instances' = Append(instances, new) /\ entries' = [entries EXCEPT ![k] = n]
      /\ call' = call
    BY DEF GetOrCreate
<1>2. new \in Instance /\ n \in Nat /\ Len(instances) \in Nat /\ n # NoInstance
    BY DEF Instance, RInv, RTypes, NoInstance
<1>3. /\ instances' \in Seq(Instance)
      /\ Len(instances') = n
      /\ instances'[n] = new
      /\ \A i \in 1 .. Len(instances) : instances'[i] = instances[i]
    BY <1>1, <1>2 DEF RInv, RTypes
<1>4. Ids' = Ids \cup {n} /\ n \notin Ids
    BY <1>2, <1>3 DEF Ids
<1>5. /\ \A i \in Ids : instances'[i] = instances[i] /\ instances[i] \in Instance
      /\ entries'[k] = n /\ \A q \in Keys : q # k => entries'[q] = entries[q]
    BY <1>1, <1>3 DEF Ids, RInv, RTypes
<1>6. RTypes'
    BY <1>1, <1>2, <1>3 DEF RInv, RTypes
<1>7. Canonical'
    <2>1. ASSUME NEW q \in Keys, entries'[q] # NoInstance
          PROVE  /\ entries'[q] \in Ids' /\ instances'[entries'[q]].key = q
                 /\ instances'[entries'[q]].scope = "open"
        BY <1>3, <1>4, <1>5, <2>1 DEF RInv, Canonical
    <2>2. ASSUME NEW i \in Ids', instances'[i].scope = "open"
          PROVE  entries'[instances'[i].key] = i
        <3>1. CASE i = n
            BY <1>3, <1>5, <3>1
        <3>2. CASE i \in Ids
            <4>1. instances[i].key \in Keys /\ entries[instances[i].key] = i
                BY <1>5, <2>2, <3>2 DEF RInv, Canonical, Instance
            <4>2. i # NoInstance
                BY <3>2 DEF Ids, NoInstance
            <4> QED
                BY <1>1, <1>5, <3>2, <4>1, <4>2
        <3> QED
            BY <1>4, <3>1, <3>2
    <2> QED
        BY <2>1, <2>2 DEF Canonical
<1>8. ListedIsCurrent'
    BY <1>1, <1>4, <1>5 DEF RInv, ListedIsCurrent
<1>9. DrainWithScope'
    BY <1>3, <1>4, <1>5 DEF RInv, DrainWithScope
<1> QED
    BY <1>6, <1>7, <1>8, <1>9 DEF RInv

\* A teardown that lists what it will close.
LEMMA ListKeeps ==
    ASSUME RInv, NEW c \in Calls, NEW pc \in {"made", "running"}, NEW ks \in SUBSET Keys,
           Begin(c, pc, ks)
    PROVE  RInv'
<1>1. /\ call' = [call EXCEPT ![c] = [NoCall EXCEPT !.pc = pc, !.listed = Listed(ks)]]
      /\ entries' = entries /\ instances' = instances
    BY DEF Begin
<1>2. \A x \in Listed(ks) :
        /\ x \in Keys \X Nat
        /\ x[1] \in Keys /\ x[2] = entries[x[1]] /\ x[2] # NoInstance
    BY DEF Listed, RInv, RTypes
<1>3. [NoCall EXCEPT !.pc = pc, !.listed = Listed(ks)] \in Call
    BY <1>2 DEF NoCall, Call, NoInstance
<1>4. RTypes'
    BY <1>1, <1>3 DEF RInv, RTypes
<1>5. Canonical' /\ DrainWithScope'
    BY <1>1 DEF RInv, Canonical, DrainWithScope, Ids
<1>6. ListedIsCurrent'
    <2>1. ASSUME NEW d \in Calls, NEW x \in call'[d].listed
          PROVE  /\ x[1] \in Keys /\ x[2] \in Ids /\ instances[x[2]].key = x[1]
                 /\ entries[x[1]] \in {x[2], NoInstance}
        <3>1. CASE d = c
            <4>1. x \in Listed(ks)
                BY <1>1, <2>1, <3>1 DEF RInv, RTypes, NoCall
            <4> QED
                BY <1>2, <4>1 DEF RInv, Canonical
        <3>2. CASE d # c
            BY <1>1, <2>1, <3>2 DEF RInv, RTypes, ListedIsCurrent
        <3> QED
            BY <3>1, <3>2
    <2> QED
        BY <1>1, <2>1 DEF ListedIsCurrent, Ids
<1> QED
    BY <1>4, <1>5, <1>6 DEF RInv

\* Evicting an entry.
LEMMA EvictKeeps ==
    ASSUME RInv, NEW c \in Calls, Evict(c)
    PROVE  RInv'
<1>1. PICK x \in call[c].listed :
        /\ entries' = [entries EXCEPT ![x[1]] = NoInstance]
        /\ instances' = [instances EXCEPT ![x[2]] = Closed(x[2])]
        /\ call' = [call EXCEPT ![c].listed = @ \ {x}, ![c].closed = @ \cup {x[2]},
                      ![c].at = IF instances[x[2]].scope = "open" THEN x[2] ELSE NoInstance]
    BY DEF Evict
<1> DEFINE k == x[1]
           i == x[2]
<1>2. /\ k \in Keys /\ i \in Ids /\ instances[i].key = k /\ entries[k] \in {i, NoInstance}
    BY DEF RInv, ListedIsCurrent
<1>3. instances[i] \in Instance /\ i \in Nat
    BY <1>2 DEF RInv, RTypes, Ids
<1>4. /\ Closed(i) \in Instance /\ Closed(i).key = k /\ Closed(i).scope = "closed"
      /\ Closed(i).drain # "running"
      /\ Closed(i).collection = "clean" => Closed(i).drain = "done"
    BY <1>2, <1>3 DEF Closed, Instance, RInv, DrainWithScope
<1>5. /\ instances' \in Seq(Instance) /\ Len(instances') = Len(instances)
      /\ instances'[i] = Closed(i)
      /\ \A j \in Ids : j # i => instances'[j] = instances[j]
    BY <1>1, <1>2, <1>4 DEF RInv, RTypes, Ids
<1>6. Ids' = Ids
    BY <1>5 DEF Ids
<1>7. entries'[k] = NoInstance /\ \A q \in Keys : q # k => entries'[q] = entries[q]
    BY <1>1, <1>2 DEF RInv, RTypes
<1>8. RTypes'
    <2>1. entries' \in [Keys -> Nat]
        BY <1>1, <1>2 DEF RInv, RTypes, NoInstance
    <2>2. call[c] \in Call
        BY DEF RInv, RTypes
    <2>3. call' \in [Calls -> Call]
        BY <1>1, <1>3, <2>2 DEF RInv, RTypes, Call, NoInstance
    <2> QED
        BY <1>5, <2>1, <2>3 DEF RTypes
<1>9. Canonical'
    <2>1. ASSUME NEW q \in Keys, entries'[q] # NoInstance
          PROVE  /\ entries'[q] \in Ids' /\ instances'[entries'[q]].key = q
                 /\ instances'[entries'[q]].scope = "open"
        <3>1. q # k /\ entries'[q] = entries[q]
            BY <1>7, <2>1
        <3>2. entries[q] \in Ids /\ instances[entries[q]].key = q /\ instances[entries[q]].scope = "open"
            BY <2>1, <3>1 DEF RInv, Canonical
        <3>3. entries[q] # i
            BY <1>2, <3>1, <3>2
        <3> QED
            BY <1>5, <1>6, <3>1, <3>2, <3>3
    <2>2. ASSUME NEW j \in Ids', instances'[j].scope = "open"
          PROVE  entries'[instances'[j].key] = j
        <3>1. j \in Ids /\ j # i /\ instances'[j] = instances[j]
            BY <1>4, <1>5, <1>6, <2>2
        <3>2. instances[j].key \in Keys /\ entries[instances[j].key] = j
            <4>1. instances[j] \in Instance
                BY <3>1 DEF RInv, RTypes, Ids
            <4> QED
                BY <2>2, <3>1, <4>1 DEF RInv, Canonical, Instance
        <3>3. instances[j].key # k
            BY <1>2, <3>1, <3>2 DEF Ids, NoInstance
        <3> QED
            BY <1>7, <3>1, <3>2, <3>3
    <2> QED
        BY <2>1, <2>2 DEF Canonical
<1>10. ListedIsCurrent'
    <2>1. ASSUME NEW d \in Calls, NEW y \in call'[d].listed
          PROVE  /\ y[1] \in Keys /\ y[2] \in Ids' /\ instances'[y[2]].key = y[1]
                 /\ entries'[y[1]] \in {y[2], NoInstance}
        <3>1. y \in call[d].listed
            BY <1>1, <2>1 DEF RInv, RTypes, Call
        <3>2. /\ y[1] \in Keys /\ y[2] \in Ids /\ instances[y[2]].key = y[1]
              /\ entries[y[1]] \in {y[2], NoInstance}
            BY <3>1 DEF RInv, ListedIsCurrent
        <3>3. instances'[y[2]].key = instances[y[2]].key
            BY <1>2, <1>4, <1>5, <3>2
        <3>4. entries'[y[1]] \in {entries[y[1]], NoInstance}
            BY <1>7, <3>2
        <3> QED
            BY <1>6, <3>2, <3>3, <3>4
    <2> QED
        BY <2>1 DEF ListedIsCurrent
<1>11. DrainWithScope'
    BY <1>4, <1>5, <1>6 DEF RInv, DrainWithScope
<1> QED
    BY <1>8, <1>9, <1>10, <1>11 DEF RInv

\* The finalizer's two steps.
LEMMA FinalizerKeeps ==
    ASSUME RInv, NEW i \in Ids, Finalizer(i)
    PROVE  RInv'
<1>1. PICK new \in Instance :
        /\ new.key = instances[i].key /\ new.scope = instances[i].scope
        /\ new.drain # "running" /\ instances[i].scope = "closed"
        /\ new.collection = "clean" => new.drain = "done"
        /\ instances' = [instances EXCEPT ![i] = new]
        /\ UNCHANGED <<entries, call>>
    <2>1. /\ instances[i] \in Instance
          /\ instances[i].drain = "running" <=> instances[i].scope = "open"
          /\ instances[i].collection = "clean" => instances[i].drain = "done"
        BY DEF RInv, RTypes, Ids, DrainWithScope
    <2>2. CASE DrainEnds(i)
        <3> DEFINE new == [instances[i] EXCEPT !.drain = "done"]
        <3>1. /\ new \in Instance /\ new.key = instances[i].key /\ new.scope = instances[i].scope
              /\ new.drain = "done" /\ instances[i].scope = "closed"
            BY <2>1, <2>2 DEF DrainEnds, Instance
        <3> QED
            BY <2>2, <3>1 DEF DrainEnds
    <2>3. CASE Cleanup(i)
        <3> DEFINE new == [instances[i] EXCEPT !.collection = "clean"]
        <3>1. /\ new \in Instance /\ new.key = instances[i].key /\ new.scope = instances[i].scope
              /\ new.drain = "done" /\ instances[i].scope = "closed"
            BY <2>1, <2>3 DEF Cleanup, Instance
        <3> QED
            BY <2>3, <3>1 DEF Cleanup
    <2> QED
        BY <2>2, <2>3 DEF Finalizer
<1>2. /\ instances' \in Seq(Instance) /\ Len(instances') = Len(instances)
      /\ instances'[i] = new
      /\ \A j \in Ids : j # i => instances'[j] = instances[j]
      /\ Ids' = Ids
    BY <1>1 DEF RInv, RTypes, Ids
<1>3. RTypes'
    BY <1>1, <1>2 DEF RInv, RTypes
<1>4. Canonical'
    BY <1>1, <1>2 DEF RInv, Canonical
<1>5. ListedIsCurrent'
    BY <1>1, <1>2 DEF RInv, ListedIsCurrent
<1>6. DrainWithScope'
    BY <1>1, <1>2 DEF RInv, DrainWithScope
<1> QED
    BY <1>3, <1>4, <1>5, <1>6 DEF RInv

\* Steps that only move a teardown along.
LEMMA CallKeeps ==
    ASSUME RInv, NEW c \in Calls, Run(c) \/ GoOn(c) \/ Return(c)
    PROVE  RInv'
<1>1. /\ entries' = entries /\ instances' = instances
      /\ \E new \in Call : /\ call' = [call EXCEPT ![c] = new]
                           /\ new.listed \subseteq call[c].listed
    <2>1. call[c] \in Call /\ NoCall \in Call /\ NoCall.listed = {}
        BY DEF RInv, RTypes, NoCall, Call, NoInstance
    <2>2. CASE Run(c)
        <3>1. [call[c] EXCEPT !.pc = "running"] \in Call
            BY <2>1 DEF Call
        <3> QED
            BY <2>1, <2>2, <3>1 DEF Run, Call
    <2>3. CASE GoOn(c)
        <3>1. [call[c] EXCEPT !.at = NoInstance] \in Call
            BY <2>1 DEF Call, NoInstance
        <3> QED
            BY <2>1, <2>3, <3>1 DEF GoOn, Call
    <2>4. CASE Return(c)
        BY <2>1, <2>4 DEF Return
    <2> QED
        BY <2>2, <2>3, <2>4
<1>2. RTypes'
    BY <1>1 DEF RInv, RTypes
<1>3. Canonical' /\ DrainWithScope'
    BY <1>1 DEF RInv, Canonical, DrainWithScope, Ids
<1>4. \A d \in Calls : call'[d].listed \subseteq call[d].listed
    BY <1>1 DEF RInv, RTypes
<1>5. ListedIsCurrent'
    BY <1>1, <1>4 DEF RInv, ListedIsCurrent, Ids
<1> QED
    BY <1>2, <1>3, <1>5 DEF RInv

-----------------------------------------------------------------------------
(* The theorems *)

\* Every step keeps the invariant while the window is closed.
LEMMA RegistryKeeps ==
    ASSUME "late-evict" \notin Windows, RInv, [RNext]_rvars
    PROVE  RInv'
<1>1. CASE UNCHANGED rvars
    BY <1>1 DEF rvars, RInv, RTypes, Canonical, ListedIsCurrent, DrainWithScope, Ids
<1>2. ASSUME NEW k \in Keys, GetOrCreate(k) PROVE RInv'
    BY <1>2, MountKeeps
<1>3. ASSUME NEW c \in Calls, NEW s, DisposeScope(c, s) PROVE RInv'
    <2>1. Begin(c, "made", {k \in Keys : ScopeOf[k] = s})
        BY <1>3 DEF DisposeScope
    <2> QED
        BY <2>1, ListKeeps
<1>4. ASSUME NEW c \in Calls, NEW k \in Keys, Dispose(c, k) PROVE RInv'
    BY <1>4, ListKeeps DEF Dispose
<1>5. ASSUME NEW c \in Calls, DisposeAllScoped(c) \/ DisposeAll(c) PROVE RInv'
    <2>1. {k \in Keys : ScopeOf[k] # NoScope} \in SUBSET Keys /\ Keys \in SUBSET Keys
        OBVIOUS
    <2> QED
        BY <1>5, <2>1, ListKeeps DEF DisposeAllScoped, DisposeAll
<1>6. ASSUME NEW c \in Calls, Teardown(c) PROVE RInv'
    BY <1>6, EvictKeeps, CallKeeps DEF Teardown
<1>7. ASSUME NEW i \in Ids, Finalizer(i) PROVE RInv'
    BY <1>7, FinalizerKeeps
<1> QED
    BY <1>1, <1>2, <1>3, <1>4, <1>5, <1>6, <1>7 DEF RNext

\* The registry hands out one canonical instance per key and forgets none that is open,
\* through remounts and overlapping teardowns (getOrCreate, evict of
\* registry/collection-registry.ts), when the late eviction is excluded.
THEOREM RegistryIsCanonical ==
    ASSUME "late-evict" \notin Windows
    PROVE  RSafe => []OneInstancePerKey
<1>1. RInv => OneInstancePerKey
    BY DEF RInv, Canonical, OneInstancePerKey
<1>2. RInv /\ [RNext]_rvars => RInv'
    BY RegistryKeeps
<1> QED
    BY <1>1, <1>2, RegistryStarts, PTL DEF RSafe

\* No collection is cleaned up under its drain, and at most one drain per key runs
\* (the finalizer of makeFor in define-collection.ts).
THEOREM DrainsEndBeforeCleanup ==
    ASSUME "late-evict" \notin Windows
    PROVE  RSafe => []DrainsEndFirst
<1>1. RInv => DrainsEndFirst
    BY DEF RInv, RTypes, Canonical, DrainWithScope, DrainsEndFirst, Ids
<1>2. RInv /\ [RNext]_rvars => RInv'
    BY RegistryKeeps
<1> QED
    BY <1>1, <1>2, RegistryStarts, PTL DEF RSafe

-----------------------------------------------------------------------------
(* What holds with the window open as well                                    *)

\* Every collection that is closed and not clean has a teardown waiting for it, and
\* only a teardown that runs waits.
Waited ==
    /\ \A c \in Calls :
        /\ call[c].at # NoInstance => call[c].pc = "running"
        /\ \A i \in call[c].closed : i \in Ids /\ instances[i].scope = "closed"
    /\ \A i \in Ids : instances[i].scope = "closed" /\ instances[i].collection = "live" =>
        \E d \in Calls : call[d].at = i

TInv == RTypeOK /\ DrainWithScope /\ Waited

\* The steps of teardowns that leave the instances alone.
LEMMA CallKeepsTeardown ==
    ASSUME TInv, NEW c \in Calls, NEW new \in Call,
           entries' = entries, instances' = instances,
           call' = [call EXCEPT ![c] = new],
           \A x \in new.listed : x[2] \in Ids /\ instances[x[2]].key = x[1],
           new.at # NoInstance => new.at \in Ids /\ new.pc = "running",
           new.closed \subseteq call[c].closed,
           call[c].at \in Ids => new.at = call[c].at \/ instances[call[c].at].collection = "clean"
    PROVE  TInv'
<1>1. Ids' = Ids
    BY DEF Ids
<1>2. \A d \in Calls : call'[d] = IF d = c THEN new ELSE call[d]
    BY DEF TInv, RTypeOK
<1>3. RTypeOK'
    BY <1>1, <1>2 DEF TInv, RTypeOK
<1>4. DrainWithScope'
    BY <1>1 DEF TInv, DrainWithScope
<1>5. Waited'
    <2>1. ASSUME NEW i \in Ids, instances[i].scope = "closed", instances[i].collection = "live"
          PROVE  \E d \in Calls : call'[d].at = i
        <3>1. PICK d \in Calls : call[d].at = i
            BY <2>1 DEF TInv, Waited
        <3>2. call'[d].at = i
            BY <1>2, <2>1, <3>1
        <3> QED
            BY <3>2
    <2> QED
        BY <1>1, <1>2, <2>1 DEF TInv, Waited
<1> QED
    BY <1>3, <1>4, <1>5 DEF TInv

\* Every step keeps it.
LEMMA TeardownKeeps ==
    ASSUME TInv, [RNext]_rvars
    PROVE  TInv'
<1>1. CASE UNCHANGED rvars
    BY <1>1 DEF rvars, TInv, RTypeOK, DrainWithScope, Waited, Ids
<1>2. ASSUME NEW k \in Keys, GetOrCreate(k) PROVE TInv'
    <2> DEFINE n == Len(instances) + 1
               new == [key |-> k, scope |-> "open", drain |-> "running", collection |-> "live"]
    <2>1. /\ instances' = Append(instances, new) /\ entries' = [entries EXCEPT ![k] = n]
          /\ call' = call
        BY <1>2 DEF GetOrCreate
    <2>2. new \in Instance /\ n \in Nat /\ Len(instances) \in Nat
        BY DEF Instance, TInv, RTypeOK
    <2>3. /\ instances' \in Seq(Instance) /\ Len(instances') = n /\ instances'[n] = new
          /\ \A i \in Ids : instances'[i] = instances[i]
          /\ Ids' = Ids \cup {n} /\ n \notin Ids
        BY <2>1, <2>2 DEF TInv, RTypeOK, Ids
    <2>4. RTypeOK'
        <3>1. /\ entries' \in [Keys -> Nat] /\ entries'[k] = n
              /\ \A q \in Keys : q # k => entries'[q] = entries[q]
            BY <2>1, <2>2 DEF TInv, RTypeOK
        <3>2. ASSUME NEW q \in Keys, entries'[q] # NoInstance
              PROVE  entries'[q] \in Ids' /\ instances'[entries'[q]].key = q
            BY <2>3, <3>1, <3>2 DEF TInv, RTypeOK
        <3>3. ASSUME NEW c \in Calls
              PROVE  /\ \A x \in call'[c].listed : x[2] \in Ids' /\ instances'[x[2]].key = x[1]
                     /\ call'[c].at # NoInstance => call'[c].at \in Ids'
            BY <2>1, <2>3 DEF TInv, RTypeOK
        <3>4. call' \in [Calls -> Call]
            BY <2>1 DEF TInv, RTypeOK
        <3> QED
            BY <2>3, <3>1, <3>2, <3>3, <3>4 DEF RTypeOK
    <2>5. DrainWithScope'
        BY <2>3 DEF TInv, DrainWithScope
    <2>6. Waited'
        <3>1. ASSUME NEW i \in Ids', instances'[i].scope = "closed", instances'[i].collection = "live"
              PROVE  \E d \in Calls : call'[d].at = i
            <4>1. i \in Ids /\ instances'[i] = instances[i]
                BY <2>3, <3>1
            <4> QED
                BY <2>1, <3>1, <4>1 DEF TInv, Waited
        <3>2. \A c \in Calls : \A i \in call[c].closed : i \in Ids' /\ instances'[i].scope = "closed"
            BY <2>3 DEF TInv, Waited
        <3>3. \A c \in Calls : call[c].at # NoInstance => call[c].pc = "running"
            BY DEF TInv, Waited
        <3> QED
            BY <2>1, <3>1, <3>2, <3>3 DEF Waited
    <2> QED
        BY <2>4, <2>5, <2>6 DEF TInv
<1>3. ASSUME NEW c \in Calls, NEW pc \in {"made", "running"}, NEW ks \in SUBSET Keys,
             Begin(c, pc, ks)
      PROVE  TInv'
    <2> DEFINE new == [NoCall EXCEPT !.pc = pc, !.listed = Listed(ks)]
    <2>1. \A x \in Listed(ks) : x \in Keys \X Nat /\ x[2] \in Ids /\ instances[x[2]].key = x[1]
        BY DEF Listed, TInv, RTypeOK
    <2>2. new \in Call /\ new.listed = Listed(ks) /\ new.at = NoInstance /\ new.closed = {}
        BY <2>1 DEF NoCall, Call, NoInstance
    <2>3. call[c].at = NoInstance /\ NoInstance \notin Ids
        BY <1>3 DEF Begin, TInv, Waited, Ids, NoInstance
    <2> HIDE DEF new
    <2> QED
        BY <1>3, <2>1, <2>2, <2>3, CallKeepsTeardown DEF Begin, new
<1>4. ASSUME NEW c \in Calls, Run(c) \/ GoOn(c) \/ Return(c) PROVE TInv'
    <2>1. /\ call[c] \in Call /\ NoInstance \notin Ids
          /\ \A x \in call[c].listed : x[2] \in Ids /\ instances[x[2]].key = x[1]
          /\ call[c].at # NoInstance => call[c].at \in Ids /\ call[c].pc = "running"
        BY DEF TInv, RTypeOK, Waited, Ids, NoInstance
    <2>2. CASE Run(c)
        <3> DEFINE new == [call[c] EXCEPT !.pc = "running"]
        <3>1. /\ new \in Call /\ new.listed = call[c].listed /\ new.at = call[c].at
              /\ new.closed = call[c].closed /\ new.pc = "running"
            BY <2>1 DEF Call
        <3>2. entries' = entries /\ instances' = instances /\ call' = [call EXCEPT ![c] = new]
            BY <2>2 DEF Run
        <3> HIDE DEF new
        <3> QED
            BY <2>1, <3>1, <3>2, CallKeepsTeardown
    <2>3. CASE GoOn(c)
        <3> DEFINE new == [call[c] EXCEPT !.at = NoInstance]
        <3>1. /\ new \in Call /\ new.listed = call[c].listed /\ new.at = NoInstance
              /\ new.closed = call[c].closed
            BY <2>1 DEF Call, NoInstance
        <3>2. /\ entries' = entries /\ instances' = instances /\ call' = [call EXCEPT ![c] = new]
              /\ instances[call[c].at].collection = "clean"
            BY <2>3 DEF GoOn
        <3> HIDE DEF new
        <3> QED
            BY <2>1, <3>1, <3>2, CallKeepsTeardown
    <2>4. CASE Return(c)
        <3>1. /\ NoCall \in Call /\ NoCall.listed = {} /\ NoCall.closed = {} /\ NoCall.at = NoInstance
            BY DEF NoCall, Call, NoInstance
        <3>2. /\ entries' = entries /\ instances' = instances /\ call' = [call EXCEPT ![c] = NoCall]
              /\ call[c].at = NoInstance
            BY <2>4 DEF Return, HasThread
        <3> QED
            BY <2>1, <3>1, <3>2, CallKeepsTeardown
    <2> QED
        BY <1>4, <2>2, <2>3, <2>4
<1>5. ASSUME NEW c \in Calls, Evict(c) PROVE TInv'
    <2>1. PICK x \in call[c].listed :
            /\ entries' = [entries EXCEPT ![x[1]] = NoInstance]
            /\ instances' = [instances EXCEPT ![x[2]] = Closed(x[2])]
            /\ call' = [call EXCEPT ![c].listed = @ \ {x}, ![c].closed = @ \cup {x[2]},
                          ![c].at = IF instances[x[2]].scope = "open" THEN x[2] ELSE NoInstance]
        BY <1>5 DEF Evict
    <2> DEFINE i == x[2]
               new == [call[c] EXCEPT !.listed = @ \ {x}, !.closed = @ \cup {x[2]},
                          !.at = IF instances[x[2]].scope = "open" THEN x[2] ELSE NoInstance]
    <2>2. i \in Ids /\ instances[i] \in Instance /\ call[c] \in Call /\ i \in Nat /\ i # NoInstance
        BY DEF TInv, RTypeOK, Ids, NoInstance
    <2>3. /\ Closed(i) \in Instance /\ Closed(i).key = instances[i].key /\ Closed(i).scope = "closed"
          /\ Closed(i).drain # "running"
          /\ Closed(i).collection = instances[i].collection
          /\ Closed(i).collection = "clean" => Closed(i).drain = "done"
        BY <2>2 DEF Closed, Instance, TInv, DrainWithScope
    <2>4. /\ instances' \in Seq(Instance) /\ Len(instances') = Len(instances)
          /\ instances'[i] = Closed(i)
          /\ \A j \in Ids : j # i => instances'[j] = instances[j]
          /\ Ids' = Ids
        BY <2>1, <2>2, <2>3 DEF TInv, RTypeOK, Ids
    <2>5. /\ new \in Call /\ new.listed = call[c].listed \ {x} /\ new.closed = call[c].closed \cup {i}
          /\ new.at = (IF instances[i].scope = "open" THEN i ELSE NoInstance)
          /\ new.pc = call[c].pc
        BY <2>2 DEF Call, NoInstance
    <2>6. call' = [call EXCEPT ![c] = new]
        BY <2>1, <2>2 DEF TInv, RTypeOK
    <2> HIDE DEF new
    <2>7. \A d \in Calls : call'[d] = IF d = c THEN new ELSE call[d]
        BY <2>6 DEF TInv, RTypeOK
    <2>8. call[c].pc = "running" /\ call[c].at = NoInstance
        BY <1>5 DEF Evict, HasThread
    <2>9. RTypeOK'
        <3>1. entries' \in [Keys -> Nat] /\ \A k \in Keys : entries'[k] \in {entries[k], NoInstance}
            BY <2>1 DEF TInv, RTypeOK, NoInstance
        <3>2. call' \in [Calls -> Call]
            BY <2>5, <2>6 DEF TInv, RTypeOK
        <3>3. \A j \in Ids : instances'[j].key = instances[j].key
            BY <2>3, <2>4
        <3>4. ASSUME NEW d \in Calls
              PROVE  /\ \A y \in call'[d].listed : y[2] \in Ids' /\ instances'[y[2]].key = y[1]
                     /\ call'[d].at # NoInstance => call'[d].at \in Ids'
            BY <2>2, <2>4, <2>5, <2>7, <3>3 DEF TInv, RTypeOK
        <3> QED
            BY <2>4, <3>1, <3>2, <3>3, <3>4 DEF TInv, RTypeOK
    <2>10. DrainWithScope'
        BY <2>3, <2>4 DEF TInv, DrainWithScope
    <2>11. Waited'
        <3>1. ASSUME NEW d \in Calls
              PROVE  /\ call'[d].at # NoInstance => call'[d].pc = "running"
                     /\ \A j \in call'[d].closed : j \in Ids' /\ instances'[j].scope = "closed"
            BY <2>2, <2>3, <2>4, <2>5, <2>7, <2>8 DEF TInv, Waited
        <3>2. ASSUME NEW j \in Ids, instances'[j].scope = "closed", instances'[j].collection = "live"
              PROVE  \E d \in Calls : call'[d].at = j
            <4>1. CASE j = i /\ instances[i].scope = "open"
                BY <2>5, <2>7, <4>1
            <4>2. CASE j # i \/ instances[i].scope # "open"
                <5>1. instances[j].scope = "closed" /\ instances[j].collection = "live"
                    BY <2>2, <2>3, <2>4, <3>2, <4>2 DEF Instance
                <5>2. PICK d \in Calls : call[d].at = j
                    BY <5>1 DEF TInv, Waited
                <5>3. d # c
                    BY <2>8, <5>2 DEF Ids, NoInstance
                <5> QED
                    BY <2>7, <5>2, <5>3
            <4> QED
                BY <4>1, <4>2
        <3> QED
            BY <2>4, <3>1, <3>2 DEF Waited
    <2> QED
        BY <2>9, <2>10, <2>11 DEF TInv
<1>6. ASSUME NEW i \in Ids, Finalizer(i) PROVE TInv'
    <2>1. /\ instances[i] \in Instance
          /\ instances[i].drain = "running" <=> instances[i].scope = "open"
          /\ instances[i].collection = "clean" => instances[i].drain = "done"
        BY DEF TInv, RTypeOK, Ids, DrainWithScope
    <2>2. PICK new \in Instance :
            /\ new.key = instances[i].key /\ new.scope = "closed" /\ instances[i].scope = "closed"
            /\ new.drain # "running"
            /\ new.collection = "clean" => new.drain = "done"
            /\ new.collection = "live" => instances[i].collection = "live"
            /\ instances' = [instances EXCEPT ![i] = new]
            /\ UNCHANGED <<entries, call>>
        <3>1. CASE DrainEnds(i)
            <4> DEFINE new == [instances[i] EXCEPT !.drain = "done"]
            <4>1. /\ new \in Instance /\ new.key = instances[i].key
                  /\ new.scope = instances[i].scope /\ new.collection = instances[i].collection
                  /\ new.drain = "done" /\ instances[i].scope = "closed"
                BY <2>1, <3>1 DEF DrainEnds, Instance
            <4> QED
                BY <3>1, <4>1 DEF DrainEnds
        <3>2. CASE Cleanup(i)
            <4> DEFINE new == [instances[i] EXCEPT !.collection = "clean"]
            <4>1. /\ new \in Instance /\ new.key = instances[i].key
                  /\ new.scope = instances[i].scope /\ new.collection = "clean"
                  /\ new.drain = "done" /\ instances[i].scope = "closed"
                BY <2>1, <3>2 DEF Cleanup, Instance
            <4> QED
                BY <3>2, <4>1 DEF Cleanup
        <3> QED
            BY <1>6, <3>1, <3>2 DEF Finalizer
    <2>3. /\ instances' \in Seq(Instance) /\ Len(instances') = Len(instances)
          /\ instances'[i] = new /\ Ids' = Ids
          /\ \A j \in Ids : j # i => instances'[j] = instances[j]
        BY <2>2 DEF TInv, RTypeOK, Ids
    <2>4. RTypeOK'
        BY <2>2, <2>3 DEF TInv, RTypeOK
    <2>5. DrainWithScope'
        BY <2>2, <2>3 DEF TInv, DrainWithScope
    <2>6. Waited'
        BY <2>2, <2>3 DEF TInv, Waited
    <2> QED
        BY <2>4, <2>5, <2>6 DEF TInv
<1>7. ASSUME NEW c \in Calls,
             \/ \E s \in {ScopeOf[k] : k \in Keys} : DisposeScope(c, s)
             \/ \E k \in Keys : Dispose(c, k)
             \/ DisposeAllScoped(c) \/ DisposeAll(c)
      PROVE  TInv'
    <2>1. \E pc \in {"made", "running"} : \E ks \in SUBSET Keys : Begin(c, pc, ks)
        BY <1>7 DEF DisposeScope, Dispose, DisposeAllScoped, DisposeAll
    <2> QED
        BY <1>3, <2>1
<1> QED
    BY <1>1, <1>2, <1>4, <1>5, <1>6, <1>7 DEF RNext, Teardown

\* An empty registry.
LEMMA TeardownStarts == RInit => TInv
<1> SUFFICES ASSUME RInit PROVE TInv
    OBVIOUS
<1>1. /\ NoCall \in Call /\ NoCall.listed = {} /\ NoCall.closed = {} /\ NoCall.at = NoInstance
      /\ Ids = {}
    BY DEF NoCall, Call, NoInstance, RInit, Ids
<1>2. RTypeOK
    BY <1>1 DEF RInit, RTypeOK, NoInstance
<1>3. DrainWithScope /\ Waited
    BY <1>1 DEF RInit, DrainWithScope, Waited
<1> QED
    BY <1>2, <1>3 DEF TInv

\* Entries and lists lead to instances of their key, whatever windows are open
\* (registry/collection-registry.ts).
THEOREM RegistryTypes == RSafe => []RTypeOK
<1>1. TInv => RTypeOK
    BY DEF TInv
<1>2. TInv /\ [RNext]_rvars => TInv'
    BY TeardownKeeps
<1> QED
    BY <1>1, <1>2, TeardownStarts, PTL DEF RSafe

\* A teardown that goes on has left nothing running of what it closed: no drain, and no
\* collection for whose cleanup no teardown waits (evict of
\* registry/collection-registry.ts closes each child scope and waits for its finalizer).
\* This holds with the late eviction as well: it forgets an instance, it does not leave
\* one half closed.
THEOREM TeardownsLeaveNothingRunning == RSafe => []TeardownIsDone
<1>1. TInv => TeardownIsDone
    BY DEF TInv, RTypeOK, DrainWithScope, Waited, TeardownIsDone
<1>2. TInv /\ [RNext]_rvars => TInv'
    BY TeardownKeeps
<1> QED
    BY <1>1, <1>2, TeardownStarts, PTL DEF RSafe
=============================================================================
