---------------------------- MODULE SyncFeedProofs ----------------------------
(* What the squasher returns, and of the server feed: its types, that a       *)
(* squashed log means what the log means, and that a subscriber that has read *)
(* the whole log shows exactly what it may see.                               *)
EXTENDS SyncFeed, PositionProofs

-----------------------------------------------------------------------------
(* squash, one position at a time *)

\* What is kept once position n of the log is folded in.
Folded(events, run, before, n) ==
    IF n \notin run THEN before
    ELSE IF events[n].tag = "Resync" THEN ApplyResync(before, events[n])
    ELSE FoldEntity(before, events[n])

\* kept[n] is what squash holds after the position n of its run.
IsFolding(kept, events, run) ==
    /\ kept[0] = {}
    /\ \A n \in 1 .. Len(events) : kept[n] = Folded(events, run, kept[n - 1], n)

\* The recursive function that Squashed chooses exists, and its last value is the result.
LEMMA SquashedByFolding ==
    ASSUME NEW events, NEW run, Len(events) \in Nat
    PROVE  \E kept : IsFolding(kept, events, run) /\ Squashed(events, run) = kept[Len(events)]
<1> DEFINE Def(f, m) == f = [n \in 0 .. m |-> IF n = 0 THEN {} ELSE Folded(events, run, f[n - 1], n)]
           S == {m \in Nat : \E f : Def(f, m)}
<1>1. 0 \in S
    <2>1. Def([n \in 0 .. 0 |-> {}], 0)
        OBVIOUS
    <2> QED
        BY <2>1
<1>2. ASSUME NEW m \in 1 .. Len(events), m - 1 \in S PROVE m \in S
    <2>1. PICK g : Def(g, m - 1)
        BY <1>2
    <2> DEFINE f == [n \in 0 .. m |-> IF n = m THEN Folded(events, run, g[m - 1], m) ELSE g[n]]
    <2>2. ASSUME NEW n \in 0 .. m
          PROVE  f[n] = IF n = 0 THEN {} ELSE Folded(events, run, f[n - 1], n)
        <3>1. CASE n = 0
            BY <2>1, <3>1
        <3>2. CASE n = m
            BY <3>2
        <3>3. CASE n \in 1 .. m - 1
            <4>1. g[n] = Folded(events, run, g[n - 1], n)
                <5>1. n \in 0 .. m - 1 /\ n # 0
                    BY <3>3
                <5> QED
                    BY <2>1, <5>1, Zenon
            <4>2. f[n] = g[n] /\ f[n - 1] = g[n - 1]
                BY <3>3
            <4> QED
                BY <3>3, <4>1, <4>2
        <3> QED
            BY <3>1, <3>2, <3>3
    <2>3. Def(f, m)
        <3> DEFINE h == [n \in 0 .. m |-> IF n = 0 THEN {} ELSE Folded(events, run, f[n - 1], n)]
        <3>1. \A n \in 0 .. m : f[n] = h[n]
            BY <2>2
        <3>2. f = h
            BY <3>1
        <3> QED
            BY <3>2
    <2>4. m \in Nat
        OBVIOUS
    <2> HIDE DEF f, Def
    <2> QED
        BY <2>3, <2>4, Zenon
<1>3. Len(events) \in S
    <2>1. \A n \in 0 .. Len(events) : n \in S
        BY <1>1, <1>2, UpTo
    <2>2. Len(events) \in 0 .. Len(events)
        OBVIOUS
    <2> HIDE DEF S
    <2> QED
        BY <2>1, <2>2
<1> DEFINE kept == CHOOSE f : Def(f, Len(events))
<1>4. Def(kept, Len(events))
    BY <1>3
<1>5. Squashed(events, run) = kept[Len(events)]
    BY DEF Squashed, Folded
<1>6. kept[0] = {} /\ \A n \in 1 .. Len(events) : kept[n] = Folded(events, run, kept[n - 1], n)
    <2> HIDE DEF kept
    <2>1. 0 \in 0 .. Len(events)
        OBVIOUS
    <2>2. ASSUME NEW n \in 1 .. Len(events)
          PROVE  kept[n] = Folded(events, run, kept[n - 1], n)
        <3>1. n \in 0 .. Len(events) /\ n # 0
            OBVIOUS
        <3> QED
            BY <1>4, <3>1, Zenon
    <2>3. kept[0] = {}
        BY <1>4, <2>1, Zenon
    <2> QED
        BY <2>2, <2>3
<1> QED
    BY <1>5, <1>6 DEF IsFolding

\* A log as squash reads it: every event at its position, entities' events and Resyncs.
Sent == [at : Nat, tag : {"Insert", "Update", "Delete", "Resync"},
         entity : Entities \cup {"none"},
         model : {EntityModel[e] : e \in Entities} \cup {"none"},
         target : {"none", "All"} \cup Groups \cup Known,
         groups : SUBSET Groups]

WellNamed(r) ==
    IF r.tag = "Resync" THEN r.entity = "none"
    ELSE r.entity \in Entities /\ r.model = EntityModel[r.entity]

IsLog(events) ==
    /\ Len(events) \in Nat
    /\ \A n \in 1 .. Len(events) : events[n] \in Sent /\ events[n].at = n /\ WellNamed(events[n])

\* No delete of an entity comes right before an update of it in the run.
NoUpdateAfterDelete(events, run) ==
    \A n, m \in run :
        /\ n < m /\ events[n].entity = events[m].entity
        /\ events[n].tag = "Delete" /\ events[m].tag = "Update"
        => \E k \in run : n < k /\ k < m /\ events[k].entity = events[n].entity

\* What is kept are the last events of their entities, deletes where those are deletes,
\* and Resyncs as they are.
KeptAreLast(events, run, kept, n) ==
    \A r \in kept :
        /\ r \in Sent /\ r.at \in run /\ r.at \in 1 .. n /\ WellNamed(r)
        /\ r.entity = events[r.at].entity /\ (r.tag = "Resync" <=> events[r.at].tag = "Resync")
        /\ r.tag # "Resync" =>
              /\ r.tag = "Delete" <=> events[r.at].tag = "Delete"
              /\ \A k \in r.at + 1 .. n : k \in run => events[k].entity # r.entity

OnePerEntity(kept) ==
    \A r, s \in kept : r.tag # "Resync" /\ s.tag # "Resync" /\ r.entity = s.entity => r = s

\* The last Resync of the run is kept.
LastResyncKept(events, run, kept, n) ==
    \A p \in 1 .. n :
        /\ p \in run /\ events[p].tag = "Resync"
        /\ \A k \in p + 1 .. n : k \in run => events[k].tag # "Resync"
        => \E r \in kept : r.tag = "Resync" /\ r.at = p

\* An entity that ends inserted or updated, with no Resync after it, is kept.
UpsertsKept(events, run, kept, n) ==
    \A m \in 1 .. n :
        /\ m \in run /\ events[m].tag \in {"Insert", "Update"}
        /\ \A k \in m + 1 .. n : k \in run => events[k].tag # "Resync" /\ events[k].entity # events[m].entity
        => \E r \in kept : r.tag # "Resync" /\ r.entity = events[m].entity

\* Without Resyncs an entity of the run is kept, as an update or a delete, unless the
\* first of its events there is an insert.
FirstInserted(events, run, e, n) ==
    \E f \in 1 .. n : /\ f \in run /\ events[f].entity = e /\ events[f].tag = "Insert"
                      /\ \A k \in 1 .. f - 1 : k \in run => events[k].entity # e

DroppedWereInserted(events, run, kept, n) ==
    (\A k \in 1 .. n : k \in run => events[k].tag # "Resync") =>
        \A m \in 1 .. n : m \in run =>
            \/ FirstInserted(events, run, events[m].entity, n)
            \/ \E r \in kept : r.entity = events[m].entity /\ r.tag \in {"Update", "Delete"}

SquashFacts(events, run, kept, n) ==
    /\ KeptAreLast(events, run, kept, n)
    /\ OnePerEntity(kept)
    /\ LastResyncKept(events, run, kept, n)
    /\ UpsertsKept(events, run, kept, n)
    /\ DroppedWereInserted(events, run, kept, n)

\* A position that is not in the run changes nothing.
LEMMA SkippedPosition ==
    ASSUME NEW events, NEW run, NEW kept, NEW n \in Nat \ {0}, n \notin run, IsLog(events),
           n <= Len(events), SquashFacts(events, run, kept, n - 1)
    PROVE  SquashFacts(events, run, kept, n)
<1>1. KeptAreLast(events, run, kept, n)
    BY DEF SquashFacts, KeptAreLast
<1>2. OnePerEntity(kept)
    BY DEF SquashFacts
<1>3. LastResyncKept(events, run, kept, n)
    BY DEF SquashFacts, LastResyncKept
<1>4. UpsertsKept(events, run, kept, n)
    BY DEF SquashFacts, UpsertsKept
<1>5. DroppedWereInserted(events, run, kept, n)
    <2>1. \A e : FirstInserted(events, run, e, n - 1) => FirstInserted(events, run, e, n)
        BY DEF FirstInserted
    <2>2. \A m \in 1 .. n : m \in run => m \in 1 .. n - 1
        OBVIOUS
    <2>3. \A m \in 1 .. n - 1 : m \in 1 .. n
        OBVIOUS
    <2> QED
        BY <2>1, <2>2, <2>3 DEF SquashFacts, DroppedWereInserted
<1> QED
    BY <1>1, <1>2, <1>3, <1>4, <1>5 DEF SquashFacts

\* A Resync takes away what it supersedes and is kept itself.
LEMMA ResyncPosition ==
    ASSUME NEW events, NEW run, NEW kept, NEW n \in Nat \ {0}, n \in run, IsLog(events),
           n <= Len(events), events[n].tag = "Resync", SquashFacts(events, run, kept, n - 1)
    PROVE  SquashFacts(events, run, ApplyResync(kept, events[n]), n)
<1> DEFINE after == ApplyResync(kept, events[n])
<1>1. events[n] \in Sent /\ events[n].at = n /\ WellNamed(events[n]) /\ events[n].entity = "none"
    BY DEF IsLog, WellNamed
<1>2. events[n] \in after /\ \A r \in after : r \in kept \/ r = events[n]
    BY DEF ApplyResync
<1> HIDE DEF after
<1>3. KeptAreLast(events, run, after, n)
    <2>1. ASSUME NEW r \in after, r = events[n]
          PROVE  /\ r \in Sent /\ r.at \in run /\ r.at \in 1 .. n /\ WellNamed(r)
                 /\ r.entity = events[r.at].entity /\ events[r.at].tag = "Resync" /\ r.tag = "Resync"
        BY <1>1, <2>1
    <2>2. ASSUME NEW r \in after, r \in kept
          PROVE  /\ r \in Sent /\ r.at \in run /\ r.at \in 1 .. n /\ WellNamed(r)
                 /\ r.entity = events[r.at].entity /\ (r.tag = "Resync" <=> events[r.at].tag = "Resync")
                 /\ r.tag # "Resync" =>
                       /\ r.tag = "Delete" <=> events[r.at].tag = "Delete"
                       /\ \A k \in r.at + 1 .. n : k \in run => events[k].entity # r.entity
        <3>1. /\ r \in Sent /\ r.at \in run /\ r.at \in 1 .. n - 1 /\ WellNamed(r)
              /\ r.entity = events[r.at].entity /\ (r.tag = "Resync" <=> events[r.at].tag = "Resync")
              /\ r.tag # "Resync" =>
                    /\ r.tag = "Delete" <=> events[r.at].tag = "Delete"
                    /\ \A k \in r.at + 1 .. n - 1 : k \in run => events[k].entity # r.entity
            BY <2>2 DEF SquashFacts, KeptAreLast
        <3>2. r.tag # "Resync" => events[n].entity # r.entity
            BY <1>1, <3>1, FeedConstants DEF WellNamed
        <3> QED
            BY <3>1, <3>2
    <2> QED
        BY <1>2, <2>1, <2>2 DEF KeptAreLast
<1>4. OnePerEntity(after)
    BY <1>2 DEF SquashFacts, OnePerEntity
<1>5. LastResyncKept(events, run, after, n)
    <2>1. ASSUME NEW p \in 1 .. n, \A k \in p + 1 .. n : k \in run => events[k].tag # "Resync"
          PROVE  p = n
        BY <2>1
    <2> QED
        BY <1>1, <1>2, <2>1 DEF LastResyncKept
<1>6. UpsertsKept(events, run, after, n)
    <2>1. ASSUME NEW m \in 1 .. n, \A k \in m + 1 .. n : k \in run => events[k].tag # "Resync"
          PROVE  m = n
        BY <2>1
    <2> QED
        BY <2>1 DEF UpsertsKept
<1>7. DroppedWereInserted(events, run, after, n)
    BY DEF DroppedWereInserted
<1> QED
    BY <1>3, <1>4, <1>5, <1>6, <1>7 DEF SquashFacts, after

\* The tag kept of an entity, "Drop" when nothing is.
Others(kept, e) == {r \in kept : ~(r.tag # "Resync" /\ r.entity = e)}
TagKept(kept, e, tag) ==
    IF \E r \in kept : r.tag # "Resync" /\ r.entity = e
    THEN \E r \in kept : r.tag # "Resync" /\ r.entity = e /\ r.tag = tag
    ELSE tag = "Drop"

\* foldEntity replaces what is kept of the entity by one event with the folded tag.
LEMMA FoldEntityResult ==
    ASSUME NEW kept, NEW event \in Sent, OnePerEntity(kept), event.tag # "Resync",
           NEW before \in {"Drop", "Insert", "Update", "Delete"},
           TagKept(kept, event.entity, before)
    PROVE  /\ FoldTag(before, event.tag) = "Drop" =>
                  FoldEntity(kept, event) = Others(kept, event.entity)
           /\ FoldTag(before, event.tag) # "Drop" =>
                  \E new \in Sent : /\ FoldEntity(kept, event) = Others(kept, event.entity) \cup {new}
                                    /\ new.tag = FoldTag(before, event.tag) /\ new.at = event.at
                                    /\ new.entity = event.entity /\ new.model = event.model
<1> DEFINE old == {r \in kept : r.tag # "Resync" /\ r.entity = event.entity}
           others == Others(kept, event.entity)
           tag == IF old = {} THEN event.tag ELSE FoldTag((CHOOSE r \in old : TRUE).tag, event.tag)
           new == [event EXCEPT !.tag = tag]
<1>1. tag = FoldTag(before, event.tag)
    <2>1. CASE old = {}
        BY <2>1 DEF FoldTag, TagKept
    <2>2. CASE old # {}
        <3>1. PICK x \in old : x.tag = before
            BY <2>2 DEF TagKept
        <3>2. \A y \in old : y = x
            BY <3>1 DEF OnePerEntity
        <3>3. (CHOOSE r \in old : TRUE) = x
            BY <3>1, <3>2
        <3> QED
            BY <2>2, <3>1, <3>3
    <2> QED
        BY <2>1, <2>2
<1>2. tag \in {"Drop", "Insert", "Update", "Delete"}
    BY <1>1 DEF FoldTag, Sent
<1>3. kept \ old = others
    BY DEF Others
<1>4. FoldEntity(kept, event) = others \cup (IF tag = "Drop" THEN {} ELSE {new})
    BY <1>3 DEF FoldEntity
<1>5. tag # "Drop" => /\ new \in Sent /\ new.tag = tag /\ new.at = event.at
                      /\ new.entity = event.entity /\ new.model = event.model
    <2> HIDE DEF tag
    <2> QED
        BY <1>2 DEF Sent
<1>6. CASE tag = "Drop"
    BY <1>1, <1>4, <1>6
<1>7. CASE tag # "Drop"
    <2>1. FoldEntity(kept, event) = others \cup {new}
        BY <1>4, <1>7
    <2> HIDE DEF tag, new, others
    <2>2. /\ new \in Sent /\ FoldEntity(kept, event) = others \cup {new}
          /\ new.tag = FoldTag(before, event.tag) /\ new.at = event.at
          /\ new.entity = event.entity /\ new.model = event.model
        BY <1>1, <1>5, <1>7, <2>1
    <2>3. FoldTag(before, event.tag) # "Drop"
        BY <1>1, <1>7
    <2> QED
        BY <2>2, <2>3 DEF others
<1> QED
    BY <1>6, <1>7

\* An entity's event takes the place of what was kept of it.
LEMMA EntityPosition ==
    ASSUME NEW events, NEW run, NEW kept, NEW n \in Nat \ {0}, n \in run, IsLog(events),
           n <= Len(events), events[n].tag # "Resync", run \subseteq 1 .. Len(events),
           NoUpdateAfterDelete(events, run), SquashFacts(events, run, kept, n - 1)
    PROVE  SquashFacts(events, run, FoldEntity(kept, events[n]), n)
<1> DEFINE event == events[n]
           e == events[n].entity
           after == FoldEntity(kept, event)
           Ours(r) == r.tag # "Resync" /\ r.entity = e
           others == Others(kept, e)
<1>1. /\ event \in Sent /\ event.at = n /\ WellNamed(event) /\ e \in Entities /\ event.model = EntityModel[e]
      /\ event.tag \in {"Insert", "Update", "Delete"}
    BY DEF IsLog, WellNamed, Sent
<1>2. /\ KeptAreLast(events, run, kept, n - 1) /\ OnePerEntity(kept)
      /\ LastResyncKept(events, run, kept, n - 1) /\ UpsertsKept(events, run, kept, n - 1)
      /\ DroppedWereInserted(events, run, kept, n - 1)
    BY DEF SquashFacts
<1>3. PICK before \in {"Drop", "Insert", "Update", "Delete"} : TagKept(kept, e, before)
    <2>1. CASE \E r \in kept : Ours(r)
        <3>1. PICK r \in kept : Ours(r)
            BY <2>1
        <3>2. r.tag \in {"Insert", "Update", "Delete"}
            BY <1>2, <3>1 DEF KeptAreLast, Sent
        <3> QED
            BY <2>1, <3>1, <3>2 DEF TagKept
    <2> QED
        BY <2>1 DEF TagKept
<1> DEFINE tag == FoldTag(before, event.tag)
<1>4. ~(before = "Delete" /\ event.tag = "Update")
    <2> SUFFICES ASSUME before = "Delete", event.tag = "Update" PROVE FALSE
        OBVIOUS
    <2>1. PICK r \in kept : Ours(r) /\ r.tag = "Delete"
        BY <1>3 DEF TagKept
    <2>2. /\ r.at \in run /\ r.at \in 1 .. n - 1 /\ events[r.at].tag = "Delete"
          /\ events[r.at].entity = e
          /\ \A k \in r.at + 1 .. n - 1 : k \in run => events[k].entity # e
        BY <1>2, <2>1 DEF KeptAreLast
    <2>3. PICK d : d = r.at
        OBVIOUS
    <2>4. d \in run /\ d \in 1 .. n - 1 /\ events[d].tag = "Delete" /\ events[d].entity = e
        BY <2>2, <2>3
    <2>5. d < n
        BY <2>4
    <2>6. PICK k \in run : d < k /\ k < n /\ events[k].entity = e
        BY <2>4, <2>5 DEF NoUpdateAfterDelete
    <2>7. k \in d + 1 .. n - 1
        <3>1. k \in Nat
            BY DEF IsLog
        <3> QED
            BY <2>4, <2>6, <3>1
    <2> QED
        BY <2>2, <2>3, <2>6, <2>7
<1>5. /\ tag \in {"Drop", "Insert", "Update", "Delete"}
      /\ tag = "Delete" => event.tag = "Delete"
      /\ event.tag = "Delete" => tag = "Delete" \/ (tag = "Drop" /\ before = "Insert")
      /\ tag = "Drop" => event.tag = "Delete" /\ before = "Insert"
      /\ before = "Drop" => tag = event.tag
      /\ before \in {"Update", "Delete"} => tag \in {"Update", "Delete"}
    BY <1>1, <1>4 DEF FoldTag
<1>6. IF tag = "Drop" THEN after = others
      ELSE \E new \in Sent : /\ after = others \cup {new} /\ new.tag = tag /\ new.at = n
                             /\ new.entity = e /\ new.model = event.model
    <2>1. /\ tag = "Drop" => after = Others(kept, event.entity)
          /\ tag # "Drop" =>
                 \E new \in Sent : /\ after = Others(kept, event.entity) \cup {new}
                                   /\ new.tag = tag /\ new.at = event.at
                                   /\ new.entity = event.entity /\ new.model = event.model
        <3> HIDE DEF event
        <3>1. event.tag # "Resync" /\ event.entity = e
            BY DEF event
        <3>2. TagKept(kept, event.entity, before)
            BY <1>3, <3>1
        <3> QED
            BY <1>1, <1>2, <3>1, <3>2, FoldEntityResult
    <2> QED
        BY <1>1, <2>1
<1> HIDE DEF after, tag
<1>7. \A r \in after : \/ r \in others
                       \/ /\ tag # "Drop" /\ r \in Sent /\ r.tag = tag /\ r.at = n /\ r.entity = e
                          /\ r.model = event.model
    BY <1>6 DEF Others
<1>8. others \subseteq after /\ (tag # "Drop" => \E r \in after : r.tag = tag /\ r.at = n /\ r.entity = e)
    BY <1>6
<1>9. KeptAreLast(events, run, after, n)
    <2>1. ASSUME NEW r \in after, r \in others
          PROVE  /\ r \in Sent /\ r.at \in run /\ r.at \in 1 .. n /\ WellNamed(r)
                 /\ r.entity = events[r.at].entity /\ (r.tag = "Resync" <=> events[r.at].tag = "Resync")
                 /\ r.tag # "Resync" =>
                       /\ r.tag = "Delete" <=> events[r.at].tag = "Delete"
                       /\ \A k \in r.at + 1 .. n : k \in run => events[k].entity # r.entity
        <3>1. /\ r \in Sent /\ r.at \in run /\ r.at \in 1 .. n - 1 /\ WellNamed(r)
              /\ r.entity = events[r.at].entity /\ (r.tag = "Resync" <=> events[r.at].tag = "Resync")
              /\ r.tag # "Resync" =>
                    /\ r.tag = "Delete" <=> events[r.at].tag = "Delete"
                    /\ \A k \in r.at + 1 .. n - 1 : k \in run => events[k].entity # r.entity
            BY <1>2, <2>1 DEF KeptAreLast, Others
        <3>2. r.tag # "Resync" => events[n].entity # r.entity
            BY <2>1 DEF Others
        <3> QED
            BY <3>1, <3>2
    <2>2. ASSUME NEW r \in after, tag # "Drop", r \in Sent, r.tag = tag, r.at = n, r.entity = e,
                 r.model = event.model
          PROVE  /\ r \in Sent /\ r.at \in run /\ r.at \in 1 .. n /\ WellNamed(r)
                 /\ r.entity = events[r.at].entity /\ r.tag # "Resync" /\ events[r.at].tag # "Resync"
                 /\ r.tag = "Delete" <=> events[r.at].tag = "Delete"
                 /\ \A k \in r.at + 1 .. n : k \in run => events[k].entity # r.entity
        BY <1>1, <1>5, <2>2 DEF WellNamed
    <2> QED
        BY <1>7, <2>1, <2>2 DEF KeptAreLast
<1>10. OnePerEntity(after)
    <2>1. IF tag = "Drop" THEN after = others
          ELSE \E new \in Sent : after = others \cup {new} /\ new.entity = e
        BY <1>6
    <2>2. OnePerEntity(others)
        BY <1>2 DEF OnePerEntity, Others
    <2>3. CASE tag = "Drop"
        BY <2>1, <2>2, <2>3
    <2>4. CASE tag # "Drop"
        <3>1. PICK new \in Sent : after = others \cup {new} /\ new.entity = e
            BY <2>1, <2>4
        <3>2. \A r \in others : r.tag # "Resync" => r.entity # e
            BY DEF Others
        <3> QED
            BY <2>2, <3>1, <3>2 DEF OnePerEntity
    <2> QED
        BY <2>3, <2>4
<1>11. LastResyncKept(events, run, after, n)
    <2> SUFFICES ASSUME NEW p \in 1 .. n, p \in run, events[p].tag = "Resync",
                        \A k \in p + 1 .. n : k \in run => events[k].tag # "Resync"
                 PROVE  \E r \in after : r.tag = "Resync" /\ r.at = p
        BY DEF LastResyncKept
    <2>1. p \in 1 .. n - 1 /\ \A k \in p + 1 .. n - 1 : k \in run => events[k].tag # "Resync"
        OBVIOUS
    <2>2. PICK r \in kept : r.tag = "Resync" /\ r.at = p
        BY <1>2, <2>1 DEF LastResyncKept
    <2> QED
        BY <1>8, <2>2 DEF Others
<1>12. UpsertsKept(events, run, after, n)
    <2> SUFFICES ASSUME NEW m \in 1 .. n, m \in run, events[m].tag \in {"Insert", "Update"},
                        \A k \in m + 1 .. n : k \in run =>
                            events[k].tag # "Resync" /\ events[k].entity # events[m].entity
                 PROVE  \E r \in after : r.tag # "Resync" /\ r.entity = events[m].entity
        BY DEF UpsertsKept
    <2>1. CASE m = n
        <3>1. tag # "Drop" /\ tag # "Resync"
            BY <1>5, <2>1
        <3> QED
            BY <1>8, <2>1, <3>1
    <2>2. CASE m \in 1 .. n - 1
        <3>1. PICK r \in kept : r.tag # "Resync" /\ r.entity = events[m].entity
            BY <1>2, <2>2 DEF UpsertsKept
        <3>2. events[m].entity # e
            BY <2>2
        <3> QED
            BY <1>8, <3>1, <3>2 DEF Others
    <2> QED
        BY <2>1, <2>2
<1>13. DroppedWereInserted(events, run, after, n)
    <2> SUFFICES ASSUME \A k \in 1 .. n : k \in run => events[k].tag # "Resync",
                        NEW m \in 1 .. n, m \in run
                 PROVE  \/ FirstInserted(events, run, events[m].entity, n)
                        \/ \E r \in after : r.entity = events[m].entity /\ r.tag \in {"Update", "Delete"}
        BY DEF DroppedWereInserted
    <2>1. \A x : FirstInserted(events, run, x, n - 1) => FirstInserted(events, run, x, n)
        BY DEF FirstInserted
    <2>2. CASE events[m].entity # e
        <3>1. m \in 1 .. n - 1
            BY <2>2
        <3>2. \/ FirstInserted(events, run, events[m].entity, n - 1)
              \/ \E r \in kept : r.entity = events[m].entity /\ r.tag \in {"Update", "Delete"}
            BY <1>2, <3>1 DEF DroppedWereInserted
        <3> QED
            BY <1>8, <2>1, <2>2, <3>2 DEF Others
    <2>3. CASE events[m].entity = e /\ (\E k \in 1 .. n - 1 : k \in run /\ events[k].entity = e)
        <3>1. PICK k \in 1 .. n - 1 : k \in run /\ events[k].entity = e
            BY <2>3
        <3>2. \/ FirstInserted(events, run, e, n - 1)
              \/ \E r \in kept : r.entity = e /\ r.tag \in {"Update", "Delete"}
            BY <1>2, <3>1 DEF DroppedWereInserted
        <3>3. ASSUME NEW r \in kept, r.entity = e, r.tag \in {"Update", "Delete"}
              PROVE  \E s \in after : s.entity = e /\ s.tag \in {"Update", "Delete"}
            <4>1. before \in {"Update", "Delete"}
                BY <1>2, <1>3, <3>3 DEF OnePerEntity, TagKept
            <4> QED
                BY <1>5, <1>8, <4>1
        <3> QED
            BY <2>1, <2>3, <3>2, <3>3
    <2>4. CASE events[m].entity = e /\ ~(\E k \in 1 .. n - 1 : k \in run /\ events[k].entity = e)
        <3>1. before = "Drop"
            BY <1>2, <1>3, <2>4 DEF KeptAreLast, TagKept
        <3>2. tag = event.tag
            BY <1>5, <3>1
        <3>3. CASE event.tag = "Insert"
            BY <2>4, <3>3 DEF FirstInserted
        <3>4. CASE event.tag # "Insert"
            BY <1>1, <1>8, <2>4, <3>2, <3>4
        <3> QED
            BY <3>3, <3>4
    <2> QED
        BY <2>2, <2>3, <2>4
<1> QED
    BY <1>9, <1>10, <1>11, <1>12, <1>13 DEF SquashFacts, after

\* What squash returns for a run without an update right after a delete.
LEMMA SquashReturns ==
    ASSUME NEW events, NEW run, IsLog(events), run \subseteq 1 .. Len(events),
           NoUpdateAfterDelete(events, run)
    PROVE  SquashFacts(events, run, Squashed(events, run), Len(events))
<1>1. PICK kept : IsFolding(kept, events, run) /\ Squashed(events, run) = kept[Len(events)]
    BY SquashedByFolding DEF IsLog
<1> DEFINE S == {n \in 0 .. Len(events) : SquashFacts(events, run, kept[n], n)}
<1>2. Len(events) \in Nat
    BY DEF IsLog
<1>3. 0 \in S
    <2>1. kept[0] = {}
        BY <1>1 DEF IsFolding
    <2>2. SquashFacts(events, run, {}, 0)
        BY DEF SquashFacts, KeptAreLast, OnePerEntity, LastResyncKept, UpsertsKept, DroppedWereInserted
    <2>3. SquashFacts(events, run, kept[0], 0)
        BY <2>1, <2>2
    <2>4. 0 \in 0 .. Len(events)
        BY <1>2
    <2> QED
        BY <2>3, <2>4
<1>4. ASSUME NEW n \in 1 .. Len(events), n - 1 \in S PROVE n \in S
    <2>1. SquashFacts(events, run, kept[n - 1], n - 1)
        BY <1>4
    <2>2. kept[n] = Folded(events, run, kept[n - 1], n)
        BY <1>1 DEF IsFolding
    <2>3. n \in Nat \ {0} /\ n <= Len(events) /\ n \in 0 .. Len(events)
        BY <1>2
    <2> DEFINE prior == kept[n - 1]
    <2> HIDE DEF prior
    <2>4. SquashFacts(events, run, prior, n - 1) /\ kept[n] = Folded(events, run, prior, n)
        BY <2>1, <2>2 DEF prior
    <2>5. CASE n \notin run
        <3>1. SquashFacts(events, run, prior, n)
            BY <2>3, <2>4, <2>5, SkippedPosition
        <3> QED
            BY <2>3, <2>4, <2>5, <3>1 DEF Folded
    <2>6. CASE n \in run /\ events[n].tag = "Resync"
        <3>1. SquashFacts(events, run, ApplyResync(prior, events[n]), n)
            BY <2>3, <2>4, <2>6, ResyncPosition
        <3> QED
            BY <2>3, <2>4, <2>6, <3>1 DEF Folded
    <2>7. CASE n \in run /\ events[n].tag # "Resync"
        <3>1. SquashFacts(events, run, FoldEntity(prior, events[n]), n)
            BY <2>3, <2>4, <2>7, EntityPosition
        <3> QED
            BY <2>3, <2>4, <2>7, <3>1 DEF Folded
    <2> QED
        BY <2>5, <2>6, <2>7
<1>5. \A n \in 0 .. Len(events) : n \in S
    <2> HIDE DEF S
    <2> QED
        BY <1>2, <1>3, <1>4, UpTo
<1> QED
    BY <1>1, <1>2, <1>5

-----------------------------------------------------------------------------
(* The shapes of the state *)

RowsOK ==
    /\ rows \in [Entities -> [groups : SUBSET Groups, version : 0 .. written]]
    /\ \A e \in Entities : rows[e] # Absent => rows[e].groups # {} /\ rows[e].version # 0

TablesOK ==
    /\ RowsOK
    /\ log \in Seq(Event) /\ \A n \in 1 .. Len(log) : log[n].at = n /\ WellNamed(log[n])
    /\ epoch \in Nat \ {0} /\ retained \in 0 .. Len(log) /\ written \in Nat /\ Len(log) <= written

ReadersOK ==
    /\ faults \in Nat
    /\ stream \in [state : {"closed", "reading"}, cursor : Nat, epoch : Nat]
    /\ read \in [pc : {"idle", "head", "list", "hydrate"}, epoch : Nat, last : Nat,
                 events : SUBSET Sent, todo : SUBSET Entities, data : [Entities -> 0 .. written]]
    /\ frame \in [sent : BOOLEAN, epoch : Nat, last : Nat, events : SUBSET Sent,
                  data : [Entities -> 0 .. written]]
    /\ client \in [cursor : Nat, epoch : Nat, view : [Entities -> 0 .. written], list : BOOLEAN]
    /\ \A r \in read.events \cup frame.events : WellNamed(r)

\* Who holds what: one read at a time, no frame while reading, and a stream that
\* continues where the subscriber is, or will be once it has the frame on its way.
Flow ==
    /\ read.pc = "idle" => read = Idle
    /\ read.pc \in {"head", "list"} => read.data = NoData
    /\ read.pc # "idle" => /\ stream.state = "reading" /\ ~frame.sent
                           /\ read.epoch \in 1 .. epoch /\ client.epoch <= read.epoch
    /\ ~frame.sent => frame = NoFrame
    /\ frame.sent => frame.epoch \in 1 .. epoch /\ client.epoch <= frame.epoch
    /\ client.epoch <= epoch
    /\ stream.state = "reading" /\ ~frame.sent =>
           stream.cursor = client.cursor /\ stream.epoch = client.epoch
    /\ stream.state = "reading" /\ frame.sent =>
           /\ stream.cursor = frame.last /\ stream.epoch = frame.epoch
           /\ client.epoch \in {NoEpoch, frame.epoch} /\ ~HasResync(frame.events)
    /\ client.epoch = NoEpoch => client.cursor = 0
    /\ client.list => client.view = NoData

OnTimeline == client.epoch \in {NoEpoch, epoch}
ReadHere == read.pc \in {"list", "hydrate"} /\ read.epoch = epoch
FrameHere == frame.sent /\ frame.epoch = epoch

\* Within one timeline no place is ahead of the log, and places only move forward.
Places ==
    /\ client.epoch = epoch => client.cursor <= Len(log)
    /\ ReadHere => read.last <= Len(log)
    /\ FrameHere => frame.last <= Len(log)
    /\ OnTimeline /\ ReadHere => client.cursor <= read.last
    /\ OnTimeline /\ FrameHere => client.cursor <= frame.last

FeedShape == TablesOK /\ ReadersOK /\ Flow /\ Places

\* appendEvent gives the event the position after the last and leaves the others.
LEMMA DispatchAppends ==
    ASSUME TablesOK, NEW event, Dispatch(event),
           [event EXCEPT !.at = Len(log) + 1] \in Event,
           WellNamed([event EXCEPT !.at = Len(log) + 1]),
           [event EXCEPT !.at = Len(log) + 1].at = Len(log) + 1
    PROVE  /\ log' \in Seq(Event) /\ Len(log') = Len(log) + 1
           /\ \A n \in 1 .. Len(log) : log'[n] = log[n]
           /\ log'[Len(log) + 1] = [event EXCEPT !.at = Len(log) + 1]
           /\ \A n \in 1 .. Len(log') : log'[n].at = n /\ WellNamed(log'[n])
           /\ written' = written + 1 /\ UNCHANGED <<epoch, retained, stream, read, frame, client, faults>>
<1> DEFINE new == [event EXCEPT !.at = Len(log) + 1]
<1>1. log \in Seq(Event) /\ Len(log) \in Nat /\ new \in Event
    BY DEF TablesOK
<1>2. log' = Append(log, new) /\ written' = written + 1
      /\ UNCHANGED <<epoch, retained, stream, read, frame, client, faults>>
    BY DEF Dispatch
<1>3. \A n \in 1 .. Len(log) : log[n].at = n /\ WellNamed(log[n])
    BY DEF TablesOK
<1>4. WellNamed(new) /\ new.at = Len(log) + 1
    OBVIOUS
<1> HIDE DEF new
<1>5. /\ log' \in Seq(Event) /\ Len(log') = Len(log) + 1
      /\ \A n \in 1 .. Len(log) : log'[n] = log[n]
      /\ log'[Len(log) + 1] = new
    BY <1>1, <1>2
<1>6. ASSUME NEW n \in 1 .. Len(log') PROVE log'[n].at = n /\ WellNamed(log'[n])
    <2>1. CASE n \in 1 .. Len(log)
        BY <1>3, <1>5, <2>1
    <2>2. CASE n = Len(log) + 1
        BY <1>4, <1>5, <2>2
    <2> QED
        BY <1>1, <1>5, <2>1, <2>2
<1> QED
    BY <1>2, <1>5, <1>6 DEF new

\* A write of a row appends an event of its entity, to the groups of before and after.
LEMMA UpsertDispatches ==
    ASSUME TablesOK, NEW e \in Entities, NEW groups \in Homes, Upsert(e, groups)
    PROVE  \E new \in Event :
               /\ new.at = Len(log) + 1 /\ new.entity = e /\ new.groups = groups \cup rows[e].groups
               /\ new.tag = IF rows[e] = Absent THEN "Insert" ELSE "Update"
               /\ log' \in Seq(Event) /\ Len(log') = Len(log) + 1
               /\ \A n \in 1 .. Len(log) : log'[n] = log[n]
               /\ log'[Len(log) + 1] = new
               /\ \A n \in 1 .. Len(log') : log'[n].at = n /\ WellNamed(log'[n])
               /\ written' = written + 1 /\ UNCHANGED <<epoch, retained, stream, read, frame, client, faults>>
               /\ rows' = [rows EXCEPT ![e] = [groups |-> groups, version |-> written + 1]]
<1> DEFINE tag == IF rows[e] = Absent THEN "Insert" ELSE "Update"
           event == EntityEvent(tag, e, groups \cup rows[e].groups)
           new == [event EXCEPT !.at = Len(log) + 1]
<1>1. Len(log) \in Nat /\ rows[e].groups \subseteq Groups /\ groups \subseteq Groups /\ groups # {}
    BY FeedConstants DEF TablesOK, RowsOK
<1>2. tag \in {"Insert", "Update"}
    OBVIOUS
<1>3. /\ new \in Event /\ new.at = Len(log) + 1 /\ new.entity = e
      /\ new.groups = groups \cup rows[e].groups /\ new.tag = tag /\ WellNamed(new)
    <2> HIDE DEF tag
    <2> QED
        BY <1>1, <1>2 DEF EntityEvent, Event, WellNamed
<1>4. Dispatch(event) /\ rows' = [rows EXCEPT ![e] = [groups |-> groups, version |-> written + 1]]
    BY DEF Upsert
<1> HIDE DEF event
<1>5. /\ log' \in Seq(Event) /\ Len(log') = Len(log) + 1
      /\ \A n \in 1 .. Len(log) : log'[n] = log[n]
      /\ log'[Len(log) + 1] = new
      /\ \A n \in 1 .. Len(log') : log'[n].at = n /\ WellNamed(log'[n])
      /\ written' = written + 1 /\ UNCHANGED <<epoch, retained, stream, read, frame, client, faults>>
    BY <1>3, <1>4, DispatchAppends
<1> HIDE DEF new
<1> QED
    BY <1>3, <1>4, <1>5

\* So does the removal of one.
LEMMA RemoveDispatches ==
    ASSUME TablesOK, NEW e \in Entities, RemoveRow(e)
    PROVE  \E new \in Event :
               /\ new.at = Len(log) + 1 /\ new.entity = e /\ new.groups = rows[e].groups
               /\ new.tag = "Delete"
               /\ log' \in Seq(Event) /\ Len(log') = Len(log) + 1
               /\ \A n \in 1 .. Len(log) : log'[n] = log[n]
               /\ log'[Len(log) + 1] = new
               /\ \A n \in 1 .. Len(log') : log'[n].at = n /\ WellNamed(log'[n])
               /\ written' = written + 1 /\ UNCHANGED <<epoch, retained, stream, read, frame, client, faults>>
               /\ rows' = [rows EXCEPT ![e] = Absent] /\ rows[e] # Absent
<1> DEFINE event == EntityEvent("Delete", e, rows[e].groups)
           new == [event EXCEPT !.at = Len(log) + 1]
<1>1. Len(log) \in Nat /\ rows[e].groups \subseteq Groups /\ rows[e].groups # {}
    <2>1. rows[e] # Absent
        BY DEF RemoveRow
    <2> QED
        BY <2>1, FeedConstants DEF TablesOK, RowsOK
<1>2. /\ new \in Event /\ new.at = Len(log) + 1 /\ new.entity = e
      /\ new.groups = rows[e].groups /\ new.tag = "Delete" /\ WellNamed(new)
    BY <1>1 DEF EntityEvent, Event, WellNamed
<1>3. Dispatch(event) /\ rows' = [rows EXCEPT ![e] = Absent] /\ rows[e] # Absent
    BY DEF RemoveRow
<1> HIDE DEF event
<1>4. /\ log' \in Seq(Event) /\ Len(log') = Len(log) + 1
      /\ \A n \in 1 .. Len(log) : log'[n] = log[n]
      /\ log'[Len(log) + 1] = new
      /\ \A n \in 1 .. Len(log') : log'[n].at = n /\ WellNamed(log'[n])
      /\ written' = written + 1 /\ UNCHANGED <<epoch, retained, stream, read, frame, client, faults>>
    BY <1>2, <1>3, DispatchAppends
<1> HIDE DEF new
<1> QED
    BY <1>2, <1>3, <1>4

\* A Resync is an event of no entity, and leaves the rows alone.
LEMMA AnnounceDispatches ==
    ASSUME TablesOK, NEW target \in Targets, Announce(target)
    PROVE  \E new \in Event :
               /\ new.at = Len(log) + 1 /\ new.entity = "none" /\ new.tag = "Resync"
               /\ log' \in Seq(Event) /\ Len(log') = Len(log) + 1
               /\ \A n \in 1 .. Len(log) : log'[n] = log[n]
               /\ log'[Len(log) + 1] = new
               /\ \A n \in 1 .. Len(log') : log'[n].at = n /\ WellNamed(log'[n])
               /\ written' = written + 1 /\ UNCHANGED <<epoch, retained, stream, read, frame, client, faults>>
               /\ rows' = rows
<1> DEFINE to == IF target \in Groups THEN {target} ELSE Groups
           event == [at |-> 0, tag |-> "Resync", entity |-> "none", model |-> "none",
                     target |-> target, groups |-> to]
           new == [event EXCEPT !.at = Len(log) + 1]
<1>1. Len(log) \in Nat /\ to \subseteq Groups /\ to # {} /\ target \in {"none", "All"} \cup Groups \cup Known
    BY FeedConstants DEF TablesOK, RowsOK
<1>2. Dispatch(event) /\ rows' = rows
    BY DEF Announce
<1> HIDE DEF to
<1>3. /\ new \in Event /\ new.at = Len(log) + 1 /\ new.entity = "none"
      /\ new.tag = "Resync" /\ WellNamed(new)
    <2>1. new = [at |-> Len(log) + 1, tag |-> "Resync", entity |-> "none", model |-> "none",
                 target |-> target, groups |-> to]
        OBVIOUS
    <2>2. /\ new.at = Len(log) + 1 /\ new.entity = "none" /\ new.tag = "Resync"
        BY <2>1
    <2>3. to \in (SUBSET Groups) \ {{}} /\ Len(log) + 1 \in Nat \ {0}
        BY <1>1
    <2>4. new \in Event
        <3>1. "none" \in {EntityModel[e] : e \in Entities} \cup {"none"} /\ "none" \in Entities \cup {"none"}
            OBVIOUS
        <3>2. "Resync" \in {"Insert", "Update", "Delete", "Resync"}
            OBVIOUS
        <3> HIDE DEF new
        <3> QED
            BY <1>1, <2>1, <2>3, <3>1, <3>2, Zenon DEF Event
    <2> QED
        BY <2>2, <2>4 DEF WellNamed
<1> HIDE DEF event
<1>4. /\ log' \in Seq(Event) /\ Len(log') = Len(log) + 1
      /\ \A n \in 1 .. Len(log) : log'[n] = log[n]
      /\ log'[Len(log) + 1] = new
      /\ \A n \in 1 .. Len(log') : log'[n].at = n /\ WellNamed(log'[n])
      /\ written' = written + 1 /\ UNCHANGED <<epoch, retained, stream, read, frame, client, faults>>
    BY <1>2, <1>3, DispatchAppends
<1> HIDE DEF new
<1> QED
    BY <1>2, <1>3, <1>4

-----------------------------------------------------------------------------
(* What a step does to the tables *)

\* The log only grows, by events whose place in it tells their version; or it starts over
\* on a new timeline, under readers that notice later.
Grows ==
    /\ Len(log') \in Nat /\ written' \in Nat /\ written <= written'
    /\ \/ /\ epoch' = epoch /\ Len(log) <= Len(log') /\ written' - Len(log') = written - Len(log)
          /\ \A n \in 1 .. Len(log) : log'[n] = log[n]
       \/ epoch' = epoch + 1 /\ Len(log') = 0 /\ UNCHANGED <<written, stream, read, frame, client>>
    /\ UNCHANGED tables \/ UNCHANGED <<stream, read, frame, client>>

\* A row of the next state.
Versioned == [groups : SUBSET Groups, version : 0 .. written']

\* A row written or removed leaves the rows well formed.
LEMMA RowWritten ==
    ASSUME RowsOK, written \in Nat, written' = written + 1, NEW e \in Entities, NEW row \in Versioned,
           row # Absent => row.groups # {} /\ row.version # 0, rows' = [rows EXCEPT ![e] = row]
    PROVE  RowsOK'
<1>1. rows \in [Entities -> Versioned]
    BY DEF RowsOK, Versioned
<1>2. rows' \in [Entities -> Versioned]
    BY <1>1
<1>3. ASSUME NEW x \in Entities, rows'[x] # Absent PROVE rows'[x].groups # {} /\ rows'[x].version # 0
    <2>1. rows'[x] = IF x = e THEN row ELSE rows[x]
        BY <1>1
    <2> QED
        BY <1>3, <2>1 DEF RowsOK
<1> QED
    BY <1>2, <1>3 DEF RowsOK, Versioned, Absent

\* The tables keep their shape at every step.
LEMMA TablesStep ==
    ASSUME TablesOK, [FNext]_fvars
    PROVE  TablesOK' /\ Grows
<1>1. Len(log) \in Nat /\ written \in Nat /\ retained \in 0 .. Len(log) /\ epoch \in Nat \ {0}
      /\ Len(log) <= written /\ RowsOK
    BY DEF TablesOK, RowsOK
<1>2. CASE UNCHANGED tables
    BY <1>1, <1>2 DEF TablesOK, RowsOK, tables, Grows, WellNamed
<1>3. ASSUME log' \in Seq(Event), Len(log') = Len(log) + 1, written' = written + 1,
             \A n \in 1 .. Len(log) : log'[n] = log[n],
             \A n \in 1 .. Len(log') : log'[n].at = n /\ WellNamed(log'[n]),
             UNCHANGED <<epoch, retained, stream, read, frame, client, faults>>, RowsOK'
      PROVE  TablesOK' /\ Grows
    <2>1. Grows
        BY <1>1, <1>3 DEF Grows
    <2>2. TablesOK'
        BY <1>1, <1>3 DEF TablesOK, RowsOK, WellNamed
    <2> QED
        BY <2>1, <2>2
<1>4. ASSUME NEW e \in Entities, NEW groups \in Homes, Upsert(e, groups) PROVE TablesOK' /\ Grows
    <2>1. /\ log' \in Seq(Event) /\ Len(log') = Len(log) + 1 /\ written' = written + 1
          /\ \A n \in 1 .. Len(log) : log'[n] = log[n]
          /\ \A n \in 1 .. Len(log') : log'[n].at = n /\ WellNamed(log'[n])
          /\ UNCHANGED <<epoch, retained, stream, read, frame, client, faults>>
          /\ rows' = [rows EXCEPT ![e] = [groups |-> groups, version |-> written + 1]]
        BY <1>4, UpsertDispatches
    <2>2. groups \subseteq Groups /\ groups # {}
        BY FeedConstants
    <2>3. RowsOK'
        <3>1. /\ [groups |-> groups, version |-> written + 1] \in Versioned
              /\ [groups |-> groups, version |-> written + 1].groups # {}
              /\ [groups |-> groups, version |-> written + 1].version # 0
            BY <1>1, <2>1, <2>2 DEF Versioned
        <3> QED
            BY <1>1, <2>1, <3>1, RowWritten
    <2> QED
        BY <1>3, <2>1, <2>3
<1>5. ASSUME NEW e \in Entities, RemoveRow(e) PROVE TablesOK' /\ Grows
    <2>1. /\ log' \in Seq(Event) /\ Len(log') = Len(log) + 1 /\ written' = written + 1
          /\ \A n \in 1 .. Len(log) : log'[n] = log[n]
          /\ \A n \in 1 .. Len(log') : log'[n].at = n /\ WellNamed(log'[n])
          /\ UNCHANGED <<epoch, retained, stream, read, frame, client, faults>>
          /\ rows' = [rows EXCEPT ![e] = Absent]
        BY <1>5, RemoveDispatches
    <2>2. RowsOK'
        <3>1. Absent \in Versioned
            BY <1>1, <2>1 DEF Absent, Versioned
        <3> QED
            BY <1>1, <2>1, <3>1, RowWritten
    <2> QED
        BY <1>3, <2>1, <2>2
<1>6. ASSUME NEW target \in Targets, Announce(target) PROVE TablesOK' /\ Grows
    <2>1. /\ log' \in Seq(Event) /\ Len(log') = Len(log) + 1 /\ written' = written + 1
          /\ \A n \in 1 .. Len(log) : log'[n] = log[n]
          /\ \A n \in 1 .. Len(log') : log'[n].at = n /\ WellNamed(log'[n])
          /\ UNCHANGED <<epoch, retained, stream, read, frame, client, faults>>
          /\ rows' = rows
        BY <1>6, AnnounceDispatches
    <2>2. RowsOK'
        BY <1>1, <2>1 DEF RowsOK
    <2> QED
        BY <1>3, <2>1, <2>2
<1>7. CASE Boot
    <2>1. log' = <<>> /\ retained' = 0 /\ epoch' = epoch + 1
          /\ UNCHANGED <<rows, stream, read, frame, client, written>>
        BY <1>7 DEF Boot
    <2>2. log' \in Seq(Event) /\ Len(log') = 0
        BY <2>1
    <2>3. TablesOK'
        BY <1>1, <2>1, <2>2 DEF TablesOK, RowsOK
    <2>4. Grows
        BY <1>1, <2>1, <2>2 DEF Grows
    <2> QED
        BY <2>3, <2>4
<1>8. CASE Prune
    <2>1. retained' \in 0 .. Len(log) /\ UNCHANGED <<rows, log, epoch, stream, read, frame, client, written>>
        BY <1>1, <1>8 DEF Prune
    <2>2. TablesOK'
        BY <2>1 DEF TablesOK, RowsOK, WellNamed
    <2>3. Grows
        BY <1>1, <2>1 DEF Grows
    <2> QED
        BY <2>2, <2>3
<1>9. CASE Lose \/ Feed \/ Subscriber \/ UNCHANGED fvars
    <2>1. UNCHANGED tables
        BY <1>9 DEF Lose, Feed, Subscriber, fvars, tables, ReadEpoch, ReadHead, List, Hydrate, Void, Emit,
                    Connect, Receive, ListAll
    <2> QED
        BY <1>2, <2>1
<1> QED
    BY <1>4, <1>5, <1>6, <1>7, <1>8, <1>9 DEF FNext, Application

-----------------------------------------------------------------------------
(* What a step does to the stream, the read, the frame and the subscriber *)

\* Whatever the run, squash returns events of the log under tags of events.
LEMMA SquashedAreEvents ==
    ASSUME NEW events, NEW run, IsLog(events)
    PROVE  \A r \in Squashed(events, run) : r \in Sent /\ WellNamed(r)
<1>1. PICK kept : IsFolding(kept, events, run) /\ Squashed(events, run) = kept[Len(events)]
    BY SquashedByFolding DEF IsLog
<1> DEFINE S == {n \in 0 .. Len(events) : \A r \in kept[n] : r \in Sent /\ WellNamed(r)}
<1>2. Len(events) \in Nat
    BY DEF IsLog
<1>3. 0 \in S
    BY <1>1, <1>2 DEF IsFolding
<1>4. ASSUME NEW n \in 1 .. Len(events), n - 1 \in S PROVE n \in S
    <2> DEFINE prior == kept[n - 1]
               event == events[n]
    <2>1. \A r \in prior : r \in Sent /\ WellNamed(r)
        BY <1>4
    <2>2. kept[n] = Folded(events, run, prior, n)
        BY <1>1 DEF IsFolding
    <2>3. event \in Sent /\ WellNamed(event)
        BY DEF IsLog
    <2>4. \A r \in ApplyResync(prior, event) : r \in Sent /\ WellNamed(r)
        <3> HIDE DEF prior, event
        <3> QED
            BY <2>1, <2>3 DEF ApplyResync
    <2>5. ASSUME event.tag # "Resync", NEW r \in FoldEntity(prior, event) PROVE r \in Sent /\ WellNamed(r)
        <3> HIDE DEF prior, event
        <3> DEFINE old == {x \in prior : x.tag # "Resync" /\ x.entity = event.entity}
                   tag == IF old = {} THEN event.tag ELSE FoldTag((CHOOSE x \in old : TRUE).tag, event.tag)
                   new == [event EXCEPT !.tag = tag]
        <3>1. r \in prior \/ (r = new /\ tag # "Drop")
            BY <2>5 DEF FoldEntity
        <3>2. tag \in {"Drop", "Insert", "Update", "Delete"}
            <4>1. event.tag \in {"Insert", "Update", "Delete"}
                BY <2>3, <2>5 DEF Sent
            <4>2. old # {} => (CHOOSE x \in old : TRUE) \in old
                OBVIOUS
            <4>3. \A x \in old : x.tag \in {"Insert", "Update", "Delete"}
                BY <2>1 DEF Sent
            <4> QED
                BY <4>1, <4>2, <4>3 DEF FoldTag
        <3>3. tag # "Drop" => /\ new \in Sent /\ new.tag # "Resync"
                              /\ new.entity = event.entity /\ new.model = event.model
            <4> HIDE DEF tag
            <4> QED
                BY <2>3, <3>2 DEF Sent
        <3>4. tag # "Drop" => WellNamed(new)
            <4> HIDE DEF new, tag
            <4> QED
                BY <2>3, <2>5, <3>3 DEF WellNamed
        <3> QED
            BY <2>1, <3>1, <3>3, <3>4
    <2>6. \A r \in kept[n] : r \in Sent /\ WellNamed(r)
        <3> HIDE DEF prior
        <3> QED
            BY <2>1, <2>2, <2>4, <2>5 DEF Folded
    <2> QED
        BY <1>2, <2>6
<1>5. \A n \in 0 .. Len(events) : n \in S
    <2> HIDE DEF S
    <2> QED
        BY <1>2, <1>3, <1>4, UpTo
<1> QED
    BY <1>1, <1>2, <1>5

\* The log is a log as squash reads it.
LEMMA LogIsLog ==
    ASSUME TablesOK
    PROVE  IsLog(log) /\ Len(log) \in Nat
<1>1. \A n \in 1 .. Len(log) : log[n] \in Event
    BY DEF TablesOK
<1>2. Event \subseteq Sent
    BY DEF Event, Sent
<1> QED
    BY <1>1, <1>2 DEF TablesOK, IsLog

\* hydrateEvents' output are events, and has a Resync when its input has.
LEMMA EnvelopesAreEvents ==
    ASSUME NEW events, NEW data, \A r \in events : r \in Sent /\ WellNamed(r)
    PROVE  /\ \A r \in Envelopes(events, data) : r \in Sent /\ WellNamed(r)
           /\ HasResync(events) <=> HasResync(Envelopes(events, data))
<1> DEFINE sent(r) == IF r.tag \in {"Insert", "Update"} /\ data[r.entity] = 0
                      THEN [r EXCEPT !.tag = "Delete"] ELSE r
           known == {x \in events : x.tag = "Resync" \/ x.model \in Known}
<1>1. Envelopes(events, data) = {sent(r) : r \in known}
    BY DEF Envelopes
<1>2. ASSUME NEW r \in events
      PROVE  sent(r) \in Sent /\ WellNamed(sent(r)) /\ (sent(r).tag = "Resync" <=> r.tag = "Resync")
    <2>1. CASE r.tag \in {"Insert", "Update"}
        <3> DEFINE deleted == [r EXCEPT !.tag = "Delete"]
        <3>1. deleted \in Sent /\ deleted.tag = "Delete" /\ deleted.entity = r.entity /\ deleted.model = r.model
            BY <2>1 DEF Sent
        <3>2. WellNamed(deleted)
            <4> HIDE DEF deleted
            <4> QED
                BY <2>1, <3>1 DEF WellNamed
        <3>3. sent(r) = deleted \/ sent(r) = r
            OBVIOUS
        <3> QED
            BY <2>1, <3>1, <3>2, <3>3
    <2>2. CASE r.tag \notin {"Insert", "Update"}
        BY <2>2
    <2> QED
        BY <2>1, <2>2
<1> HIDE DEF sent
<1>3. \A r \in events : r.tag = "Resync" => r \in known
    OBVIOUS
<1> QED
    BY <1>1, <1>2, <1>3 DEF HasResync

\* The same of a step that only moves readers, action by action.
LEMMA ReadersStep ==
    ASSUME FeedShape, UNCHANGED tables, Lose \/ Feed \/ Subscriber
    PROVE  ReadersOK' /\ Flow' /\ Places'
<1> USE DEF NoEpoch
<1>0. /\ TablesOK /\ ReadersOK /\ Flow /\ Places /\ Len(log) \in Nat /\ written \in Nat /\ epoch \in Nat \ {0}
      /\ UNCHANGED <<rows, log, epoch, retained, written>>
    BY DEF FeedShape, TablesOK, tables
<1>1. CASE Connect
    <2>1. /\ stream.state = "closed" /\ ~frame.sent /\ UNCHANGED <<read, frame, client, faults>>
          /\ stream' = [state |-> "reading", cursor |-> client.cursor, epoch |-> client.epoch]
        BY <1>1 DEF Connect
    <2>2. ReadersOK'
        BY <1>0, <2>1 DEF ReadersOK, WellNamed
    <2>3. Flow'
        BY <1>0, <2>1 DEF Flow, Idle, NoFrame, NoData
    <2>4. Places'
        BY <1>0, <2>1 DEF Places, OnTimeline, ReadHere, FrameHere
    <2> QED
        BY <2>2, <2>3, <2>4
<1>2. CASE Lose
    <2>1. /\ stream' = Closed /\ read' = Idle /\ frame' = NoFrame /\ faults' = faults + 1 /\ client' = client
        BY <1>2 DEF Lose
    <2>2. ReadersOK'
        BY <1>0, <2>1 DEF ReadersOK, Closed, Idle, NoFrame, NoData
    <2>3. Flow'
        BY <1>0, <2>1 DEF Flow, Closed, Idle, NoFrame, NoData
    <2>4. Places'
        BY <1>0, <2>1 DEF Places, OnTimeline, ReadHere, FrameHere, Idle, NoFrame
    <2> QED
        BY <2>2, <2>3, <2>4
<1>3. CASE ReadEpoch
    <2>1. /\ stream.state = "reading" /\ read.pc = "idle" /\ ~frame.sent
          /\ UNCHANGED <<stream, frame, client, faults>>
          /\ read' = [pc |-> "head", epoch |-> epoch, last |-> 0, events |-> {}, todo |-> {}, data |-> NoData]
        BY <1>3 DEF ReadEpoch, Idle
    <2>2. ReadersOK'
        BY <1>0, <2>1 DEF ReadersOK, NoData, WellNamed
    <2>3. Flow'
        BY <1>0, <2>1 DEF Flow, Idle, NoFrame, NoData
    <2>4. Places'
        BY <1>0, <2>1 DEF Places, OnTimeline, ReadHere, FrameHere
    <2> QED
        BY <2>2, <2>3, <2>4
<1>4. CASE ReadHead
    <2>1. /\ read.pc = "head" /\ UNCHANGED <<stream, frame, client, faults>>
          /\ read' = [read EXCEPT !.pc = "list", !.last = Len(log)]
        BY <1>4 DEF ReadHead
    <2>2. /\ read'.pc = "list" /\ read'.last = Len(log) /\ read'.epoch = read.epoch
          /\ read'.events = read.events /\ read'.data = read.data
        BY <1>0, <2>1 DEF ReadersOK
    <2>3. ReadersOK'
        BY <1>0, <2>1, <2>2 DEF ReadersOK, WellNamed
    <2>4. Flow'
        BY <1>0, <2>1, <2>2 DEF Flow, NoFrame, NoData
    <2>5. Places'
        <3>1. client.epoch <= epoch /\ (client.epoch = 0 => client.cursor = 0) /\ ~frame.sent
            BY <1>0, <2>1 DEF Flow
        <3> QED
            BY <1>0, <2>1, <2>2, <3>1 DEF Places, OnTimeline, ReadHere, FrameHere
    <2> QED
        BY <2>3, <2>4, <2>5
<1>5. CASE List
    <2>1. PICK events : /\ read.pc = "list" /\ UNCHANGED <<stream, frame, client, faults>>
                        /\ events = IF stream.cursor < retained THEN Synthetic(read.last)
                                    ELSE Squashed(log, Visible(read.last))
                        /\ read' = [read EXCEPT !.pc = "hydrate", !.events = events, !.todo = Wanted(events)]
        BY <1>5 DEF List
    <2>2. \A r \in events : r \in Sent /\ WellNamed(r)
        <3>1. CASE stream.cursor < retained
            <4> DEFINE resync == [at |-> read.last, tag |-> "Resync", entity |-> "none", model |-> "none",
                                  target |-> "All", groups |-> Mine]
            <4>1. Synthetic(read.last) \subseteq {resync}
                BY DEF Synthetic
            <4>2. resync \in Sent
                <5>1. read.last \in Nat /\ Mine \in SUBSET Groups
                    BY <1>0, FeedConstants DEF ReadersOK
                <5> QED
                    BY <5>1 DEF Sent
            <4>3. WellNamed(resync)
                BY DEF WellNamed
            <4> HIDE DEF resync
            <4> QED
                BY <2>1, <3>1, <4>1, <4>2, <4>3
        <3>2. CASE ~(stream.cursor < retained)
            BY <1>0, <2>1, <3>2, SquashedAreEvents, LogIsLog
        <3> QED
            BY <3>1, <3>2
    <2>3. Wanted(events) \subseteq Entities
        BY <2>2 DEF Wanted, WellNamed
    <2>4. /\ read'.pc = "hydrate" /\ read'.last = read.last /\ read'.epoch = read.epoch
          /\ read'.events = events /\ read'.data = read.data /\ read'.todo = Wanted(events)
        BY <1>0, <2>1 DEF ReadersOK
    <2>5. ReadersOK'
        <3>1. read' \in [pc : {"idle", "head", "list", "hydrate"}, epoch : Nat, last : Nat,
                         events : SUBSET Sent, todo : SUBSET Entities, data : [Entities -> 0 .. written]]
            BY <1>0, <2>1, <2>2, <2>3 DEF ReadersOK
        <3>2. \A r \in read'.events \cup frame'.events : WellNamed(r)
            BY <1>0, <2>1, <2>2, <2>4 DEF ReadersOK
        <3> QED
            BY <1>0, <2>1, <3>1, <3>2 DEF ReadersOK, WellNamed
    <2>6. Flow'
        BY <1>0, <2>1, <2>4 DEF Flow, NoFrame
    <2>7. Places'
        BY <1>0, <2>1, <2>4 DEF Places, OnTimeline, ReadHere, FrameHere
    <2> QED
        BY <2>5, <2>6, <2>7
<1>6. CASE Hydrate
    <2>1. PICK batch : /\ read.pc = "hydrate" /\ UNCHANGED <<stream, frame, client, faults>>
                       /\ read' = [read EXCEPT !.todo = @ \ batch,
                                    !.data = [e \in Entities |-> IF e \in batch THEN Seen(e) ELSE @[e]]]
        BY <1>6 DEF Hydrate
    <2>2. /\ read'.pc = "hydrate" /\ read'.last = read.last /\ read'.epoch = read.epoch
          /\ read'.events = read.events /\ read'.todo = read.todo \ batch
          /\ read'.data = [e \in Entities |-> IF e \in batch THEN Seen(e) ELSE read.data[e]]
        BY <1>0, <2>1 DEF ReadersOK
    <2>3. \A e \in Entities : Seen(e) \in 0 .. written
        BY <1>0 DEF Seen, TablesOK, RowsOK
    <2>4. ReadersOK'
        <3>1. read'.data \in [Entities -> 0 .. written] /\ read'.todo \in SUBSET Entities
            BY <1>0, <2>2, <2>3 DEF ReadersOK
        <3>2. read' = [read EXCEPT !.todo = read'.todo, !.data = read'.data]
            BY <1>0, <2>1, <2>2 DEF ReadersOK
        <3>3. read' \in [pc : {"idle", "head", "list", "hydrate"}, epoch : Nat, last : Nat,
                         events : SUBSET Sent, todo : SUBSET Entities, data : [Entities -> 0 .. written]]
            BY <1>0, <3>1, <3>2 DEF ReadersOK
        <3> QED
            BY <1>0, <2>1, <2>2, <3>3 DEF ReadersOK, WellNamed
    <2>5. Flow'
        BY <1>0, <2>1, <2>2 DEF Flow, NoFrame
    <2>6. Places'
        BY <1>0, <2>1, <2>2 DEF Places, OnTimeline, ReadHere, FrameHere
    <2> QED
        BY <2>4, <2>5, <2>6
<1>7. CASE Void
    <2>1. /\ read.pc = "hydrate" /\ UNCHANGED <<stream, frame, client, faults>>
          /\ read' = [pc |-> "head", epoch |-> epoch, last |-> 0, events |-> {}, todo |-> {}, data |-> NoData]
        BY <1>7 DEF Void, Idle
    <2>2. ReadersOK'
        BY <1>0, <2>1 DEF ReadersOK, NoData, WellNamed
    <2>3. Flow'
        BY <1>0, <2>1 DEF Flow, Idle, NoFrame, NoData
    <2>4. Places'
        BY <1>0, <2>1 DEF Places, OnTimeline, ReadHere, FrameHere
    <2> QED
        BY <2>2, <2>3, <2>4
<1>8. CASE Emit
    <2> DEFINE events == Envelopes(read.events, read.data)
               changed == stream.epoch # 0 /\ stream.epoch # read.epoch
    <2>1. /\ read.pc = "hydrate" /\ read.epoch = epoch /\ read' = Idle /\ UNCHANGED <<client, faults>>
          /\ frame' = [sent |-> TRUE, epoch |-> read.epoch, last |-> read.last,
                       events |-> events, data |-> read.data]
          /\ stream' = IF changed \/ HasResync(events) THEN Closed
                       ELSE [state |-> "reading", cursor |-> read.last, epoch |-> read.epoch]
        BY <1>8 DEF Emit
    <2>2. \A r \in events : r \in Sent /\ WellNamed(r)
        <3>1. \A r \in read.events : r \in Sent /\ WellNamed(r)
            BY <1>0 DEF ReadersOK
        <3> QED
            BY <3>1, EnvelopesAreEvents
    <2> HIDE DEF events
    <2>3. ReadersOK'
        <3>1. stream' \in [state : {"closed", "reading"}, cursor : Nat, epoch : Nat]
            BY <1>0, <2>1 DEF ReadersOK, Closed
        <3>2. read' \in [pc : {"idle", "head", "list", "hydrate"}, epoch : Nat, last : Nat,
                         events : SUBSET Sent, todo : SUBSET Entities, data : [Entities -> 0 .. written]]
              /\ read'.events = {}
            BY <1>0, <2>1 DEF Idle, NoData
        <3>3. frame' \in [sent : BOOLEAN, epoch : Nat, last : Nat, events : SUBSET Sent,
                          data : [Entities -> 0 .. written]] /\ frame'.events = events
            BY <1>0, <2>1, <2>2 DEF ReadersOK
        <3> QED
            BY <1>0, <2>1, <2>2, <3>1, <3>2, <3>3 DEF ReadersOK, WellNamed
    <2>4. Flow'
        <3>1. /\ stream.state = "reading" /\ ~frame.sent /\ stream.epoch = client.epoch
              /\ read.epoch \in 1 .. epoch /\ client.epoch <= read.epoch
            BY <1>0, <2>1 DEF Flow
        <3> QED
            BY <1>0, <2>1, <3>1 DEF Flow, Idle, Closed
    <2>5. Places'
        BY <1>0, <2>1 DEF Places, OnTimeline, ReadHere, FrameHere, Idle
    <2> QED
        BY <2>3, <2>4, <2>5
<1>9. CASE Receive
    <2>1. PICK view, over : /\ frame.sent /\ frame' = NoFrame /\ UNCHANGED <<stream, read, faults>>
                            /\ client' = [cursor |-> frame.last, epoch |-> frame.epoch,
                                          list |-> client.list \/ over, view |-> view]
                            /\ over \in BOOLEAN
                            /\ over <=> HasResync(frame.events)
                                        \/ (client.epoch # NoEpoch /\ client.epoch # frame.epoch)
                            /\ client.list \/ over => view = NoData
                            /\ \/ view = NoData
                               \/ view = [e \in Entities |->
                                    IF \A r \in frame.events : r.entity # e THEN client.view[e]
                                    ELSE IF \E r \in frame.events : r.entity = e /\ r.tag = "Delete" THEN 0
                                    ELSE frame.data[e]]
        BY <1>9 DEF Receive
    <2>2. view \in [Entities -> 0 .. written]
        <3>1. /\ \A e \in Entities : client.view[e] \in 0 .. written /\ frame.data[e] \in 0 .. written
              /\ 0 \in 0 .. written
            BY <1>0 DEF ReadersOK
        <3>2. CASE view = NoData
            BY <3>1, <3>2 DEF NoData
        <3>3. CASE view # NoData
            <4>1. view = [e \in Entities |->
                             IF \A r \in frame.events : r.entity # e THEN client.view[e]
                             ELSE IF \E r \in frame.events : r.entity = e /\ r.tag = "Delete" THEN 0
                             ELSE frame.data[e]]
                BY <2>1, <3>3
            <4> QED
                BY ONLY <3>1, <4>1
        <3> QED
            BY <3>2, <3>3
    <2>3. ReadersOK'
        BY <1>0, <2>1, <2>2 DEF ReadersOK, NoFrame, NoData, WellNamed
    <2>4. read.pc = "idle"
        BY <1>0, <2>1 DEF Flow, ReadersOK
    <2>5. Flow'
        <3>1. /\ frame.epoch \in 1 .. epoch /\ read = Idle
              /\ stream.state = "reading" => stream.cursor = frame.last /\ stream.epoch = frame.epoch
            BY <1>0, <2>1, <2>4 DEF Flow
        <3> QED
            BY <1>0, <2>1, <2>4, <3>1 DEF Flow, NoFrame, NoData
    <2>6. Places'
        BY <1>0, <2>1, <2>4 DEF Places, OnTimeline, ReadHere, FrameHere, NoFrame
    <2> QED
        BY <2>3, <2>5, <2>6
<1>10. CASE ListAll
    <2>1. /\ client.list /\ UNCHANGED <<stream, read, frame, faults>>
          /\ client' = [client EXCEPT !.list = FALSE,
                    !.view = [e \in Entities |-> IF EntityModel[e] \in Known THEN Seen(e) ELSE 0]]
        BY <1>10 DEF ListAll
    <2>2. \A e \in Entities : Seen(e) \in 0 .. written
        BY <1>0 DEF Seen, TablesOK, RowsOK
    <2>3. client'.cursor = client.cursor /\ client'.epoch = client.epoch /\ ~client'.list
        BY <1>0, <2>1 DEF ReadersOK
    <2>4. ReadersOK'
        <3>1. PICK view : /\ view = [e \in Entities |-> IF EntityModel[e] \in Known THEN Seen(e) ELSE 0]
                          /\ client' = [client EXCEPT !.list = FALSE, !.view = view]
            BY <2>1
        <3>2. view \in [Entities -> 0 .. written]
            BY <1>0, <2>2, <3>1
        <3>3. client' \in [cursor : Nat, epoch : Nat, view : [Entities -> 0 .. written], list : BOOLEAN]
            BY <1>0, <3>1, <3>2 DEF ReadersOK
        <3> QED
            BY <1>0, <2>1, <3>3 DEF ReadersOK, WellNamed
    <2>5. Flow'
        BY <1>0, <2>1, <2>3 DEF Flow, NoFrame, NoData, Idle
    <2>6. Places'
        BY <1>0, <2>1, <2>3 DEF Places, OnTimeline, ReadHere, FrameHere
    <2> QED
        BY <2>4, <2>5, <2>6
<1> QED
    BY <1>1, <1>2, <1>3, <1>4, <1>5, <1>6, <1>7, <1>8, <1>9, <1>10 DEF Feed, Subscriber

\* The state keeps its shape at every step.
LEMMA ShapeStep ==
    ASSUME FeedShape, [FNext]_fvars
    PROVE  FeedShape'
<1>1. TablesOK' /\ Grows
    BY TablesStep DEF FeedShape
<1>2. CASE Lose \/ Feed \/ Subscriber
    <2>1. UNCHANGED tables
        BY <1>2 DEF Lose, Feed, Subscriber, tables, ReadEpoch, ReadHead, List, Hydrate, Void, Emit,
                    Connect, Receive, ListAll
    <2> QED
        BY <1>1, <1>2, <2>1, ReadersStep DEF FeedShape
<1>3. CASE Application \/ Boot \/ Prune \/ UNCHANGED fvars
    <2>1. UNCHANGED <<stream, read, frame, client>> /\ faults' \in Nat
        <3>1. faults \in Nat
            BY DEF FeedShape, ReadersOK
        <3> QED
            <4>1. ASSUME NEW event, Dispatch(event)
                  PROVE  UNCHANGED <<stream, read, frame, client, faults>>
                BY <4>1 DEF Dispatch
            <4>2. CASE Application
                BY <3>1, <4>1, <4>2 DEF Application, Upsert, RemoveRow, Announce
            <4>3. CASE Boot \/ Prune \/ UNCHANGED fvars
                BY <3>1, <4>3 DEF Boot, Prune, fvars
            <4> QED
                BY <1>3, <4>2, <4>3
    <2>2. /\ ReadersOK /\ Flow /\ Places /\ epoch \in Nat \ {0} /\ Len(log) \in Nat /\ written \in Nat
        BY DEF FeedShape, TablesOK
    <2>3. ReadersOK'
        <3>1. [Entities -> 0 .. written] \subseteq [Entities -> 0 .. written']
            BY <1>1, <2>2 DEF Grows
        <3> QED
            BY <2>1, <2>2, <3>1 DEF ReadersOK, WellNamed
    <2>4. Len(log') \in Nat /\ ((epoch' = epoch /\ Len(log) <= Len(log')) \/ epoch' = epoch + 1)
        BY <1>1 DEF Grows
    <2>5. Flow'
        BY <2>1, <2>2, <2>4 DEF Flow, ReadersOK, Idle, NoFrame, NoData, HasResync
    <2>6. Places'
        <3>1. client.epoch <= epoch /\ (read.pc # "idle" => read.epoch <= epoch)
              /\ (frame.sent => frame.epoch <= epoch) /\ (client.epoch = NoEpoch => client.cursor = 0)
              /\ client.epoch \in Nat /\ read.epoch \in Nat /\ frame.epoch \in Nat
              /\ client.cursor \in Nat /\ read.last \in Nat /\ frame.last \in Nat
            BY <2>2 DEF Flow, ReadersOK
        <3>2. CASE epoch' = epoch /\ Len(log) <= Len(log')
            BY <2>1, <2>2, <2>4, <3>1, <3>2 DEF Places, OnTimeline, ReadHere, FrameHere
        <3>3. CASE epoch' = epoch + 1
            BY <2>1, <2>2, <2>4, <3>1, <3>3 DEF Places, OnTimeline, ReadHere, FrameHere
        <3> QED
            BY <2>4, <3>2, <3>3
    <2> QED
        BY <1>1, <2>3, <2>5, <2>6 DEF FeedShape
<1> QED
    BY <1>2, <1>3 DEF FNext

\* It has that shape at the start.
LEMMA ShapeInit ==
    ASSUME FInit
    PROVE  FeedShape
<1>1. TablesOK
    BY DEF FInit, TablesOK, RowsOK, Absent
<1>2. ReadersOK
    BY DEF FInit, ReadersOK, Closed, Idle, NoFrame, NoData, NoEpoch
<1>3. Flow
    BY DEF FInit, Flow, Closed, Idle, NoFrame, NoEpoch
<1>4. Places
    BY DEF FInit, Places, OnTimeline, ReadHere, FrameHere, Idle, NoFrame, NoEpoch
<1> QED
    BY <1>1, <1>2, <1>3, <1>4 DEF FeedShape

\* The shape is an invariant.
LEMMA FeedShapes == FSpec => []FeedShape
<1>1. FInit => FeedShape
    BY ShapeInit
<1>2. FeedShape /\ [FNext]_fvars => FeedShape'
    BY ShapeStep
<1> QED
    BY <1>1, <1>2, PTL DEF FSpec

\* Types hold in every reachable state, whatever windows are open: the log numbers its
\* events, and no place of the client, the stream or a frame is ahead of the log it was
\* read from (sync-feed.ts:84-125 reads the head before the events and the epoch again
\* after them).
THEOREM FeedTypes == FSpec => []FeedTypeOK
<1>1. FeedShape => FeedTypeOK
    <2> SUFFICES ASSUME FeedShape PROVE FeedTypeOK
        OBVIOUS
    <2>1. TablesOK /\ ReadersOK /\ Flow /\ Places
        BY DEF FeedShape
    <2>2. log \in Seq(Event) /\ \A i \in DOMAIN log : log[i].at = i
        BY <2>1 DEF TablesOK
    <2>3. retained <= Len(log) /\ client.view \in [Entities -> 0 .. written]
        BY <2>1 DEF TablesOK, ReadersOK
    <2>4. stream.epoch = epoch /\ stream.state = "reading" => stream.cursor <= Len(log)
        BY <2>1 DEF Flow, Places, FrameHere, ReadersOK
    <2>5. client.epoch = epoch => client.cursor <= Len(log)
        BY <2>1 DEF Places
    <2>6. frame.sent /\ frame.epoch = epoch => frame.last <= Len(log)
        BY <2>1 DEF Places, FrameHere
    <2> QED
        BY <2>2, <2>3, <2>4, <2>5, <2>6 DEF FeedTypeOK
<1> QED
    BY <1>1, FeedShapes, PTL

-----------------------------------------------------------------------------
(* A squashed log means what the log means *)

\* Two events of one entity with none of its between them.
Consecutive(k, n) ==
    /\ k < n /\ log[k].tag # "Resync" /\ log[n].entity = log[k].entity
    /\ \A m \in k + 1 .. n - 1 : log[m].entity # log[k].entity

\* An entity's events are its life: an insert, and only that, after a delete, and its last
\* event in the log says whether its row is there.
Lifecycles ==
    /\ \A k, n \in 1 .. Len(log) : Consecutive(k, n) => (log[n].tag = "Insert" <=> log[k].tag = "Delete")
    /\ \A n \in 1 .. Len(log) :
           log[n].tag # "Resync" /\ (\A m \in n + 1 .. Len(log) : log[m].entity # log[n].entity)
               => (rows[log[n].entity] = Absent <=> log[n].tag = "Delete")

\* One more event of x keeps the lives whole, when it goes with what becomes of x's row.
LEMMA LivesGoOn ==
    ASSUME Lifecycles, Len(log) \in Nat, Len(log') = Len(log) + 1,
           \A n \in 1 .. Len(log) : log'[n] = log[n],
           \A n \in 1 .. Len(log) : log[n].tag # "Resync" => log[n].entity \in Entities,
           NEW new, log'[Len(log) + 1] = new,
           \A e \in Entities : e # new.entity => rows'[e] = rows[e],
           new.tag # "Resync" => /\ new.entity \in Entities
                                 /\ new.tag = "Insert" <=> rows[new.entity] = Absent
                                 /\ new.tag = "Delete" <=> rows'[new.entity] = Absent,
           new.tag = "Resync" => new.entity \notin Entities
    PROVE  Lifecycles'
<1>1. PICK N \in Nat : N = Len(log)
    OBVIOUS
<1>2. /\ Len(log') = N + 1 /\ log'[N + 1] = new
      /\ \A n \in 1 .. N : log'[n] = log[n]
      /\ \A n \in 1 .. N : log[n].tag # "Resync" => log[n].entity \in Entities
      /\ \A k, n \in 1 .. N : Consecutive(k, n) => (log[n].tag = "Insert" <=> log[k].tag = "Delete")
      /\ \A n \in 1 .. N :
           log[n].tag # "Resync" /\ (\A m \in n + 1 .. N : log[m].entity # log[n].entity)
               => (rows[log[n].entity] = Absent <=> log[n].tag = "Delete")
    BY <1>1 DEF Lifecycles
<1>3. ASSUME NEW k \in 1 .. N + 1, NEW n \in 1 .. N + 1, Consecutive(k, n)'
      PROVE  log'[n].tag = "Insert" <=> log'[k].tag = "Delete"
    <2>1. /\ k < n /\ log'[k].tag # "Resync" /\ log'[n].entity = log'[k].entity
          /\ \A m \in k + 1 .. n - 1 : log'[m].entity # log'[k].entity
        BY <1>3 DEF Consecutive
    <2>2. k \in 1 .. N /\ log'[k] = log[k]
        BY <1>2, <2>1
    <2>3. CASE n \in 1 .. N
        <3>1. log'[n] = log[n]
            BY <1>2, <2>3
        <3>2. \A m \in k + 1 .. n - 1 : log'[m] = log[m]
            BY <1>2, <2>2, <2>3
        <3>3. Consecutive(k, n)
            BY <2>1, <2>2, <3>1, <3>2 DEF Consecutive
        <3> QED
            BY <1>2, <2>2, <2>3, <3>1, <3>3
    <2>4. CASE n = N + 1
        <3>1. new.entity = log[k].entity /\ log[k].tag # "Resync" /\ log'[n] = new
            BY <1>2, <2>1, <2>2, <2>4
        <3>2. \A m \in k + 1 .. N : log[m].entity # log[k].entity
            BY <1>2, <2>1, <2>2, <2>4
        <3>3. rows[log[k].entity] = Absent <=> log[k].tag = "Delete"
            BY <1>2, <2>2, <3>1, <3>2
        <3>4. new.tag # "Resync"
            BY <1>2, <2>2, <3>1
        <3> QED
            BY <2>2, <3>1, <3>3, <3>4
    <2> QED
        BY <2>3, <2>4
<1>4. ASSUME NEW n \in 1 .. N + 1, log'[n].tag # "Resync",
             \A m \in n + 1 .. N + 1 : log'[m].entity # log'[n].entity
      PROVE  rows'[log'[n].entity] = Absent <=> log'[n].tag = "Delete"
    <2>1. CASE n = N + 1
        BY <1>2, <1>4, <2>1
    <2>2. CASE n \in 1 .. N
        <3>1. log'[n] = log[n] /\ new.entity # log[n].entity
            BY <1>2, <1>4, <2>2
        <3>2. \A m \in n + 1 .. N : log[m].entity # log[n].entity
            BY <1>2, <1>4, <2>2, <3>1
        <3>3. rows[log[n].entity] = Absent <=> log[n].tag = "Delete"
            BY <1>2, <1>4, <2>2, <3>1, <3>2
        <3>4. rows'[log[n].entity] = rows[log[n].entity]
            BY <1>2, <1>4, <2>2, <3>1
        <3> QED
            BY <3>1, <3>3, <3>4
    <2> QED
        BY <2>1, <2>2
<1> QED
    BY <1>2, <1>3, <1>4 DEF Lifecycles

\* Every step keeps the lives whole.
LEMMA LifecyclesStep ==
    ASSUME TablesOK, Lifecycles, [FNext]_fvars
    PROVE  Lifecycles'
<1>1. /\ Len(log) \in Nat /\ rows \in [Entities -> [groups : SUBSET Groups, version : 0 .. written]]
      /\ \A n \in 1 .. Len(log) : log[n].tag # "Resync" => log[n].entity \in Entities
      /\ \A e \in Entities : rows[e] # Absent => rows[e].groups # {}
    BY DEF TablesOK, RowsOK, WellNamed
<1>2. ASSUME NEW e \in Entities, NEW groups \in Homes, Upsert(e, groups) PROVE Lifecycles'
    <2>1. PICK new \in Event :
               /\ new.entity = e
               /\ new.tag = IF rows[e] = Absent THEN "Insert" ELSE "Update"
               /\ Len(log') = Len(log) + 1
               /\ \A n \in 1 .. Len(log) : log'[n] = log[n]
               /\ log'[Len(log) + 1] = new
               /\ rows' = [rows EXCEPT ![e] = [groups |-> groups, version |-> written + 1]]
        BY <1>2, UpsertDispatches
    <2>2. rows'[e].groups = groups /\ \A x \in Entities : x # e => rows'[x] = rows[x]
        BY <1>1, <2>1
    <2>3. rows'[e] # Absent
        BY <2>2, FeedConstants DEF Absent
    <2>4. /\ new.tag # "Resync" /\ (new.tag = "Insert" <=> rows[e] = Absent)
          /\ (new.tag = "Delete" <=> rows'[e] = Absent)
        BY <2>1, <2>3
    <2> QED
        BY <1>1, <2>1, <2>2, <2>4, LivesGoOn
<1>3. ASSUME NEW e \in Entities, RemoveRow(e) PROVE Lifecycles'
    <2>1. PICK new \in Event :
               /\ new.entity = e /\ new.tag = "Delete"
               /\ Len(log') = Len(log) + 1
               /\ \A n \in 1 .. Len(log) : log'[n] = log[n]
               /\ log'[Len(log) + 1] = new
               /\ rows' = [rows EXCEPT ![e] = Absent] /\ rows[e] # Absent
        BY <1>3, RemoveDispatches
    <2>2. rows'[e] = Absent /\ \A x \in Entities : x # e => rows'[x] = rows[x]
        BY <1>1, <2>1
    <2> QED
        BY <1>1, <2>1, <2>2, LivesGoOn
<1>4. ASSUME NEW target \in Targets, Announce(target) PROVE Lifecycles'
    <2>1. PICK new \in Event :
               /\ new.entity = "none" /\ new.tag = "Resync"
               /\ Len(log') = Len(log) + 1
               /\ \A n \in 1 .. Len(log) : log'[n] = log[n]
               /\ log'[Len(log) + 1] = new
               /\ rows' = rows
        BY <1>4, AnnounceDispatches
    <2>2. "none" \notin Entities
        BY FeedConstants
    <2> QED
        BY <1>1, <2>1, <2>2, LivesGoOn
<1>5. CASE Boot
    <2>1. log' = <<>>
        BY <1>5 DEF Boot
    <2> QED
        BY <2>1 DEF Lifecycles
<1>6. CASE Prune \/ Lose \/ Feed \/ Subscriber \/ UNCHANGED fvars
    <2>1. UNCHANGED <<rows, log>>
        BY <1>6 DEF Prune, Lose, Feed, Subscriber, fvars, tables, ReadEpoch, ReadHead, List, Hydrate, Void,
                    Emit, Connect, Receive, ListAll
    <2> QED
        BY <2>1 DEF Lifecycles, Consecutive
<1> QED
    BY <1>2, <1>3, <1>4, <1>5, <1>6 DEF FNext, Application

\* Lives are whole at the start.
LEMMA Lives == FSpec => []Lifecycles
<1>1. FInit => Lifecycles
    BY DEF FInit, Lifecycles
<1>2. TablesOK /\ Lifecycles /\ [FNext]_fvars => Lifecycles'
    BY LifecyclesStep
<1>3. FeedShape => TablesOK
    BY DEF FeedShape
<1> QED
    BY <1>1, <1>2, <1>3, FeedShapes, PTL DEF FSpec

\* The positions of a run that say something of e.
About(e, run) == {n \in run : log[n].entity = e \/ log[n].tag = "Resync"}

\* An event of e at n is the last word on it in the run.
LastWord(e, run, n) == n \in About(e, run) /\ \A k \in About(e, run) : k <= n

\* The rows a run of the log leaves behind, by its last words.
LEMMA PresenceInLog ==
    ASSUME TablesOK, NEW run \in SUBSET (1 .. Len(log)), NEW before \in SUBSET Entities, NEW e \in Entities
    PROVE  e \in Presence(before, {log[n] : n \in run}) <=>
               \/ About(e, run) = {} /\ e \in before
               \/ \E n \in 1 .. Len(log) : LastWord(e, run, n) /\ log[n].tag \in {"Insert", "Update"}
<1> DEFINE about == {r \in {log[n] : n \in run} : r.entity = e \/ r.tag = "Resync"}
<1>1. Len(log) \in Nat /\ \A n \in 1 .. Len(log) : log[n].at = n
    BY DEF TablesOK
<1>2. about = {log[n] : n \in About(e, run)}
    BY DEF About
<1>3. e \in Presence(before, {log[n] : n \in run}) <=>
          \/ about = {} /\ e \in before
          \/ \E r \in about : r.tag \in {"Insert", "Update"} /\ \A other \in about : other.at <= r.at
    BY DEF Presence
<1>4. About(e, run) \subseteq 1 .. Len(log)
    BY DEF About
<1> HIDE DEF about
<1>5. about = {} <=> About(e, run) = {}
    BY <1>2
<1>6. (\E r \in about : r.tag \in {"Insert", "Update"} /\ \A other \in about : other.at <= r.at) <=>
          \E n \in About(e, run) : log[n].tag \in {"Insert", "Update"} /\ \A k \in About(e, run) : k <= n
    BY <1>1, <1>2, <1>4
<1> QED
    BY <1>3, <1>4, <1>5, <1>6 DEF LastWord

\* Of a run up to the end of the log nothing is missing between a delete and an update.
LEMMA RunsAreWhole ==
    ASSUME TablesOK, Lifecycles, NEW from \in 0 .. Len(log)
    PROVE  NoUpdateAfterDelete(log, from + 1 .. Len(log))
<1>1. Len(log) \in Nat
    BY DEF TablesOK
<1>2. SUFFICES ASSUME NEW n \in from + 1 .. Len(log), NEW m \in from + 1 .. Len(log),
                      n < m, log[n].entity = log[m].entity, log[n].tag = "Delete", log[m].tag = "Update",
                      \A k \in from + 1 .. Len(log) : n < k /\ k < m => log[k].entity # log[n].entity
               PROVE  FALSE
    BY DEF NoUpdateAfterDelete
<1>3. n \in 1 .. Len(log) /\ m \in 1 .. Len(log)
    BY <1>1
<1>4. \A k \in n + 1 .. m - 1 : log[k].entity # log[n].entity
    BY <1>1, <1>2
<1>5. Consecutive(n, m)
    BY <1>2, <1>4 DEF Consecutive
<1> QED
    BY <1>2, <1>3, <1>5 DEF Lifecycles

\* A run has a last word on an entity, if it says anything of it.
LEMMA SomeLastWord ==
    ASSUME TablesOK, NEW run \in SUBSET (1 .. Len(log)), NEW e, About(e, run) # {}
    PROVE  \E n \in 1 .. Len(log) : LastWord(e, run, n)
<1>1. Len(log) \in Nat /\ About(e, run) \subseteq 1 .. Len(log)
    <2>1. Len(log) \in Nat
        BY DEF TablesOK
    <2>2. About(e, run) \subseteq run
        BY DEF About
    <2> QED
        BY <2>1, <2>2
<1>2. IsFiniteSet(1 .. Len(log))
    BY <1>1, FS_Interval
<1>3. IsFiniteSet(About(e, run)) /\ About(e, run) \in SUBSET Nat
    BY <1>1, <1>2, FS_Subset
<1>4. PICK n \in About(e, run) : \A k \in About(e, run) : n >= k
    BY <1>3, GreatestPosition
<1> QED
    BY <1>1, <1>4 DEF LastWord

\* An entity that is there before a run does not have an insert as its first event there.
LEMMA ThereBefore ==
    ASSUME TablesOK, Lifecycles, NEW from \in 0 .. Len(log), NEW e \in Entities,
           e \in Presence({}, {log[n] : n \in 1 .. from})
    PROVE  ~FirstInserted(log, from + 1 .. Len(log), e, Len(log))
<1>1. Len(log) \in Nat /\ 1 .. from \in SUBSET (1 .. Len(log)) /\ {} \in SUBSET Entities
    BY DEF TablesOK
<1>2. PICK k \in 1 .. Len(log) : LastWord(e, 1 .. from, k) /\ log[k].tag \in {"Insert", "Update"}
    BY <1>1, PresenceInLog
<1>3. k \in 1 .. from /\ log[k].entity = e
    BY <1>2 DEF LastWord, About
<1>4. SUFFICES ASSUME NEW f \in 1 .. Len(log), f \in from + 1 .. Len(log), log[f].entity = e,
                      log[f].tag = "Insert",
                      \A m \in 1 .. f - 1 : m \in from + 1 .. Len(log) => log[m].entity # e
               PROVE  FALSE
    BY DEF FirstInserted
<1>5. ASSUME NEW m \in k + 1 .. f - 1 PROVE log[m].entity # e
    <2>1. CASE m \in 1 .. from
        BY <1>2, <1>3, <1>5, <2>1 DEF LastWord, About
    <2>2. CASE m \notin 1 .. from
        BY <1>1, <1>3, <1>4, <1>5, <2>2
    <2> QED
        BY <2>1, <2>2
<1>6. Consecutive(k, f)
    BY <1>2, <1>3, <1>4, <1>5 DEF Consecutive
<1>7. log[k].tag = "Delete"
    BY <1>4, <1>6 DEF Lifecycles
<1> QED
    BY <1>2, <1>7

\* A run with a Resync leaves one.
LEMMA ResyncsLeaveOne ==
    ASSUME NEW run, NEW kept, Len(log) \in Nat, LastResyncKept(log, run, kept, Len(log)),
           NEW p \in 1 .. Len(log), p \in run, log[p].tag = "Resync"
    PROVE  HasResync(kept)
<1> DEFINE P == {k \in 1 .. Len(log) : k \in run /\ log[k].tag = "Resync"}
<1>1. P # {} /\ P \in SUBSET Nat /\ IsFiniteSet(P)
    <2>1. IsFiniteSet(1 .. Len(log))
        BY FS_Interval
    <2> QED
        BY <2>1, FS_Subset
<1>2. PICK q \in P : \A k \in P : q >= k
    BY <1>1, GreatestPosition
<1>3. \A k \in q + 1 .. Len(log) : k \in run => log[k].tag # "Resync"
    BY <1>2
<1>4. \E r \in kept : r.tag = "Resync" /\ r.at = q
    BY <1>2, <1>3 DEF LastResyncKept
<1> QED
    BY <1>4 DEF HasResync

\* The rows a squashed run leaves behind are those the run leaves behind.
LEMMA SquashedPresence ==
    ASSUME TablesOK, Lifecycles, NEW from \in 0 .. Len(log), NEW e \in Entities
    PROVE  LET before == Presence({}, {log[n] : n \in 1 .. from})
               run == from + 1 .. Len(log)
           IN  e \in Presence(before, Squashed(log, run)) <=> e \in Presence(before, {log[n] : n \in run})
<1> DEFINE before == Presence({}, {log[n] : n \in 1 .. from})
           run == from + 1 .. Len(log)
           kept == Squashed(log, run)
           about == {r \in kept : r.entity = e \/ r.tag = "Resync"}
<1>1. Len(log) \in Nat /\ run \in SUBSET (1 .. Len(log)) /\ before \in SUBSET Entities
    BY DEF TablesOK, Presence
<1>2. e \in before => ~FirstInserted(log, run, e, Len(log))
    BY ThereBefore
<1>3. SquashFacts(log, run, kept, Len(log))
    BY <1>1, LogIsLog, RunsAreWhole, SquashReturns
<1>4. \A n \in 1 .. Len(log) : WellNamed(log[n])
    BY DEF TablesOK
<1> HIDE DEF run, before, kept
<1>5. ASSUME NEW r \in about
      PROVE  /\ r.at \in About(e, run) /\ r.at \in 1 .. Len(log) /\ r.tag \in {"Insert", "Update", "Delete", "Resync"}
             /\ r.tag = "Resync" <=> log[r.at].tag = "Resync"
             /\ r.tag # "Resync" => /\ r.tag = "Delete" <=> log[r.at].tag = "Delete"
                                    /\ \A k \in r.at + 1 .. Len(log) : k \in run => log[k].entity # e
                                    /\ r.entity = e
    BY <1>3, <1>5 DEF SquashFacts, KeptAreLast, About, Sent
<1>6. e \in Presence(before, kept) <=>
          \/ about = {} /\ e \in before
          \/ \E r \in about : r.tag \in {"Insert", "Update"} /\ \A other \in about : other.at <= r.at
    BY DEF Presence
<1>7. e \in Presence(before, {log[n] : n \in run}) <=>
          \/ About(e, run) = {} /\ e \in before
          \/ \E n \in 1 .. Len(log) : LastWord(e, run, n) /\ log[n].tag \in {"Insert", "Update"}
    BY <1>1, PresenceInLog
<1>8. CASE About(e, run) = {}
    <2>1. about = {}
        BY <1>5, <1>8
    <2> QED
        BY <1>6, <1>7, <1>8, <2>1 DEF LastWord, before, run, kept
<1>9. CASE About(e, run) # {}
    <2>1. PICK N \in 1 .. Len(log) : LastWord(e, run, N)
        BY <1>1, <1>9, SomeLastWord
    <2>2. /\ N \in run /\ (log[N].entity = e \/ log[N].tag = "Resync")
          /\ \A k \in run : log[k].entity = e \/ log[k].tag = "Resync" => k <= N
        BY <2>1 DEF LastWord, About
    <2>3. \A n \in 1 .. Len(log) : LastWord(e, run, n) => n = N
        BY <2>1 DEF LastWord, About
    <2>4. \A r \in about : r.at <= N /\ r.at \in run
        BY <1>5, <2>2 DEF About
    <2>5. \A r \in about : r.tag # "Resync" /\ log[N].entity = e => r.at = N
        BY <1>1, <1>5, <2>2, <2>4
    <2>6. CASE log[N].tag \in {"Insert", "Update"}
        <3>1. log[N].entity = e
            BY <2>2, <2>6
        <3>2. \A k \in N + 1 .. Len(log) : k \in run => log[k].tag # "Resync" /\ log[k].entity # log[N].entity
            BY <1>1, <2>2, <3>1
        <3>3. PICK r \in kept : r.tag # "Resync" /\ r.entity = e
            BY <1>3, <2>2, <2>6, <3>1, <3>2 DEF SquashFacts, UpsertsKept
        <3>4. r \in about /\ r.at = N
            BY <2>5, <3>1, <3>3
        <3>5. r.tag \in {"Insert", "Update"}
            BY <1>5, <2>6, <3>3, <3>4
        <3> QED
            BY <1>6, <1>7, <2>1, <2>4, <2>6, <3>4, <3>5 DEF before, run, kept
    <2>7. CASE log[N].tag = "Delete"
        <3>1. log[N].entity = e
            BY <2>2, <2>7
        <3>2. \A r \in about : r.tag \notin {"Insert", "Update"}
            BY <1>5, <2>5, <2>7, <3>1
        <3>3. ASSUME about = {}, e \in before PROVE FALSE
            <4>1. ~HasResync(kept)
                BY <3>3 DEF HasResync
            <4>2. \A k \in 1 .. Len(log) : k \in run => log[k].tag # "Resync"
                BY <1>1, <1>3, <4>1, ResyncsLeaveOne DEF SquashFacts
            <4>3. \/ FirstInserted(log, run, e, Len(log))
                  \/ \E r \in kept : r.entity = e /\ r.tag \in {"Update", "Delete"}
                BY <1>3, <2>2, <3>1, <4>2 DEF SquashFacts, DroppedWereInserted
            <4> QED
                BY <1>2, <3>3, <4>3
        <3>4. ~(\E n \in 1 .. Len(log) : LastWord(e, run, n) /\ log[n].tag \in {"Insert", "Update"})
            BY <2>3, <2>7
        <3> QED
            BY <1>6, <1>7, <1>9, <3>2, <3>3, <3>4 DEF before, run, kept
    <2>8. CASE log[N].tag = "Resync"
        <3>1. \A k \in N + 1 .. Len(log) : k \in run => log[k].tag # "Resync"
            BY <1>1, <2>2
        <3>2. PICK s \in kept : s.tag = "Resync" /\ s.at = N
            BY <1>3, <2>2, <2>8, <3>1 DEF SquashFacts, LastResyncKept
        <3>3. s \in about
            BY <3>2
        <3>4. ASSUME NEW r \in about, r.tag \in {"Insert", "Update"}, s.at <= r.at PROVE FALSE
            <4>1. r.at = N
                BY <1>1, <1>5, <2>4, <3>2, <3>4
            <4> QED
                BY <1>5, <2>8, <3>4, <4>1
        <3>5. ~(\E n \in 1 .. Len(log) : LastWord(e, run, n) /\ log[n].tag \in {"Insert", "Update"})
            BY <2>3, <2>8
        <3> QED
            BY <1>6, <1>7, <1>9, <3>3, <3>4, <3>5 DEF before, run, kept
    <2>9. log[N].tag \in {"Insert", "Update", "Delete", "Resync"}
        BY LogIsLog DEF IsLog, Sent
    <2> QED
        BY <2>6, <2>7, <2>8, <2>9 DEF before, run, kept
<1> QED
    BY <1>8, <1>9 DEF before, run, kept

\* A squashed log means what the log means, from wherever it is read (squash.ts:39, "the
\* smallest equivalent list"): of every log the application can write, of any length.
THEOREM SquashKeepsTheMeaning == FSpec => []SquashIsEquivalent
<1>1. FeedShape /\ Lifecycles => SquashIsEquivalent
    <2> SUFFICES ASSUME FeedShape, Lifecycles, NEW from \in 0 .. Len(log)
                 PROVE  LET before == Presence({}, {log[n] : n \in 1 .. from})
                            run == from + 1 .. Len(log)
                        IN  Presence(before, Squashed(log, run)) = Presence(before, {log[n] : n \in run})
        BY DEF SquashIsEquivalent
    <2> DEFINE before == Presence({}, {log[n] : n \in 1 .. from})
               run == from + 1 .. Len(log)
               one == Presence(before, Squashed(log, run))
               other == Presence(before, {log[n] : n \in run})
    <2>1. one \subseteq Entities /\ other \subseteq Entities
        BY DEF Presence
    <2>2. \A e \in Entities : e \in one <=> e \in other
        BY SquashedPresence DEF FeedShape
    <2> HIDE DEF one, other
    <2>3. one = other
        BY <2>1, <2>2
    <2> QED
        BY <2>3 DEF one, other
<1> QED
    BY <1>1, FeedShapes, Lives, PTL

-----------------------------------------------------------------------------
(* A subscriber that has read the whole log shows what it may see *)

\* The versions of the rows written before the log was built.
Before == written - Len(log)

Meant(n) == Intersects(log[n].groups, Mine)

\* An event past p that tells the subscriber about e.
News(e, p) == \E n \in p + 1 .. Len(log) : Meant(n) /\ (log[n].entity = e \/ log[n].tag = "Resync")

Told(e, v, p) == v = Seen(e) \/ News(e, p)

\* A version tells the event that made it, which was meant for the subscriber.
VersionTells(e, v) ==
    v > Before => \E n \in 1 .. Len(log) : v = n + Before /\ log[n].entity = e /\ Meant(n)

\* What is shown of e at p is not of a life that begins and ends past p.
OutlivesPairs(e, v, p) ==
    \A n, d \in p + 1 .. Len(log) :
        /\ n < d /\ log[n].entity = e /\ log[n].tag = "Insert" /\ log[d].entity = e /\ log[d].tag = "Delete"
        => v = 0 \/ v > d + Before

Shown(e, v, p) == VersionTells(e, v) /\ OutlivesPairs(e, v, p)

\* Rows are newer than the deletes of their entity, and were made in the subscriber's
\* sight when they are in it.
RowsTell ==
    \A e \in Entities :
        /\ VersionTells(e, Seen(e))
        /\ \A d \in 1 .. Len(log) :
               log[d].entity = e /\ log[d].tag = "Delete" /\ rows[e] # Absent => rows[e].version > d + Before

\* When the last event of an entity in the subscriber's sight is its delete, it sees no row.
DeletesTell ==
    \A n \in 1 .. Len(log) :
        /\ log[n].tag = "Delete" /\ Meant(n)
        /\ \A k \in n + 1 .. Len(log) : log[k].entity = log[n].entity => ~Meant(k)
        => Seen(log[n].entity) = 0

\* In the subscriber's sight no update comes right after a delete.
NoneMovedIn ==
    \A n, m \in Place + 1 .. Len(log) :
        /\ n < m /\ log[n].entity = log[m].entity /\ Meant(n) /\ Meant(m)
        /\ log[n].tag = "Delete" /\ log[m].tag = "Update"
        => \E k \in n + 1 .. m - 1 : log[k].entity = log[n].entity /\ Meant(k)

FirstEpoch == client.epoch = NoEpoch => epoch = 1

\* Whoever shows a row shows it at its place.
Showing ==
    OnTimeline => \A e \in Entities :
        /\ Shown(e, client.view[e], client.cursor)
        /\ ReadHere => Shown(e, read.data[e], read.last)
        /\ FrameHere => Shown(e, frame.data[e], frame.last)

\* Of an entity a batch is about it tells the truth, or there is news past the batch; of
\* any other the subscriber shows it already, or there is.
Tells(events, data, todo, last) ==
    ~HasResync(events) => \A e \in Entities : EntityModel[e] \in Known =>
        /\ \A r \in events : r.entity = e =>
               /\ r.tag = "Delete" => Told(e, 0, last)
               /\ r.tag # "Delete" /\ e \notin todo => Told(e, data[e], last)
        /\ (\A r \in events : r.entity # e) /\ ~client.list => Told(e, client.view[e], last)

Truth ==
    OnTimeline =>
        /\ ~client.list => \A e \in Entities : EntityModel[e] \in Known => Told(e, client.view[e], client.cursor)
        /\ ReadHere /\ read.pc = "hydrate" => Tells(read.events, read.data, read.todo, read.last)
        /\ FrameHere => Tells(frame.events, frame.data, {}, frame.last)

Following == FirstEpoch /\ RowsTell /\ DeletesTell /\ NoneMovedIn /\ Showing /\ Truth

\* One more event, of an entity whose row changes with it, or of none.
Recorded(new) ==
    /\ new \in Event /\ Len(log') = Len(log) + 1 /\ log'[Len(log) + 1] = new
    /\ \A n \in 1 .. Len(log) : log'[n] = log[n]
    /\ written' = written + 1 /\ UNCHANGED <<epoch, stream, read, frame, client>>
    /\ \A e \in Entities : e # new.entity => rows'[e] = rows[e]

\* What an event does to the row it is about, as the subscriber sees it.
RowFollows(new) ==
    \/ new.tag = "Resync" /\ new.entity \notin Entities
    \/ /\ new.tag # "Resync" /\ new.entity \in Entities
       /\ ~Intersects(new.groups, Mine) => Seen(new.entity) = 0 /\ Seen(new.entity)' = 0
       /\ Seen(new.entity)' \in {0, written + 1}
       /\ rows'[new.entity] # Absent => rows'[new.entity].version = written + 1
       /\ new.tag = "Delete" => rows'[new.entity] = Absent /\ ~ShownEarly(new.entity)
       /\ new.tag = "Update" => ~DeletedInSight(new.entity) \/ ~Intersects(new.groups, Mine)

\* What an event of the application keeps true of the log and the rows.
LEMMA TablesFollow ==
    ASSUME TablesOK, Place \in Nat, NEW new, Recorded(new), RowFollows(new),
           RowsTell, DeletesTell, NoneMovedIn
    PROVE  RowsTell' /\ DeletesTell' /\ NoneMovedIn'
<1>0. PICK N : N = Len(log)
    OBVIOUS
<1>1. /\ N \in Nat /\ written \in Nat /\ N <= written /\ log \in Seq(Event)
    BY <1>0 DEF TablesOK
<1>2. /\ Len(log') = N + 1 /\ log'[N + 1] = new /\ written' = written + 1
      /\ \A n \in 1 .. N : log'[n] = log[n]
      /\ UNCHANGED <<epoch, client>>
      /\ \A e \in Entities : e # new.entity => rows'[e] = rows[e]
    BY <1>0 DEF Recorded
<1>3. PICK B : B = Before
    OBVIOUS
<1>4. Before = B /\ Before' = B /\ written + 1 = N + 1 + B /\ B \in Nat
    BY <1>0, <1>1, <1>2, <1>3 DEF Before
<1>5. /\ \A n \in 1 .. N : Meant(n)' <=> Meant(n)
      /\ Meant(N + 1)' <=> Intersects(new.groups, Mine)
    BY <1>2 DEF Meant
<1>6. \A e \in Entities : e # new.entity => Seen(e)' = Seen(e)
    BY <1>2 DEF Seen
<1>8. RowsTell'
    <2> SUFFICES ASSUME NEW e \in Entities
                 PROVE  /\ VersionTells(e, Seen(e))'
                        /\ \A d \in 1 .. N + 1 : log'[d].entity = e /\ log'[d].tag = "Delete" /\ rows'[e] # Absent
                               => rows'[e].version > d + B
        BY <1>2, <1>4 DEF RowsTell
    <2>1. VersionTells(e, Seen(e)) /\ \A d \in 1 .. N : log[d].entity = e /\ log[d].tag = "Delete" /\ rows[e] # Absent
              => rows[e].version > d + B
        BY <1>0, <1>4 DEF RowsTell
    <2>2. CASE e # new.entity
        <3>1. Seen(e)' = Seen(e) /\ rows'[e] = rows[e]
            BY <1>2, <1>6, <2>2
        <3>2. VersionTells(e, Seen(e))'
            BY <1>0, <1>1, <1>2, <1>4, <1>5, <2>1, <3>1 DEF VersionTells
        <3> QED
            BY <1>1, <1>2, <2>1, <2>2, <3>1, <3>2
    <2>3. CASE e = new.entity
        <3>1. /\ new.tag # "Resync" /\ Seen(e)' \in {0, N + 1 + B}
              /\ ~Intersects(new.groups, Mine) => Seen(e)' = 0
              /\ rows'[e] # Absent => rows'[e].version = N + 1 + B
              /\ new.tag = "Delete" => rows'[e] = Absent
            BY <1>4, <2>3 DEF RowFollows
        <3>2. VersionTells(e, Seen(e))'
            <4>1. CASE Seen(e)' = 0
                BY <1>4, <4>1 DEF VersionTells
            <4>2. CASE Seen(e)' = N + 1 + B /\ Intersects(new.groups, Mine)
                BY <1>1, <1>2, <1>4, <1>5, <2>3, <4>2 DEF VersionTells
            <4> QED
                BY <3>1, <4>1, <4>2
        <3>3. ASSUME NEW d \in 1 .. N + 1, log'[d].entity = e, log'[d].tag = "Delete", rows'[e] # Absent
              PROVE  rows'[e].version > d + B
            BY <1>1, <1>2, <1>4, <3>1, <3>3
        <3> QED
            BY <3>2, <3>3
    <2> QED
        BY <2>2, <2>3
<1>9. DeletesTell'
    <2> SUFFICES ASSUME NEW n \in 1 .. N + 1, log'[n].tag = "Delete", Meant(n)',
                        \A k \in n + 1 .. N + 1 : log'[k].entity = log'[n].entity => ~Meant(k)'
                 PROVE  (Seen(log[n].entity) = 0)'
        BY <1>2 DEF DeletesTell
    <2>1. CASE n = N + 1
        <3>1. new.tag = "Delete" /\ log'[n].entity = new.entity
            BY <1>2, <2>1
        <3>2. new.entity \in Entities /\ rows'[new.entity] = Absent
            BY <3>1 DEF RowFollows
        <3> QED
            BY <3>1, <3>2 DEF Seen, Absent, Intersects
    <2>2. CASE n \in 1 .. N
        <3>1. log'[n] = log[n] /\ Meant(n)
            BY <1>2, <1>5, <2>2
        <3>2. \A k \in n + 1 .. N : log[k].entity = log[n].entity => ~Meant(k)
            BY <1>1, <1>2, <1>5, <2>2, <3>1
        <3>3. Seen(log[n].entity) = 0
            BY <1>0, <2>2, <3>1, <3>2 DEF DeletesTell
        <3>4. log[n].entity \in Entities
            BY <1>0, <2>2, <3>1 DEF TablesOK, WellNamed
        <3>5. CASE log[n].entity = new.entity
            <4>1. ~Meant(N + 1)'
                BY <1>1, <1>2, <2>2, <3>1, <3>5
            <4> QED
                BY <1>5, <3>1, <3>4, <3>5, <4>1 DEF RowFollows
        <3>6. CASE log[n].entity # new.entity
            BY <1>6, <3>1, <3>3, <3>4, <3>6
        <3> QED
            BY <3>5, <3>6
    <2> QED
        BY <1>1, <2>1, <2>2
<1>10. NoneMovedIn'
    <2>1. Place' = Place
        BY <1>2 DEF Place
    <2>2. PICK p : p = Place
        OBVIOUS
    <2>3. p \in Nat
        BY <2>2
    <2> SUFFICES ASSUME NEW n \in p + 1 .. N + 1, NEW m \in p + 1 .. N + 1, n < m,
                        log'[n].entity = log'[m].entity, Meant(n)', Meant(m)',
                        log'[n].tag = "Delete", log'[m].tag = "Update"
                 PROVE  \E k \in n + 1 .. m - 1 : log'[k].entity = log'[n].entity /\ Meant(k)'
        BY <1>2, <2>1, <2>2 DEF NoneMovedIn
    <2>4. n \in 1 .. N /\ log'[n] = log[n] /\ Meant(n)
        BY <1>1, <1>2, <1>5, <2>3
    <2>5. CASE m \in 1 .. N
        <3>1. log'[m] = log[m] /\ Meant(m)
            BY <1>2, <1>5, <2>5
        <3>2. PICK k \in n + 1 .. m - 1 : log[k].entity = log[n].entity /\ Meant(k)
            BY <1>0, <1>1, <2>2, <2>3, <2>4, <2>5, <3>1 DEF NoneMovedIn
        <3>3. k \in 1 .. N
            BY <1>1, <2>3, <2>4, <2>5
        <3> QED
            BY <1>2, <1>5, <2>4, <3>2, <3>3
    <2>6. CASE m = N + 1
        <3>1. new.tag = "Update" /\ log[n].entity = new.entity /\ Intersects(new.groups, Mine)
            BY <1>2, <1>5, <2>4, <2>6
        <3>2. ~DeletedInSight(new.entity)
            BY <3>1 DEF RowFollows
        <3>3. n \in Place + 1 .. Len(log)
            BY <1>0, <1>1, <2>2, <2>3, <2>4
        <3>4. PICK k \in n + 1 .. Len(log) : log[k].entity = new.entity /\ Meant(k)
            BY <2>4, <3>1, <3>2, <3>3 DEF DeletedInSight, Meant
        <3>5. k \in n + 1 .. m - 1 /\ k \in 1 .. N
            BY <1>0, <1>1, <2>3, <2>6
        <3> QED
            BY <1>2, <1>5, <2>4, <3>1, <3>4, <3>5
    <2> QED
        BY <1>1, <2>3, <2>5, <2>6
<1> QED
    BY <1>8, <1>9, <1>10

\* What is shown of a row stays told by its version, and outlives its pairs, for a row
\* shown ahead of its insert is not deleted.
LEMMA ShownFollows ==
    ASSUME TablesOK, NEW new, Recorded(new), NEW e \in Entities, NEW v, NEW p \in Nat, Shown(e, v, p),
           new.tag = "Delete" /\ new.entity = e =>
               v = 0 \/ ~(\E n \in p + 1 .. Len(log) : log[n].entity = e /\ log[n].tag = "Insert")
    PROVE  Shown(e, v, p)'
<1>0. PICK N : N = Len(log)
    OBVIOUS
<1>1. N \in Nat /\ written \in Nat
    BY <1>0 DEF TablesOK
<1>2. /\ Len(log') = N + 1 /\ log'[N + 1] = new /\ \A n \in 1 .. N : log'[n] = log[n]
      /\ written' = written + 1
    BY <1>0 DEF Recorded
<1>3. PICK B : B = Before /\ B = Before'
    BY <1>0, <1>1, <1>2 DEF Before
<1>4. VersionTells(e, v)'
    <2>1. v > B => \E n \in 1 .. N : v = n + B /\ log[n].entity = e /\ Meant(n)
        BY <1>0, <1>3 DEF Shown, VersionTells
    <2>2. \A n \in 1 .. N : n \in 1 .. N + 1 /\ (Meant(n)' <=> Meant(n))
        BY <1>1, <1>2 DEF Meant
    <2> QED
        BY <1>2, <1>3, <2>1, <2>2 DEF VersionTells
<1>5. ASSUME NEW n \in p + 1 .. N + 1, NEW d \in p + 1 .. N + 1, n < d, log'[n].entity = e,
             log'[n].tag = "Insert", log'[d].entity = e, log'[d].tag = "Delete"
      PROVE  v = 0 \/ v > d + B
    <2>1. n \in p + 1 .. N /\ log'[n] = log[n]
        BY <1>1, <1>2, <1>5
    <2>2. CASE d \in 1 .. N
        <3>1. d \in p + 1 .. N /\ log'[d] = log[d]
            BY <1>2, <1>5, <2>2
        <3> QED
            BY <1>0, <1>3, <1>5, <2>1, <3>1 DEF Shown, OutlivesPairs
    <2>3. CASE d = N + 1
        BY <1>0, <1>2, <1>5, <2>1, <2>3
    <2> QED
        BY <1>1, <1>5, <2>2, <2>3
<1> QED
    BY <1>2, <1>3, <1>4, <1>5 DEF Shown, OutlivesPairs

\* What was told stays so, or the event is news.
LEMMA ToldFollows ==
    ASSUME TablesOK, NEW new, Recorded(new), RowFollows(new), NEW e \in Entities, NEW v,
           NEW p \in 0 .. Len(log), Told(e, v, p)
    PROVE  Told(e, v, p)'
<1>0. PICK N : N = Len(log)
    OBVIOUS
<1>1. N \in Nat /\ p \in 0 .. N
    BY <1>0 DEF TablesOK
<1>2. /\ Len(log') = N + 1 /\ log'[N + 1] = new /\ \A n \in 1 .. N : log'[n] = log[n]
      /\ \A x \in Entities : x # new.entity => rows'[x] = rows[x]
    BY <1>0 DEF Recorded
<1>3. News(e, p) => News(e, p)'
    <2> SUFFICES ASSUME NEW n \in p + 1 .. N, Meant(n), log[n].entity = e \/ log[n].tag = "Resync"
                 PROVE  News(e, p)'
        BY <1>0 DEF News
    <2>1. n \in p + 1 .. N + 1 /\ n \in 1 .. N /\ log'[n] = log[n]
        BY <1>1, <1>2
    <2>2. Meant(n)'
        BY <2>1 DEF Meant
    <2> QED
        BY <1>2, <2>1, <2>2 DEF News
<1>4. CASE e # new.entity
    BY <1>2, <1>3, <1>4 DEF Told, Seen
<1>5. CASE e = new.entity /\ Intersects(new.groups, Mine)
    <2>1. N + 1 \in p + 1 .. N + 1
        BY <1>1
    <2>2. PICK n : n = N + 1
        OBVIOUS
    <2>3. Meant(n)' /\ log'[n].entity = e /\ n \in p + 1 .. Len(log')
        BY <1>2, <1>5, <2>1, <2>2 DEF Meant
    <2>4. News(e, p)'
        BY <2>3 DEF News
    <2> QED
        BY <2>4 DEF Told
<1>6. CASE e = new.entity /\ ~Intersects(new.groups, Mine)
    <2>1. Seen(e) = 0 /\ Seen(e)' = 0
        BY <1>6 DEF RowFollows
    <2> QED
        BY <1>3, <2>1 DEF Told
<1> QED
    BY <1>4, <1>5, <1>6

\* So what a batch tells it goes on telling.
LEMMA TellsFollows ==
    ASSUME TablesOK, NEW new, Recorded(new), RowFollows(new), NEW events, NEW data, NEW todo,
           NEW last \in 0 .. Len(log), Tells(events, data, todo, last)
    PROVE  Tells(events, data, todo, last)'
<1> SUFFICES ASSUME ~HasResync(events), NEW e \in Entities, EntityModel[e] \in Known
             PROVE  /\ \A r \in events : r.entity = e =>
                           /\ r.tag = "Delete" => Told(e, 0, last)'
                           /\ r.tag # "Delete" /\ e \notin todo => Told(e, data[e], last)'
                    /\ (\A r \in events : r.entity # e) /\ ~client.list => Told(e, client.view[e], last)'
    BY DEF Tells, HasResync, Recorded
<1>1. \A v : Told(e, v, last) => Told(e, v, last)'
    BY ToldFollows
<1>2. PICK v : v = client.view[e] /\ v = client'.view[e]
    BY DEF Recorded
<1>3. Told(e, client.view[e], last) => Told(e, client.view[e], last)'
    BY <1>1, <1>2
<1> QED
    BY <1>1, <1>3 DEF Tells, HasResync

\* The readers are left alone by the event, and keep what they show and tell.
LEMMA ReadersFollow ==
    ASSUME FeedShape, NEW new, Recorded(new), RowFollows(new), Showing, Truth
    PROVE  Showing' /\ Truth'
<1>1. /\ TablesOK /\ ReadersOK /\ Flow /\ Places /\ Len(log) \in Nat /\ NoEpoch = 0
    BY DEF FeedShape, TablesOK, NoEpoch
<1>2. UNCHANGED <<epoch, stream, read, frame, client>>
    BY DEF Recorded
<1>3. (OnTimeline' <=> OnTimeline) /\ (ReadHere' <=> ReadHere) /\ (FrameHere' <=> FrameHere)
    BY <1>2 DEF OnTimeline, ReadHere, FrameHere
<1>4. SUFFICES ASSUME OnTimeline PROVE Showing' /\ Truth'
    BY <1>3 DEF Showing, Truth
<1>5. PICK c, l, f : c = client.cursor /\ l = read.last /\ f = frame.last
    OBVIOUS
<1>6. /\ c \in 0 .. Len(log) /\ l \in Nat /\ f \in Nat
      /\ ReadHere => l \in 0 .. Len(log) /\ c <= l
      /\ FrameHere => f \in 0 .. Len(log) /\ c <= f
    BY <1>1, <1>4, <1>5 DEF ReadersOK, Flow, Places, OnTimeline
<1>7. Place = c
    BY <1>4, <1>5 DEF Place, OnTimeline
<1>8. Showing'
    <2> SUFFICES ASSUME NEW e \in Entities
                 PROVE  /\ Shown(e, client.view[e], client.cursor)'
                        /\ ReadHere => Shown(e, read.data[e], read.last)'
                        /\ FrameHere => Shown(e, frame.data[e], frame.last)'
        BY <1>3 DEF Showing
    <2>1. PICK v, r, s : v = client.view[e] /\ r = read.data[e] /\ s = frame.data[e]
        OBVIOUS
    <2>2. new.tag = "Delete" /\ new.entity = e =>
              \/ v = 0 /\ r = 0 /\ s = 0
              \/ \A p \in Nat : c <= p => ~(\E n \in p + 1 .. Len(log) : log[n].entity = e /\ log[n].tag = "Insert")
        BY <1>1, <1>6, <1>7, <2>1 DEF RowFollows, ShownEarly
    <2>3. Shown(e, v, c)'
        <3>1. Shown(e, v, c)
            BY <1>4, <1>5, <2>1 DEF Showing
        <3> QED
            BY <1>1, <1>6, <2>2, <3>1, ShownFollows
    <2>4. ReadHere => Shown(e, r, l)'
        <3>1. ReadHere => Shown(e, r, l)
            BY <1>4, <1>5, <2>1 DEF Showing
        <3> QED
            BY <1>1, <1>6, <2>2, <3>1, ShownFollows
    <2>5. FrameHere => Shown(e, s, f)'
        <3>1. FrameHere => Shown(e, s, f)
            BY <1>4, <1>5, <2>1 DEF Showing
        <3> QED
            BY <1>1, <1>6, <2>2, <3>1, ShownFollows
    <2> QED
        BY <1>2, <1>5, <2>1, <2>3, <2>4, <2>5
<1>9. Truth'
    <2>1. ASSUME ~client.list, NEW e \in Entities, EntityModel[e] \in Known
          PROVE  Told(e, client.view[e], client.cursor)'
        <3>1. PICK v : v = client.view[e]
            OBVIOUS
        <3>2. Told(e, v, c)
            BY <1>4, <1>5, <2>1, <3>1 DEF Truth
        <3>3. Told(e, v, c)'
            BY <1>1, <1>6, <3>2, ToldFollows
        <3> QED
            BY <1>2, <1>5, <3>1, <3>3
    <2>2. ASSUME ReadHere, read.pc = "hydrate" PROVE Tells(read.events, read.data, read.todo, read.last)'
        <3>1. PICK events, data, todo : events = read.events /\ data = read.data /\ todo = read.todo
            OBVIOUS
        <3>2. Tells(events, data, todo, l)
            BY <1>4, <1>5, <2>2, <3>1 DEF Truth
        <3>3. Tells(events, data, todo, l)'
            BY <1>1, <1>6, <2>2, <3>2, TellsFollows
        <3> QED
            BY <1>2, <1>5, <3>1, <3>3
    <2>3. ASSUME FrameHere PROVE Tells(frame.events, frame.data, {}, frame.last)'
        <3>1. PICK events, data : events = frame.events /\ data = frame.data
            OBVIOUS
        <3>2. Tells(events, data, {}, f)
            BY <1>4, <1>5, <2>3, <3>1 DEF Truth
        <3>3. Tells(events, data, {}, f)'
            BY <1>1, <1>6, <2>3, <3>2, TellsFollows
        <3> QED
            BY <1>2, <1>5, <3>1, <3>3
    <2> QED
        BY <1>2, <1>3, <2>1, <2>2, <2>3 DEF Truth
<1> QED
    BY <1>8, <1>9

\* Every event of the application keeps the subscriber following, when no window is open.
LEMMA ApplicationFollows ==
    ASSUME FeedShape, Following, Application, OpenFeedWindows = {}
    PROVE  Following'
<1>1. TablesOK /\ Len(log) \in Nat /\ written \in Nat /\ RowsOK /\ "none" \notin Entities
    BY FeedConstants DEF FeedShape, TablesOK
<1>2. ASSUME NEW new, Recorded(new), RowFollows(new) PROVE Following'
    <2>1. Place \in Nat
        BY DEF FeedShape, ReadersOK, Place
    <2>2. RowsTell' /\ DeletesTell' /\ NoneMovedIn'
        BY <1>1, <1>2, <2>1, TablesFollow DEF Following
    <2>3. Showing' /\ Truth'
        BY <1>2, ReadersFollow DEF Following
    <2>4. FirstEpoch'
        BY <1>2 DEF Following, FirstEpoch, Recorded
    <2> QED
        BY <2>2, <2>3, <2>4 DEF Following
<1>3. ASSUME NEW e \in Entities, NEW groups \in Homes, Upsert(e, groups) PROVE Following'
    <2>1. PICK new \in Event :
               /\ new.entity = e /\ new.groups = groups \cup rows[e].groups
               /\ new.tag = IF rows[e] = Absent THEN "Insert" ELSE "Update"
               /\ Len(log') = Len(log) + 1 /\ \A n \in 1 .. Len(log) : log'[n] = log[n]
               /\ log'[Len(log) + 1] = new
               /\ written' = written + 1 /\ UNCHANGED <<epoch, retained, stream, read, frame, client, faults>>
               /\ rows' = [rows EXCEPT ![e] = [groups |-> groups, version |-> written + 1]]
        BY <1>1, <1>3, UpsertDispatches
    <2>2. rows'[e] = [groups |-> groups, version |-> written + 1] /\ \A x \in Entities : x # e => rows'[x] = rows[x]
        BY <1>1, <2>1 DEF RowsOK
    <2>3. Recorded(new)
        BY <2>1, <2>2 DEF Recorded
    <2>4. new.tag \in {"Insert", "Update"} /\ (new.tag = "Update" => rows[e] # Absent)
        BY <2>1
    <2>5. rows[e] = Absent \/ ~DeletedInSight(e) \/ ~Intersects(new.groups, Mine)
        BY <1>3, <2>1 DEF Upsert
    <2>6. ~Intersects(new.groups, Mine) => Seen(e) = 0 /\ Seen(e)' = 0
        BY <2>1, <2>2 DEF Seen, Intersects
    <2>7. Seen(e)' \in {0, written + 1} /\ rows'[e].version = written + 1
        BY <2>2 DEF Seen
    <2>8. RowFollows(new)
        BY <2>1, <2>4, <2>5, <2>6, <2>7 DEF RowFollows
    <2> QED
        BY <1>2, <2>3, <2>8
<1>4. ASSUME NEW e \in Entities, RemoveRow(e) PROVE Following'
    <2>1. PICK new \in Event :
               /\ new.entity = e /\ new.groups = rows[e].groups /\ new.tag = "Delete"
               /\ Len(log') = Len(log) + 1 /\ \A n \in 1 .. Len(log) : log'[n] = log[n]
               /\ log'[Len(log) + 1] = new
               /\ written' = written + 1 /\ UNCHANGED <<epoch, retained, stream, read, frame, client, faults>>
               /\ rows' = [rows EXCEPT ![e] = Absent]
        BY <1>1, <1>4, RemoveDispatches
    <2>2. rows'[e] = Absent /\ \A x \in Entities : x # e => rows'[x] = rows[x]
        BY <1>1, <2>1 DEF RowsOK
    <2>3. Recorded(new)
        BY <2>1, <2>2 DEF Recorded
    <2>4. ~ShownEarly(e)
        BY <1>4 DEF RemoveRow
    <2>5. (~Intersects(new.groups, Mine) => Seen(e) = 0) /\ Seen(e)' = 0
        BY <2>1, <2>2 DEF Seen, Intersects, Absent
    <2>6. RowFollows(new)
        BY <2>1, <2>2, <2>4, <2>5 DEF RowFollows
    <2> QED
        BY <1>2, <2>3, <2>6
<1>5. ASSUME NEW target \in Targets, Announce(target) PROVE Following'
    <2>1. PICK new \in Event :
               /\ new.entity = "none" /\ new.tag = "Resync"
               /\ Len(log') = Len(log) + 1 /\ \A n \in 1 .. Len(log) : log'[n] = log[n]
               /\ log'[Len(log) + 1] = new
               /\ written' = written + 1 /\ UNCHANGED <<epoch, retained, stream, read, frame, client, faults>>
               /\ rows' = rows
        BY <1>1, <1>5, AnnounceDispatches
    <2>2. Recorded(new)
        BY <2>1 DEF Recorded
    <2>3. RowFollows(new)
        BY <1>1, <2>1 DEF RowFollows
    <2> QED
        BY <1>2, <2>2, <2>3
<1> QED
    BY <1>3, <1>4, <1>5 DEF Application

\* A log that starts over is not the one the client follows.
LEMMA BootFollows ==
    ASSUME FeedShape, Following, Boot, OpenFeedWindows = {}
    PROVE  Following'
<1>1. /\ log' = <<>> /\ epoch' = epoch + 1 /\ client.epoch # NoEpoch
      /\ UNCHANGED <<rows, client, written>>
    BY DEF Boot
<1>2. /\ Len(log') = 0 /\ written \in Nat /\ epoch \in Nat /\ client.epoch <= epoch /\ client.epoch \in Nat
      /\ rows \in [Entities -> [groups : SUBSET Groups, version : 0 .. written]]
    BY <1>1 DEF FeedShape, TablesOK, RowsOK, Flow, ReadersOK
<1>3. FirstEpoch'
    BY <1>1 DEF FirstEpoch
<1>4. ~OnTimeline'
    BY <1>1, <1>2 DEF OnTimeline
<1>5. Showing' /\ Truth'
    BY <1>4 DEF Showing, Truth
<1>6. RowsTell'
    <2> SUFFICES ASSUME NEW e \in Entities PROVE VersionTells(e, Seen(e))'
        BY <1>2 DEF RowsTell
    <2>1. Seen(e)' <= written /\ Before' = written
        BY <1>1, <1>2 DEF Seen, Before
    <2>2. Seen(e)' \in Nat
        BY <1>1, <1>2 DEF Seen
    <2> QED
        BY <1>2, <2>1, <2>2 DEF VersionTells
<1>7. DeletesTell'
    BY <1>2 DEF DeletesTell
<1>8. NoneMovedIn'
    <2>1. Place' \in Nat
        BY <1>1 DEF FeedShape, ReadersOK, Place
    <2> QED
        BY <1>2, <2>1 DEF NoneMovedIn
<1> QED
    BY <1>3, <1>5, <1>6, <1>7, <1>8 DEF Following

\* While the tables stay, what is shown and told of a row does.
LEMMA TablesStay ==
    ASSUME UNCHANGED <<rows, log, written>>, Following
    PROVE  /\ RowsTell' /\ DeletesTell'
           /\ \A e, v, p : (Shown(e, v, p)' <=> Shown(e, v, p)) /\ (Told(e, v, p)' <=> Told(e, v, p))
           /\ \A e : Seen(e)' = Seen(e)
<1>1. UNCHANGED Before /\ \A n : UNCHANGED Meant(n)
    BY DEF Before, Meant
<1>2. \A e : Seen(e)' = Seen(e)
    BY DEF Seen
<1>3. RowsTell'
    BY <1>1, <1>2 DEF Following, RowsTell, VersionTells
<1>4. DeletesTell'
    BY <1>1, <1>2 DEF Following, DeletesTell
<1>5. \A e, v, p : Shown(e, v, p)' <=> Shown(e, v, p)
    BY <1>1 DEF Shown, VersionTells, OutlivesPairs
<1>6. \A e, v, p : Told(e, v, p)' <=> Told(e, v, p)
    BY <1>1, <1>2 DEF Told, News
<1> QED
    BY <1>2, <1>3, <1>4, <1>5, <1>6

\* A connection made, lost or pruned behind, and a read begun or begun again, show and
\* tell nothing.
LEMMA QuietFollows ==
    ASSUME FeedShape, Following, Prune \/ Lose \/ Connect \/ ReadEpoch \/ ReadHead \/ Void \/ UNCHANGED fvars
    PROVE  Following'
<1>1. UNCHANGED <<rows, log, epoch, written, client>>
    BY DEF Prune, Lose, Connect, ReadEpoch, ReadHead, Void, fvars, tables
<1>2. /\ RowsTell' /\ DeletesTell'
      /\ \A e, v, p : (Shown(e, v, p)' <=> Shown(e, v, p)) /\ (Told(e, v, p)' <=> Told(e, v, p))
    BY <1>1, TablesStay
<1>3. FirstEpoch' /\ NoneMovedIn'
    BY <1>1 DEF Following, FirstEpoch, NoneMovedIn, Place, Meant
<1>4. read' = read \/ (read'.pc # "hydrate" /\ read'.data = NoData)
    <2>1. CASE ReadHead
        <3>1. read.pc = "head" /\ read' = [read EXCEPT !.pc = "list", !.last = Len(log)]
            BY <2>1 DEF ReadHead
        <3>2. read.data = NoData
            BY <3>1 DEF FeedShape, Flow
        <3>3. read'.pc = "list" /\ read'.data = read.data
            BY <3>1 DEF FeedShape, ReadersOK
        <3> QED
            BY <3>2, <3>3
    <2>2. CASE Lose \/ ReadEpoch \/ Void
        <3>1. CASE Lose
            BY <3>1 DEF Lose, Idle
        <3>2. CASE ReadEpoch \/ Void
            <4>1. read' = [pc |-> "head", epoch |-> epoch, last |-> 0, events |-> {}, todo |-> {}, data |-> NoData]
                BY <3>2 DEF ReadEpoch, Void, Idle
            <4> QED
                BY <4>1
        <3> QED
            BY <2>2, <3>1, <3>2
    <2>3. CASE Prune \/ Connect \/ UNCHANGED fvars
        BY <2>3 DEF Prune, Connect, fvars
    <2> QED
        BY <2>1, <2>2, <2>3
<1>5. frame' = frame \/ frame' = NoFrame
    BY DEF Prune, Lose, Connect, ReadEpoch, ReadHead, Void, fvars
<1>6. \A e, p : Shown(e, 0, p)
    <2>1. Len(log) \in Nat /\ written \in Nat /\ Len(log) <= written
        BY DEF FeedShape, TablesOK
    <2> QED
        BY <2>1 DEF Shown, VersionTells, OutlivesPairs, Before
<1>7. (OnTimeline' <=> OnTimeline) /\ (FrameHere' => frame' = frame /\ FrameHere)
    BY <1>1, <1>5 DEF OnTimeline, FrameHere, NoFrame
<1>8. Showing'
    <2> SUFFICES ASSUME OnTimeline, NEW e \in Entities
                 PROVE  /\ Shown(e, client.view[e], client.cursor)'
                        /\ ReadHere' => Shown(e, read.data[e], read.last)'
                        /\ FrameHere' => Shown(e, frame.data[e], frame.last)'
        BY <1>7 DEF Showing
    <2>1. /\ Shown(e, client.view[e], client.cursor)
          /\ ReadHere => Shown(e, read.data[e], read.last)
          /\ FrameHere => Shown(e, frame.data[e], frame.last)
        BY DEF Following, Showing
    <2>2. Shown(e, client.view[e], client.cursor)'
        BY <1>1, <2>1, TablesStay
    <2>3. ReadHere' => Shown(e, read.data[e], read.last)'
        <3>1. CASE read' = read
            <4>1. ReadHere' <=> ReadHere
                BY <1>1, <3>1 DEF ReadHere
            <4>2. PICK v, p : v = read.data[e] /\ p = read.last
                OBVIOUS
            <4> QED
                BY <1>2, <2>1, <3>1, <4>1, <4>2
        <3>2. CASE read'.data = NoData
            <4>1. read'.data[e] = 0
                BY <3>2 DEF NoData
            <4>2. PICK p : p = read'.last
                OBVIOUS
            <4>3. Shown(e, 0, p)'
                BY <1>2, <1>6
            <4> QED
                BY <4>1, <4>2, <4>3
        <3> QED
            BY <1>4, <3>1, <3>2
    <2>4. FrameHere' => Shown(e, frame.data[e], frame.last)'
        <3>1. PICK v, p : v = frame.data[e] /\ p = frame.last
            OBVIOUS
        <3> QED
            BY <1>2, <1>7, <2>1, <3>1
    <2> QED
        BY <2>2, <2>3, <2>4
<1>9. \A events, data, todo, last : Tells(events, data, todo, last)' <=> Tells(events, data, todo, last)
    BY <1>1, <1>2 DEF Tells, HasResync
<1>10. Truth'
    <2> SUFFICES ASSUME OnTimeline
                 PROVE  /\ ~client.list => \A e \in Entities : EntityModel[e] \in Known =>
                               Told(e, client.view[e], client.cursor)'
                        /\ (ReadHere /\ read.pc = "hydrate" => Tells(read.events, read.data, read.todo, read.last))'
                        /\ (FrameHere => Tells(frame.events, frame.data, {}, frame.last))'
        BY <1>1, <1>7 DEF Truth
    <2>1. ASSUME ~client.list, NEW e \in Entities, EntityModel[e] \in Known
          PROVE  Told(e, client.view[e], client.cursor)'
        <3>1. PICK v, p : v = client.view[e] /\ p = client.cursor
            OBVIOUS
        <3> QED
            BY <1>1, <1>2, <2>1, <3>1 DEF Following, Truth
    <2>2. ASSUME ReadHere', read'.pc = "hydrate" PROVE Tells(read.events, read.data, read.todo, read.last)'
        <3>1. read' = read /\ ReadHere /\ read.pc = "hydrate"
            BY <1>1, <1>4, <2>2 DEF ReadHere
        <3>2. PICK events, data, todo, last : /\ events = read.events /\ data = read.data
                                              /\ todo = read.todo /\ last = read.last
            OBVIOUS
        <3>3. Tells(events, data, todo, last)'
            BY <1>9, <3>1, <3>2 DEF Following, Truth
        <3> QED
            BY <3>1, <3>2, <3>3
    <2>3. ASSUME FrameHere' PROVE Tells(frame.events, frame.data, {}, frame.last)'
        <3>1. PICK events, data, last : events = frame.events /\ data = frame.data /\ last = frame.last
            OBVIOUS
        <3>2. Tells(events, data, {}, last)'
            BY <1>7, <1>9, <2>3, <3>1 DEF Following, Truth
        <3> QED
            BY <1>7, <2>3, <3>1, <3>2
    <2> QED
        BY <2>1, <2>2, <2>3
<1> QED
    BY <1>2, <1>3, <1>8, <1>10 DEF Following

\* What a batch without Resyncs leaves unsaid of e the subscriber shows already.
LEMMA UnsaidIsShown ==
    ASSUME FeedShape, Following, NEW e \in Entities, NEW v \in Nat, NEW c \in Nat, NEW last \in Nat,
           Told(e, v, c), Shown(e, v, c), NEW run, NEW kept,
           run = {n \in 1 .. Len(log) : n > c /\ n <= last /\ Meant(n)},
           SquashFacts(log, run, kept, Len(log)), ~HasResync(kept), \A r \in kept : r.entity # e
    PROVE  Told(e, v, last)
<1>1. PICK N : N = Len(log)
    OBVIOUS
<1>2. N \in Nat /\ written \in Nat /\ N <= written /\ run \in SUBSET (1 .. N)
    BY <1>1 DEF FeedShape, TablesOK
<1>3. \A n \in 1 .. N : n \in run => log[n].tag # "Resync"
    BY <1>1, <1>2, ResyncsLeaveOne DEF SquashFacts
<1>4. SUFFICES ASSUME ~News(e, last), v # Seen(e) PROVE FALSE
    BY DEF Told
<1>5. \A n \in 1 .. N : log[n].entity = e /\ Meant(n) => n <= last
    BY <1>1, <1>2, <1>4 DEF News
<1> DEFINE R == {n \in run : log[n].entity = e}
<1>6. R # {}
    <2>1. PICK n \in c + 1 .. N : Meant(n) /\ (log[n].entity = e \/ log[n].tag = "Resync")
        BY <1>1, <1>4 DEF Told, News
    <2>2. n <= last
        BY <1>1, <1>2, <1>4, <2>1 DEF News
    <2>3. n \in run
        BY <1>1, <1>2, <2>1, <2>2
    <2> QED
        BY <1>2, <1>3, <2>1, <2>3
<1>7. PICK m \in R : \A k \in R : m >= k
    <2>1. IsFiniteSet(1 .. N)
        BY <1>2, FS_Interval
    <2>2. IsFiniteSet(R) /\ R \in SUBSET Nat
        BY <1>2, <2>1, FS_Subset
    <2> QED
        BY <1>6, <2>2, GreatestPosition
<1>8. /\ m \in run /\ m \in 1 .. N /\ m > c /\ Meant(m) /\ log[m].entity = e
      /\ \A k \in m + 1 .. N : k \in run => log[k].entity # e
    BY <1>1, <1>2, <1>7
<1>9. \A k \in m + 1 .. N : log[k].entity = e => ~Meant(k)
    BY <1>1, <1>2, <1>5, <1>8
<1>10. log[m].tag = "Delete"
    <2>1. log[m].tag \in {"Insert", "Update", "Delete", "Resync"}
        BY <1>1, <1>8, LogIsLog DEF FeedShape, IsLog, Sent
    <2>2. ~(log[m].tag \in {"Insert", "Update"})
        BY <1>1, <1>3, <1>8 DEF SquashFacts, UpsertsKept
    <2> QED
        BY <1>3, <1>8, <2>1, <2>2
<1>11. Seen(e) = 0
    BY <1>1, <1>8, <1>9, <1>10 DEF Following, DeletesTell
<1>12. PICK f \in 1 .. N : f \in run /\ log[f].entity = e /\ log[f].tag = "Insert"
    <2>1. FirstInserted(log, run, e, N)
        BY <1>1, <1>3, <1>8 DEF SquashFacts, DroppedWereInserted
    <2> QED
        BY <2>1 DEF FirstInserted
<1>13. f < m /\ f \in c + 1 .. N /\ m \in c + 1 .. N
    <2>1. f \in R /\ f # m
        BY <1>10, <1>12
    <2> QED
        BY <1>1, <1>2, <1>7, <1>8, <1>12, <2>1
<1>14. v = 0 \/ v > m + Before
    BY <1>1, <1>8, <1>10, <1>12, <1>13 DEF Shown, OutlivesPairs
<1>15. Before \in Nat
    BY <1>1, <1>2 DEF Before
<1>16. ASSUME v > m + Before PROVE FALSE
    <2>1. v > Before => \E n \in 1 .. N : v = n + Before /\ log[n].entity = e /\ Meant(n)
        BY <1>1 DEF Shown, VersionTells
    <2>2. PICK B \in Nat : B = Before
        BY <1>15
    <2>3. PICK n \in 1 .. N : v = n + B /\ log[n].entity = e /\ Meant(n)
        BY <1>8, <1>16, <2>1, <2>2
    <2>4. n \in m + 1 .. N
        BY <1>2, <1>8, <1>16, <2>2, <2>3
    <2> QED
        BY <1>9, <2>3, <2>4
<1> QED
    BY <1>4, <1>11, <1>14, <1>16

\* What the feed lists tells of every entity what the subscriber has to know.
LEMMA ListTells ==
    ASSUME FeedShape, Following, List, OnTimeline, read.epoch = epoch
    PROVE  Tells(read'.events, read.data, read'.todo, read.last)
<1>1. /\ TablesOK /\ ReadersOK /\ Flow /\ Places /\ Len(log) \in Nat /\ read.pc = "list" /\ ReadHere
    BY DEF FeedShape, TablesOK, List, ReadHere
<1>2. PICK c, last : c = client.cursor /\ last = read.last
    OBVIOUS
<1>3. c \in Nat /\ last \in Nat /\ c <= last /\ last <= Len(log) /\ stream.cursor = c /\ Place = c
    BY <1>1, <1>2 DEF ReadersOK, Flow, Places, OnTimeline, Place
<1>4. PICK kept : /\ kept = IF stream.cursor < retained THEN Synthetic(last) ELSE Squashed(log, Visible(last))
                  /\ read' = [read EXCEPT !.pc = "hydrate", !.events = kept, !.todo = Wanted(kept)]
    BY <1>2 DEF List
<1>5. read'.events = kept /\ read'.todo = Wanted(kept)
    BY <1>1, <1>4 DEF ReadersOK
<1>6. SUFFICES ASSUME ~HasResync(kept), NEW e \in Entities, EntityModel[e] \in Known
               PROVE  /\ \A r \in kept : r.entity = e =>
                             /\ r.tag = "Delete" => Told(e, 0, last)
                             /\ r.tag # "Delete" /\ e \notin Wanted(kept) => Told(e, read.data[e], last)
                      /\ (\A r \in kept : r.entity # e) /\ ~client.list => Told(e, client.view[e], last)
    BY <1>2, <1>5 DEF Tells
<1>7. PICK v \in Nat : v = client.view[e]
    BY <1>1 DEF ReadersOK, TablesOK
<1>8. ~client.list => Told(e, v, c)
    BY <1>2, <1>6, <1>7 DEF Following, Truth
<1>9. Shown(e, v, c)
    BY <1>2, <1>7 DEF Following, Showing
<1>10. CASE stream.cursor < retained
    <2>1. Mine = {}
        BY <1>4, <1>6, <1>10 DEF Synthetic, HasResync
    <2>2. kept = {}
        BY <1>4, <1>10, <2>1 DEF Synthetic
    <2>3. \A p : ~News(e, p)
        BY <2>1 DEF News, Meant, Intersects
    <2> QED
        BY <1>7, <1>8, <2>2, <2>3 DEF Told
<1>11. CASE ~(stream.cursor < retained)
    <2>1. PICK run : run = {n \in 1 .. Len(log) : n > c /\ n <= last /\ Meant(n)}
        OBVIOUS
    <2>2. run = Visible(last)
        <3>1. DOMAIN log = 1 .. Len(log)
            BY <1>1 DEF TablesOK
        <3> QED
            BY <1>3, <2>1, <3>1 DEF Visible, Meant
    <2>3. NoUpdateAfterDelete(log, run)
        <3> SUFFICES ASSUME NEW n \in run, NEW m \in run, n < m, log[n].entity = log[m].entity,
                            log[n].tag = "Delete", log[m].tag = "Update"
                     PROVE  \E k \in run : n < k /\ k < m /\ log[k].entity = log[n].entity
            BY DEF NoUpdateAfterDelete
        <3>1. n \in Place + 1 .. Len(log) /\ m \in Place + 1 .. Len(log) /\ Meant(n) /\ Meant(m)
            BY <1>1, <1>3, <2>1
        <3>2. PICK k \in n + 1 .. m - 1 : log[k].entity = log[n].entity /\ Meant(k)
            BY <3>1 DEF Following, NoneMovedIn
        <3>3. k \in run /\ n < k /\ k < m
            BY <1>1, <1>3, <2>1, <3>1, <3>2
        <3> QED
            BY <3>2, <3>3
    <2>4. SquashFacts(log, run, kept, Len(log))
        <3>1. kept = Squashed(log, run) /\ run \subseteq 1 .. Len(log)
            BY <1>4, <1>11, <2>1, <2>2
        <3> QED
            BY <1>1, <2>3, <3>1, LogIsLog, SquashReturns
    <2>5. ASSUME NEW r \in kept, r.entity = e, r.tag = "Delete" PROVE Told(e, 0, last)
        <3>1. PICK t \in 1 .. Len(log) :
                  /\ t \in run /\ log[t].entity = e /\ log[t].tag = "Delete"
                  /\ \A k \in t + 1 .. Len(log) : k \in run => log[k].entity # e
            BY <2>4, <2>5 DEF SquashFacts, KeptAreLast
        <3>2. CASE \A k \in t + 1 .. Len(log) : log[k].entity = e => ~Meant(k)
            <4>1. Meant(t)
                BY <2>1, <3>1
            <4>2. Seen(e) = 0
                BY <3>1, <3>2, <4>1 DEF Following, DeletesTell
            <4> QED
                BY <4>2 DEF Told
        <3>3. ASSUME NEW k \in t + 1 .. Len(log), log[k].entity = e, Meant(k) PROVE News(e, last)
            <4>1. k \in 1 .. Len(log) /\ k > c /\ k \notin run
                BY <1>1, <1>3, <2>1, <3>1, <3>3
            <4>2. k \in last + 1 .. Len(log)
                BY <1>1, <1>3, <2>1, <3>3, <4>1
            <4> QED
                BY <3>3, <4>2 DEF News
        <3> QED
            BY <3>2, <3>3 DEF Told
    <2>6. ASSUME NEW r \in kept, r.entity = e, r.tag # "Delete" PROVE e \in Wanted(kept)
        <3>1. r \in Sent /\ WellNamed(r) /\ r.tag # "Resync"
            BY <1>6, <2>4, <2>6 DEF SquashFacts, KeptAreLast, HasResync
        <3>2. r.tag \in {"Insert", "Update"} /\ r.model \in Known
            BY <1>6, <2>6, <3>1 DEF Sent, WellNamed
        <3> QED
            BY <2>6, <3>2 DEF Wanted
    <2>7. (\A r \in kept : r.entity # e) /\ ~client.list => Told(e, v, last)
        BY <1>3, <1>6, <1>8, <1>9, <2>1, <2>4, UnsaidIsShown
    <2> QED
        BY <1>7, <2>5, <2>6, <2>7
<1> QED
    BY <1>10, <1>11

\* A row in the subscriber's sight is newer than any pair of events of its entity.
LEMMA RowsAreShown ==
    ASSUME FeedShape, Following, NEW e \in Entities, NEW v \in {0, Seen(e)}, NEW p \in Nat
    PROVE  Shown(e, v, p)
<1>1. Len(log) \in Nat /\ written \in Nat /\ Len(log) <= written
    BY DEF FeedShape, TablesOK
<1>2. CASE v = 0
    BY <1>1, <1>2 DEF Shown, VersionTells, OutlivesPairs, Before
<1>3. CASE v = Seen(e) /\ v # 0
    <2>1. VersionTells(e, v)
        BY <1>3 DEF Following, RowsTell
    <2>2. rows[e] # Absent /\ v = rows[e].version
        BY <1>3 DEF Seen, Absent, Intersects
    <2>3. OutlivesPairs(e, v, p)
        BY <1>1, <2>2 DEF Following, RowsTell, OutlivesPairs
    <2> QED
        BY <2>1, <2>3 DEF Shown
<1> QED
    BY <1>2, <1>3

\* Reading on tells the truth, of the rows as they are when they are read.
LEMMA ReadingFollows ==
    ASSUME FeedShape, Following, List \/ Hydrate
    PROVE  Following'
<1>1. /\ UNCHANGED <<rows, log, epoch, written, stream, frame, client>>
      /\ TablesOK /\ ReadersOK /\ Flow /\ Places /\ read.pc \in {"list", "hydrate"}
    BY DEF List, Hydrate, tables, FeedShape
<1>2. /\ RowsTell' /\ DeletesTell'
      /\ \A e, v, p : (Shown(e, v, p)' <=> Shown(e, v, p)) /\ (Told(e, v, p)' <=> Told(e, v, p))
    BY <1>1, TablesStay
<1>3. FirstEpoch' /\ NoneMovedIn'
    BY <1>1 DEF Following, FirstEpoch, NoneMovedIn, Place, Meant
<1>4. PICK todo : /\ todo = read'.todo /\ read'.pc = "hydrate" /\ read'.last = read.last /\ read'.epoch = read.epoch
                  /\ \A e \in Entities : \/ read'.data[e] = read.data[e] /\ (Hydrate => (e \in todo <=> e \in read.todo))
                                         \/ Hydrate /\ read'.data[e] = Seen(e)
                  /\ Hydrate => read'.events = read.events
    <2>1. CASE List
        <3>1. PICK events : read' = [read EXCEPT !.pc = "hydrate", !.events = events, !.todo = Wanted(events)]
            BY <2>1 DEF List
        <3>2. ~Hydrate
            BY <2>1 DEF List, Hydrate
        <3> QED
            BY <1>1, <3>1, <3>2 DEF ReadersOK
    <2>2. CASE Hydrate
        <3>1. PICK batch : read' = [read EXCEPT !.todo = @ \ batch,
                                   !.data = [e \in Entities |-> IF e \in batch THEN Seen(e) ELSE @[e]]]
            BY <2>2 DEF Hydrate
        <3>2. /\ read'.pc = read.pc /\ read'.last = read.last /\ read'.epoch = read.epoch
              /\ read'.events = read.events /\ read'.todo = read.todo \ batch
              /\ read'.data = [e \in Entities |-> IF e \in batch THEN Seen(e) ELSE read.data[e]]
            BY <1>1, <3>1 DEF ReadersOK
        <3>3. read.pc = "hydrate"
            BY <2>2 DEF Hydrate
        <3> QED
            BY <2>2, <3>2, <3>3
    <2> QED
        BY <2>1, <2>2
<1>5. (OnTimeline' <=> OnTimeline) /\ (FrameHere' <=> FrameHere) /\ (ReadHere' <=> ReadHere)
    BY <1>1, <1>4 DEF OnTimeline, FrameHere, ReadHere
<1>6. PICK last \in Nat : last = read.last
    BY <1>1 DEF ReadersOK
<1>7. Showing'
    <2> SUFFICES ASSUME OnTimeline, NEW e \in Entities
                 PROVE  /\ Shown(e, client.view[e], client.cursor)'
                        /\ ReadHere => Shown(e, read.data[e], read.last)'
                        /\ FrameHere => Shown(e, frame.data[e], frame.last)'
        BY <1>5 DEF Showing
    <2>1. PICK v, c, f, p : v = client.view[e] /\ c = client.cursor /\ f = frame.data[e] /\ p = frame.last
        OBVIOUS
    <2>2. Shown(e, v, c) /\ (FrameHere => Shown(e, f, p)) /\ (ReadHere => Shown(e, read.data[e], last))
        BY <1>6, <2>1 DEF Following, Showing
    <2>3. ReadHere => Shown(e, read'.data[e], last)
        BY <1>4, <1>6, <2>2, RowsAreShown
    <2>4. PICK d : d = read'.data[e]
        OBVIOUS
    <2>5. ReadHere => Shown(e, d, last)'
        BY <1>2, <2>3, <2>4
    <2> QED
        BY <1>1, <1>2, <1>4, <1>6, <2>1, <2>2, <2>4, <2>5
<1>8. Truth'
    <2> SUFFICES ASSUME OnTimeline
                 PROVE  /\ ~client.list => \A e \in Entities : EntityModel[e] \in Known =>
                               Told(e, client.view[e], client.cursor)'
                        /\ (ReadHere => Tells(read.events, read.data, read.todo, read.last))'
                        /\ (FrameHere => Tells(frame.events, frame.data, {}, frame.last))'
        BY <1>1, <1>5 DEF Truth
    <2>1. \A events, data, some, p : Tells(events, data, some, p)' <=> Tells(events, data, some, p)
        BY <1>1, <1>2 DEF Tells, HasResync
    <2>2. ASSUME ~client.list, NEW e \in Entities, EntityModel[e] \in Known
          PROVE  Told(e, client.view[e], client.cursor)'
        <3>1. PICK v, p : v = client.view[e] /\ p = client.cursor
            OBVIOUS
        <3> QED
            BY <1>1, <1>2, <2>2, <3>1 DEF Following, Truth
    <2>3. ASSUME FrameHere PROVE Tells(frame.events, frame.data, {}, frame.last)'
        <3>1. PICK events, data, p : events = frame.events /\ data = frame.data /\ p = frame.last
            OBVIOUS
        <3>2. Tells(events, data, {}, p)'
            BY <2>1, <2>3, <3>1 DEF Following, Truth
        <3> QED
            BY <1>1, <3>1, <3>2
    <2>4. ASSUME ReadHere PROVE Tells(read.events, read.data, read.todo, read.last)'
        <3>1. PICK events, data : events = read'.events /\ data = read'.data
            OBVIOUS
        <3>2. CASE List
            <4>1. Tells(events, read.data, todo, last)
                BY <1>4, <1>6, <2>4, <3>1, <3>2, ListTells DEF ReadHere
            <4>2. read.pc = "list" /\ ~Hydrate
                BY <3>2 DEF List, Hydrate
            <4>3. Tells(events, data, todo, last)
                BY <1>4, <3>1, <4>1, <4>2 DEF Tells
            <4> QED
                BY <1>4, <1>6, <2>1, <3>1, <4>3
        <3>3. CASE Hydrate
            <4>1. Tells(read.events, read.data, read.todo, last) /\ events = read.events
                BY <1>4, <1>6, <2>4, <3>1, <3>3 DEF Following, Truth, Hydrate
            <4>2. Tells(events, data, todo, last)
                BY <1>4, <3>1, <3>3, <4>1 DEF Tells, Told
            <4> QED
                BY <1>4, <1>6, <2>1, <3>1, <4>2
        <3> QED
            BY <3>2, <3>3
    <2> QED
        BY <1>5, <2>2, <2>3, <2>4
<1> QED
    BY <1>2, <1>3, <1>7, <1>8 DEF Following

\* What is sent tells what was read, an upsert whose row was not found as a delete.
LEMMA EnvelopesTell ==
    ASSUME NEW events, NEW data, NEW last, \A r \in events : WellNamed(r), Tells(events, data, {}, last),
           \A r \in events : r \in Sent
    PROVE  Tells(Envelopes(events, data), data, {}, last)
<1> DEFINE sent(r) == IF r.tag \in {"Insert", "Update"} /\ data[r.entity] = 0
                      THEN [r EXCEPT !.tag = "Delete"] ELSE r
           known == {x \in events : x.tag = "Resync" \/ x.model \in Known}
<1>1. Envelopes(events, data) = {sent(r) : r \in known}
    BY DEF Envelopes
<1>2. HasResync(events) <=> HasResync(Envelopes(events, data))
    BY EnvelopesAreEvents
<1>3. SUFFICES ASSUME ~HasResync(events), NEW e \in Entities, EntityModel[e] \in Known
               PROVE  /\ \A s \in Envelopes(events, data) : s.entity = e =>
                             /\ s.tag = "Delete" => Told(e, 0, last)
                             /\ s.tag # "Delete" => Told(e, data[e], last)
                      /\ (\A s \in Envelopes(events, data) : s.entity # e) /\ ~client.list =>
                             Told(e, client.view[e], last)
    BY <1>2 DEF Tells
<1>4. /\ \A r \in events : r.entity = e =>
             /\ r.tag = "Delete" => Told(e, 0, last)
             /\ r.tag # "Delete" => Told(e, data[e], last)
      /\ (\A r \in events : r.entity # e) /\ ~client.list => Told(e, client.view[e], last)
    BY <1>3 DEF Tells
<1>5. ASSUME NEW r \in events
      PROVE  /\ sent(r).entity = r.entity
             /\ \/ sent(r) = r
                \/ r.tag # "Delete" /\ data[r.entity] = 0 /\ sent(r).tag = "Delete"
    BY DEF Sent
<1>6. \A r \in events : r.entity = e => r \in known
    BY <1>3, FeedConstants DEF WellNamed
<1> HIDE DEF sent, known
<1>7. known \subseteq events
    BY DEF known
<1>8. \A s \in Envelopes(events, data) : s.entity = e =>
          /\ s.tag = "Delete" => Told(e, 0, last)
          /\ s.tag # "Delete" => Told(e, data[e], last)
    <2> SUFFICES ASSUME NEW r \in known, sent(r).entity = e
                 PROVE  /\ sent(r).tag = "Delete" => Told(e, 0, last)
                        /\ sent(r).tag # "Delete" => Told(e, data[e], last)
        BY <1>1
    <2>1. r \in events /\ r.entity = e
        BY <1>5, <1>7
    <2> QED
        BY <1>4, <1>5, <2>1
<1>9. ASSUME \A s \in Envelopes(events, data) : s.entity # e PROVE \A r \in events : r.entity # e
    BY <1>1, <1>5, <1>6, <1>7, <1>9
<1> QED
    BY <1>4, <1>8, <1>9

\* A frame tells what its read did.
LEMMA EmitFollows ==
    ASSUME FeedShape, Following, Emit
    PROVE  Following'
<1>1. /\ UNCHANGED <<rows, log, epoch, written, client>> /\ read' = Idle
      /\ read.pc = "hydrate" /\ read.todo = {} /\ read.epoch = epoch
      /\ frame' = [sent |-> TRUE, epoch |-> read.epoch, last |-> read.last,
                   events |-> Envelopes(read.events, read.data), data |-> read.data]
      /\ ReadersOK
    BY DEF Emit, tables, FeedShape
<1>2. /\ RowsTell' /\ DeletesTell'
      /\ \A e, v, p : (Shown(e, v, p)' <=> Shown(e, v, p)) /\ (Told(e, v, p)' <=> Told(e, v, p))
    BY <1>1, TablesStay
<1>3. FirstEpoch' /\ NoneMovedIn'
    BY <1>1 DEF Following, FirstEpoch, NoneMovedIn, Place, Meant
<1>4. ~ReadHere' /\ ReadHere /\ (OnTimeline' <=> OnTimeline)
    BY <1>1 DEF ReadHere, OnTimeline, Idle
<1>5. PICK events, data, last : /\ events = read.events /\ data = read.data /\ last = read.last
                                /\ frame'.events = Envelopes(events, data) /\ frame'.data = data
                                /\ frame'.last = last
    BY <1>1
<1>6. Showing'
    <2> SUFFICES ASSUME OnTimeline, NEW e \in Entities
                 PROVE  /\ Shown(e, client.view[e], client.cursor)'
                        /\ Shown(e, frame.data[e], frame.last)'
        BY <1>4 DEF Showing
    <2>1. PICK v, c, d : v = client.view[e] /\ c = client.cursor /\ d = data[e]
        OBVIOUS
    <2>2. Shown(e, v, c) /\ Shown(e, d, last)
        BY <1>4, <1>5, <2>1 DEF Following, Showing
    <2> QED
        BY <1>1, <1>2, <1>5, <2>1, <2>2
<1>7. Truth'
    <2> SUFFICES ASSUME OnTimeline
                 PROVE  /\ ~client.list => \A e \in Entities : EntityModel[e] \in Known =>
                               Told(e, client.view[e], client.cursor)'
                        /\ Tells(frame.events, frame.data, {}, frame.last)'
        BY <1>1, <1>4 DEF Truth
    <2>1. \A some, values, p : Tells(some, values, {}, p)' <=> Tells(some, values, {}, p)
        BY <1>1, <1>2 DEF Tells, HasResync
    <2>2. ASSUME ~client.list, NEW e \in Entities, EntityModel[e] \in Known
          PROVE  Told(e, client.view[e], client.cursor)'
        <3>1. PICK v, p : v = client.view[e] /\ p = client.cursor
            OBVIOUS
        <3> QED
            BY <1>1, <1>2, <2>2, <3>1 DEF Following, Truth
    <2>3. Tells(events, data, {}, last)
        BY <1>1, <1>4, <1>5 DEF Following, Truth
    <2>4. \A r \in events : r \in Sent /\ WellNamed(r)
        BY <1>1, <1>5 DEF ReadersOK
    <2>5. PICK out : out = Envelopes(events, data)
        OBVIOUS
    <2>6. Tells(out, data, {}, last)
        BY <2>3, <2>4, <2>5, EnvelopesTell
    <2> QED
        BY <1>5, <2>1, <2>2, <2>5, <2>6
<1> QED
    BY <1>2, <1>3, <1>6, <1>7 DEF Following

\* Listing afresh shows the rows as they are.
LEMMA ListAllFollows ==
    ASSUME FeedShape, Following, ListAll
    PROVE  Following'
<1>1. /\ UNCHANGED <<rows, log, epoch, written, stream, read, frame>> /\ ReadersOK
      /\ client' = [client EXCEPT !.list = FALSE,
                      !.view = [e \in Entities |-> IF EntityModel[e] \in Known THEN Seen(e) ELSE 0]]
    BY DEF ListAll, tables, FeedShape
<1>2. /\ client'.list = FALSE /\ client'.epoch = client.epoch /\ client'.cursor = client.cursor
      /\ \A e \in Entities : client'.view[e] = IF EntityModel[e] \in Known THEN Seen(e) ELSE 0
    BY <1>1 DEF ReadersOK
<1>3. /\ RowsTell' /\ DeletesTell'
      /\ \A e, v, p : (Shown(e, v, p)' <=> Shown(e, v, p)) /\ (Told(e, v, p)' <=> Told(e, v, p))
    BY <1>1, TablesStay
<1>4. FirstEpoch' /\ NoneMovedIn'
    BY <1>1, <1>2 DEF Following, FirstEpoch, NoneMovedIn, Place, Meant
<1>5. (OnTimeline' <=> OnTimeline) /\ (ReadHere' <=> ReadHere) /\ (FrameHere' <=> FrameHere)
    BY <1>1, <1>2 DEF OnTimeline, ReadHere, FrameHere
<1>6. PICK c \in Nat : c = client.cursor
    BY <1>1 DEF ReadersOK
<1>7. Showing'
    <2> SUFFICES ASSUME OnTimeline, NEW e \in Entities
                 PROVE  /\ Shown(e, client.view[e], client.cursor)'
                        /\ ReadHere => Shown(e, read.data[e], read.last)'
                        /\ FrameHere => Shown(e, frame.data[e], frame.last)'
        BY <1>5 DEF Showing
    <2>1. PICK v, d, p, f, s : /\ v = client'.view[e] /\ d = read.data[e] /\ p = read.last
                               /\ f = frame.data[e] /\ s = frame.last
        OBVIOUS
    <2>2. Shown(e, v, c)
        BY <1>2, <2>1, RowsAreShown
    <2>3. (ReadHere => Shown(e, d, p)) /\ (FrameHere => Shown(e, f, s))
        BY <2>1 DEF Following, Showing
    <2> QED
        BY <1>1, <1>2, <1>3, <1>6, <2>1, <2>2, <2>3
<1>8. Truth'
    <2>1. \A e \in Entities : EntityModel[e] \in Known => \A p : Told(e, client'.view[e], p)
        BY <1>2 DEF Told
    <2>2. ASSUME NEW e \in Entities, EntityModel[e] \in Known PROVE Told(e, client.view[e], client.cursor)'
        <3>1. PICK v : v = client'.view[e] /\ Told(e, v, c)
            BY <2>1, <2>2
        <3> QED
            BY <1>2, <1>3, <1>6, <3>1
    <2>3. ASSUME NEW events, NEW data, NEW todo, NEW last, Tells(events, data, todo, last)
          PROVE  Tells(events, data, todo, last)'
        <3> SUFFICES ASSUME ~HasResync(events), NEW e \in Entities, EntityModel[e] \in Known
                     PROVE  /\ \A r \in events : r.entity = e =>
                                   /\ r.tag = "Delete" => Told(e, 0, last)'
                                   /\ r.tag # "Delete" /\ e \notin todo => Told(e, data[e], last)'
                            /\ Told(e, client.view[e], last)'
            BY DEF Tells, HasResync
        <3>1. PICK v : v = client'.view[e] /\ Told(e, v, last)
            BY <2>1
        <3> QED
            BY <1>3, <2>3, <3>1 DEF Tells, HasResync
    <2>4. ASSUME OnTimeline, ReadHere, read.pc = "hydrate"
          PROVE  Tells(read.events, read.data, read.todo, read.last)'
        <3>1. PICK events, data, todo, last : /\ events = read.events /\ data = read.data
                                              /\ todo = read.todo /\ last = read.last
            OBVIOUS
        <3>2. Tells(events, data, todo, last)'
            BY <2>3, <2>4, <3>1 DEF Following, Truth
        <3> QED
            BY <1>1, <3>1, <3>2
    <2>5. ASSUME OnTimeline, FrameHere
          PROVE  Tells(frame.events, frame.data, {}, frame.last)'
        <3>1. PICK events, data, last : events = frame.events /\ data = frame.data /\ last = frame.last
            OBVIOUS
        <3>2. Tells(events, data, {}, last)'
            BY <2>3, <2>5, <3>1 DEF Following, Truth
        <3> QED
            BY <1>1, <3>1, <3>2
    <2> QED
        BY <1>1, <1>5, <2>2, <2>4, <2>5 DEF Truth
<1> QED
    BY <1>3, <1>4, <1>7, <1>8 DEF Following

\* Receiving a frame the client comes to be where the frame is, or lists again.
LEMMA ReceiveFollows ==
    ASSUME FeedShape, Following, Receive
    PROVE  Following'
<1> DEFINE over == HasResync(frame.events) \/ (client.epoch # NoEpoch /\ client.epoch # frame.epoch)
           applied(e) == IF \A r \in frame.events : r.entity # e THEN client.view[e]
                         ELSE IF \E r \in frame.events : r.entity = e /\ r.tag = "Delete" THEN 0
                         ELSE frame.data[e]
<1>1. /\ UNCHANGED <<rows, log, epoch, written, stream, read>> /\ TablesOK /\ ReadersOK /\ Flow /\ Places
      /\ frame.sent /\ frame' = NoFrame
      /\ client' = [cursor |-> frame.last, epoch |-> frame.epoch, list |-> client.list \/ over,
                    view |-> IF over \/ client.list THEN NoData ELSE [e \in Entities |-> applied(e)]]
    BY DEF Receive, tables, FeedShape
<1>2. /\ client'.cursor = frame.last /\ client'.epoch = frame.epoch
      /\ client'.list <=> client.list \/ over
      /\ over \/ client.list => \A e \in Entities : client'.view[e] = 0
      /\ ~over /\ ~client.list => \A e \in Entities : client'.view[e] = applied(e)
    <2> DEFINE all == [e \in Entities |-> applied(e)]
    <2>1. \A e \in Entities : all[e] = applied(e)
        OBVIOUS
    <2> HIDE DEF all, applied, over
    <2> QED
        BY <1>1, <2>1 DEF NoData
<1>3. /\ RowsTell' /\ DeletesTell'
      /\ \A e, v, p : (Shown(e, v, p)' <=> Shown(e, v, p)) /\ (Told(e, v, p)' <=> Told(e, v, p))
    BY <1>1, TablesStay
<1> HIDE DEF applied, over
<1>4. /\ frame.epoch \in 1 .. epoch /\ client.epoch <= frame.epoch /\ client.epoch \in Nat /\ epoch \in Nat
      /\ NoEpoch = 0 /\ read.pc = "idle" /\ client.cursor \in Nat /\ frame.last \in Nat
      /\ client.epoch = 0 => client.cursor = 0 /\ epoch = 1
      /\ Len(log) \in Nat
    BY <1>1 DEF Flow, ReadersOK, NoEpoch, Following, FirstEpoch, TablesOK
<1>5. OnTimeline' => FrameHere
    BY <1>1, <1>2, <1>4 DEF OnTimeline, FrameHere
<1>6. ~ReadHere' /\ ~FrameHere'
    BY <1>1, <1>4 DEF ReadHere, FrameHere, NoFrame
<1>7. FirstEpoch'
    BY <1>2, <1>4 DEF FirstEpoch
<1>8. NoneMovedIn'
    <2>1. Place' \in Nat /\ Place \in Nat /\ Place <= Place'
        BY <1>1, <1>2, <1>4 DEF Place, Places, OnTimeline, FrameHere
    <2>2. \A n : Meant(n)' <=> Meant(n)
        BY <1>1 DEF Meant
    <2>3. PICK p \in Nat, q \in Nat : p = Place /\ q = Place' /\ p <= q
        BY <2>1
    <2>4. \A n \in q + 1 .. Len(log) : n \in p + 1 .. Len(log)
        <3>1. p <= q /\ Len(log) \in Nat
            BY <1>4, <2>3
        <3> QED
            BY <3>1
    <2> QED
        BY <1>1, <2>2, <2>3, <2>4 DEF Following, NoneMovedIn
<1>9. FrameHere /\ ~over => OnTimeline /\ client.cursor <= frame.last
    BY <1>1, <1>4 DEF over, OnTimeline, FrameHere, Places
<1>10. PICK f : f = frame.last
    OBVIOUS
<1>11. Showing'
    <2> SUFFICES ASSUME FrameHere, NEW e \in Entities PROVE Shown(e, client.view[e], client.cursor)'
        BY <1>5, <1>6 DEF Showing
    <2>1. Shown(e, 0, f)
        BY <1>4, <1>10, RowsAreShown
    <2>2. ASSUME ~over PROVE Shown(e, client.view[e], f)
        <3>1. Shown(e, client.view[e], client.cursor)
            BY <1>9, <2>2 DEF Following, Showing
        <3> QED
            BY <1>4, <1>9, <1>10, <2>2, <3>1 DEF Shown, OutlivesPairs
    <2>3. ~over => Shown(e, frame.data[e], f)
        BY <1>9, <1>10 DEF Following, Showing
    <2>4. PICK v : v = client'.view[e]
        OBVIOUS
    <2>5. Shown(e, v, f)
        BY <1>2, <2>1, <2>2, <2>3, <2>4 DEF applied
    <2> QED
        BY <1>2, <1>3, <1>10, <2>4, <2>5
<1>12. Truth'
    <2> SUFFICES ASSUME FrameHere, ~over, ~client.list, NEW e \in Entities, EntityModel[e] \in Known
                 PROVE  Told(e, client.view[e], client.cursor)'
        BY <1>2, <1>5, <1>6 DEF Truth
    <2>1. Tells(frame.events, frame.data, {}, f) /\ ~HasResync(frame.events)
        BY <1>9, <1>10 DEF Following, Truth, over
    <2>2. PICK v : v = client'.view[e]
        OBVIOUS
    <2>3. Told(e, applied(e), f)
        BY <2>1 DEF Tells, applied
    <2> QED
        BY <1>2, <1>3, <1>10, <2>2, <2>3
<1> QED
    BY <1>3, <1>7, <1>8, <1>11, <1>12 DEF Following

\* The subscriber is following at the start.
LEMMA FollowingInit ==
    ASSUME FInit
    PROVE  Following
<1>1. Len(log) = 0 /\ client.cursor = 0 /\ client.list = TRUE
    BY DEF FInit
<1>2. FirstEpoch /\ DeletesTell
    BY <1>1 DEF FInit, FirstEpoch, DeletesTell
<1>3. NoneMovedIn
    <2>1. Place = 0
        BY <1>1 DEF Place
    <2> QED
        BY <1>1, <2>1 DEF NoneMovedIn
<1>4. Before = 0 /\ \A e \in Entities : Seen(e) = 0
    <2>1. written = 0 /\ \A e \in Entities : rows[e].groups = {}
        BY DEF FInit, Absent
    <2> QED
        BY <1>1, <2>1 DEF Before, Seen, Intersects
<1>5. RowsTell
    BY <1>1, <1>4 DEF RowsTell, VersionTells
<1>6. ~ReadHere /\ ~FrameHere
    BY DEF FInit, ReadHere, FrameHere, Idle, NoFrame
<1>7. Showing
    <2>1. \A e \in Entities : client.view[e] = 0
        BY DEF FInit, NoData
    <2> QED
        BY <1>1, <1>4, <1>6, <2>1 DEF Showing, Shown, VersionTells, OutlivesPairs
<1>8. Truth
    BY <1>1, <1>6 DEF Truth
<1> QED
    BY <1>2, <1>3, <1>5, <1>7, <1>8 DEF Following

\* A subscriber that has read the whole log shows exactly the rows it may see, each in its
\* current version: for any rows, groups, models and number of events, whatever was
\* committed, regrouped, pruned, announced, restarted or lost between the reads of the
\* batches it was given, while none of the windows is open (sync-feed.ts:84-125).
THEOREM CaughtUpIsTrue ==
    ASSUME OpenFeedWindows = {}
    PROVE  FSpec => []CaughtUpShowsTheTruth
<1>1. FInit => Following
    BY FollowingInit
<1>2. FeedShape /\ Following /\ [FNext]_fvars => Following'
    BY ApplicationFollows, BootFollows, QuietFollows, ReadingFollows, EmitFollows, ReceiveFollows,
       ListAllFollows DEF FNext, Feed, Subscriber
<1>3. FeedShape /\ Following => CaughtUpShowsTheTruth
    <2> SUFFICES ASSUME FeedShape, Following, ~client.list, client.epoch = epoch, client.cursor = Len(log),
                        NEW e \in Entities, EntityModel[e] \in Known
                 PROVE  client.view[e] = Seen(e)
        BY DEF CaughtUpShowsTheTruth
    <2>1. Told(e, client.view[e], client.cursor)
        BY DEF Following, Truth, OnTimeline
    <2>2. Len(log) \in Nat
        BY DEF FeedShape, TablesOK
    <2> QED
        BY <2>1, <2>2 DEF Told, News
<1> QED
    BY <1>1, <1>2, <1>3, FeedShapes, PTL DEF FSpec
=============================================================================
