--------------------------- MODULE WritePathProofs ---------------------------
(* The backend's tables and its log agree, whatever requests arrive: every     *)
(* todo has its project, and the log is the well-formed stream the fold table  *)
(* of protocol/squash.ts assumes.  And what a device that writes               *)
(* optimistically may show, for any number of projects, todos, writes and      *)
(* recoveries: a row is behind its coverage mark only after a race it has      *)
(* lost, and the rows left behind by settled mutations are the server's.       *)
EXTENDS WritePath, PositionProofs

-----------------------------------------------------------------------------
(* What a log says after more has been written to it *)

LEMMA LogsConcatenate ==
    ASSUME NEW s \in Seq(Event), NEW q \in Seq(Event)
    PROVE  s \o q \in Seq(Event) /\ Len(s \o q) = Len(s) + Len(q)
OBVIOUS

\* What is written later does not change what an earlier prefix says.
LEMMA AlivePrefix ==
    ASSUME NEW s \in Seq(Event), NEW q \in Seq(Event), NEW n \in 0 .. Len(s), NEW model, NEW id
    PROVE  Alive(s \o q, n, model, id) <=> Alive(s, n, model, id)
<1>1. \A i \in 1 .. n : (s \o q)[i] = s[i]
  OBVIOUS
<1> QED BY <1>1 DEF Alive

\* An event decides about its own entity and about no other.
LEMMA AliveAppend ==
    ASSUME NEW s \in Seq(Event), NEW e \in Event, NEW model, NEW id
    PROVE  Alive(Append(s, e), Len(s) + 1, model, id)
             <=> IF Names(e, model, id) THEN e.tag # "Delete" ELSE Alive(s, Len(s), model, id)
<1> DEFINE log == Append(s, e)
<1>1. /\ Len(s) \in Nat
      /\ \A i \in 1 .. Len(s) : log[i] = s[i]
      /\ log[Len(s) + 1] = e
  OBVIOUS
<1> HIDE DEF log
<1>2. CASE Names(e, model, id)
  BY <1>1, <1>2 DEF Alive
<1>3. CASE ~Names(e, model, id)
  BY <1>1, <1>3 DEF Alive
<1> QED BY <1>2, <1>3 DEF log

\* A run of Deletes leaves alive what was alive and is not named in it.
LEMMA AliveDeletes ==
    ASSUME NEW s \in Seq(Event), NEW q \in Seq(Event),
           \A j \in DOMAIN q : q[j].tag = "Delete",
           NEW k \in 0 .. Len(q), NEW model, NEW id
    PROVE  Alive(s \o q, Len(s) + k, model, id)
             <=> Alive(s, Len(s), model, id) /\ \A j \in 1 .. k : ~Names(q[j], model, id)
<1> DEFINE log == s \o q
<1>1. /\ Len(s) \in Nat /\ Len(q) \in Nat
      /\ \A i \in 1 .. Len(s) : log[i] = s[i]
      /\ \A j \in 1 .. k : log[Len(s) + j] = q[j] /\ q[j].tag = "Delete"
  OBVIOUS
<1> HIDE DEF log
<1>2. ASSUME Alive(log, Len(s) + k, model, id)
      PROVE  Alive(s, Len(s), model, id) /\ \A j \in 1 .. k : ~Names(q[j], model, id)
  <2>1. PICK i \in 1 .. Len(s) + k :
            /\ Names(log[i], model, id) /\ log[i].tag # "Delete"
            /\ \A j \in i + 1 .. Len(s) + k : ~Names(log[j], model, id)
    BY <1>2 DEF Alive
  <2>2. i \in 1 .. Len(s)
    <3>1. SUFFICES ASSUME i > Len(s) PROVE FALSE
      BY <1>1
    <3>2. i - Len(s) \in 1 .. k /\ i = Len(s) + (i - Len(s))
      BY <1>1, <3>1
    <3> QED BY <1>1, <2>1, <3>2
  <2>3. \A j \in 1 .. k : Len(s) + j \in i + 1 .. Len(s) + k
    BY <1>1, <2>2
  <2> QED BY <1>1, <2>1, <2>2, <2>3 DEF Alive
<1>3. ASSUME Alive(s, Len(s), model, id), \A j \in 1 .. k : ~Names(q[j], model, id)
      PROVE  Alive(log, Len(s) + k, model, id)
  <2>1. PICK i \in 1 .. Len(s) :
            /\ Names(s[i], model, id) /\ s[i].tag # "Delete"
            /\ \A j \in i + 1 .. Len(s) : ~Names(s[j], model, id)
    BY <1>3 DEF Alive
  <2>2. \A j \in i + 1 .. Len(s) + k : ~Names(log[j], model, id)
    <3>1. SUFFICES ASSUME NEW j \in i + 1 .. Len(s) + k PROVE ~Names(log[j], model, id)
      OBVIOUS
    <3>2. CASE j <= Len(s)
      BY <1>1, <2>1, <3>2
    <3>3. CASE j > Len(s)
      <4>1. j - Len(s) \in 1 .. k /\ j = Len(s) + (j - Len(s))
        BY <1>1, <3>3
      <4> QED BY <1>1, <1>3, <4>1
    <3> QED BY <1>1, <2>1, <3>2, <3>3
  <2>3. i \in 1 .. Len(s) + k
    BY <1>1, <2>1
  <2> QED BY <1>1, <2>1, <2>2, <2>3 DEF Alive
<1> QED BY <1>2, <1>3 DEF log

-----------------------------------------------------------------------------
(* The handlers *)

WellFormed(log) ==
    \A i \in DOMAIN log : (log[i].tag = "Insert") <=> ~Alive(log, i - 1, log[i].model, log[i].id)

\* An Insert of what is not there, or a later event of what is, keeps a log well formed.
LEMMA WellFormedAppend ==
    ASSUME NEW s \in Seq(Event), NEW e \in Event, WellFormed(s),
           (e.tag = "Insert") <=> ~Alive(s, Len(s), e.model, e.id)
    PROVE  WellFormed(Append(s, e))
<1> DEFINE log == Append(s, e)
<1>1. /\ Len(s) \in Nat /\ DOMAIN s = 1 .. Len(s) /\ DOMAIN log = 1 .. Len(s) + 1
      /\ \A i \in 1 .. Len(s) : log[i] = s[i]
      /\ log[Len(s) + 1] = e
  OBVIOUS
<1> HIDE DEF log
<1>2. ASSUME NEW n \in 0 .. Len(s), NEW model, NEW id
      PROVE  Alive(log, n, model, id) <=> Alive(s, n, model, id)
  <2>1. \A i \in 1 .. n : log[i] = s[i]
    BY <1>1
  <2> QED BY <2>1 DEF Alive
<1>3. ASSUME NEW i \in 1 .. Len(s)
      PROVE  (log[i].tag = "Insert") <=> ~Alive(log, i - 1, log[i].model, log[i].id)
  <2>1. log[i] = s[i] /\ i - 1 \in 0 .. Len(s) /\ i \in DOMAIN s
    BY <1>1
  <2>2. Alive(log, i - 1, s[i].model, s[i].id) <=> Alive(s, i - 1, s[i].model, s[i].id)
    BY <1>2, <2>1
  <2> QED BY <2>1, <2>2 DEF WellFormed
<1>4. (e.tag = "Insert") <=> ~Alive(log, Len(s), e.model, e.id)
  <2>1. Len(s) \in 0 .. Len(s)
    BY <1>1
  <2> QED BY <1>2, <2>1
<1>5. (Len(s) + 1) - 1 = Len(s)
  BY <1>1
<1>6. ASSUME NEW i \in DOMAIN log
      PROVE  (log[i].tag = "Insert") <=> ~Alive(log, i - 1, log[i].model, log[i].id)
  <2>1. CASE i \in 1 .. Len(s)
    BY <1>3, <2>1
  <2>2. CASE i = Len(s) + 1
    BY <1>1, <1>4, <1>5, <2>2
  <2> QED BY <1>1, <2>1, <2>2
<1> QED BY <1>6 DEF WellFormed, log

\* So does a run of Deletes of things that are there, each named once.
LEMMA WellFormedDeletes ==
    ASSUME NEW s \in Seq(Event), NEW q \in Seq(Event), WellFormed(s),
           \A j \in DOMAIN q : q[j].tag = "Delete" /\ Alive(s, Len(s), q[j].model, q[j].id),
           \A i, j \in DOMAIN q : q[i].model = q[j].model /\ q[i].id = q[j].id => i = j
    PROVE  WellFormed(s \o q)
<1> DEFINE log == s \o q
<1>1. SUFFICES ASSUME NEW i \in DOMAIN log
               PROVE  (log[i].tag = "Insert") <=> ~Alive(log, i - 1, log[i].model, log[i].id)
  BY DEF WellFormed
<1>2. CASE i \in DOMAIN s
  <2>1. log[i] = s[i] /\ i - 1 \in 0 .. Len(s)
    BY <1>2
  <2>2. Alive(log, i - 1, s[i].model, s[i].id) <=> Alive(s, i - 1, s[i].model, s[i].id)
    BY <2>1, AlivePrefix
  <2> QED BY <1>2, <2>1, <2>2 DEF WellFormed
<1>3. CASE i > Len(s)
  <2> DEFINE k == i - Len(s)
  <2>1. /\ k \in 1 .. Len(q) /\ k - 1 \in 0 .. Len(q)
        /\ log[i] = q[k] /\ i - 1 = Len(s) + (k - 1)
    BY <1>3
  <2> HIDE DEF k
  <2>2. q[k].tag = "Delete" /\ Alive(s, Len(s), q[k].model, q[k].id)
    BY <2>1
  <2>3. \A j \in 1 .. k - 1 : ~Names(q[j], q[k].model, q[k].id)
    BY <2>1 DEF Names
  <2>4. Alive(log, Len(s) + (k - 1), q[k].model, q[k].id)
    BY <2>1, <2>2, <2>3, AliveDeletes
  <2> QED BY <2>1, <2>2, <2>4
<1> QED BY <1>2, <1>3

ServerInv == ServerTypeOK /\ TodosHaveTheirProject /\ LogTellsTables

LEMMA EventsTyped ==
    ASSUME NEW tag \in Tags
    PROVE  /\ \A p \in ProjectIds : ProjectEvent(p, tag) \in Event
           /\ \A t \in TodoIds, row \in Todo \cup {NoRow} : TodoEvent(t, tag, row) \in Event
BY DEF Event, ProjectEvent, TodoEvent

LEMMA UpsertProjectKeeps ==
    ASSUME ServerInv, NEW p \in ProjectIds, UpsertProject(p)
    PROVE  ServerInv'
<1> DEFINE tag == IF p \in projects THEN "Update" ELSE "Insert"
           e == ProjectEvent(p, tag)
<1>1. /\ e \in Event /\ e.model = "Project" /\ e.id = p /\ e.tag = tag
      /\ events \in Seq(Event) /\ WellFormed(events)
      /\ events' = Append(events, e) /\ Len(events') = Len(events) + 1
      /\ tag \in {"Insert", "Update"}
  BY EventsTyped DEF ServerInv, ServerTypeOK, LogTellsTables, WellFormed, UpsertProject,
     ProjectEvent, Tags
<1>2. (tag = "Insert") <=> ~Alive(events, Len(events), "Project", p)
  BY DEF ServerInv, LogTellsTables
<1> HIDE DEF e, tag
<1>3. ServerTypeOK'
  BY <1>1 DEF ServerInv, ServerTypeOK, UpsertProject
<1>4. TodosHaveTheirProject'
  BY DEF ServerInv, TodosHaveTheirProject, UpsertProject
<1>5. WellFormed(events')
  BY <1>1, <1>2, WellFormedAppend
<1>6. \A x \in ProjectIds : x \in projects' <=> Alive(events', Len(events'), "Project", x)
  BY <1>1, AliveAppend DEF ServerInv, LogTellsTables, UpsertProject, Names
<1>7. \A t \in TodoIds : todos'[t] # NoRow <=> Alive(events', Len(events'), "Todo", t)
  BY <1>1, AliveAppend DEF ServerInv, LogTellsTables, UpsertProject, Names
<1> QED BY <1>3, <1>4, <1>5, <1>6, <1>7 DEF ServerInv, LogTellsTables, WellFormed

LEMMA UpsertTodoKeeps ==
    ASSUME ServerInv, NEW t \in TodoIds, NEW row \in Todo, UpsertTodo(t, row)
    PROVE  ServerInv'
<1> DEFINE tag == IF todos[t] # NoRow THEN "Update" ELSE "Insert"
           e == TodoEvent(t, tag, row)
<1>1. /\ e \in Event /\ e.model = "Todo" /\ e.id = t /\ e.tag = tag
      /\ events \in Seq(Event) /\ WellFormed(events)
      /\ events' = Append(events, e) /\ Len(events') = Len(events) + 1
      /\ tag \in {"Insert", "Update"}
  BY EventsTyped DEF ServerInv, ServerTypeOK, LogTellsTables, WellFormed, UpsertTodo,
     TodoEvent, Tags
<1>2. (tag = "Insert") <=> ~Alive(events, Len(events), "Todo", t)
  BY DEF ServerInv, LogTellsTables
<1>3. row # NoRow /\ todos' = [todos EXCEPT ![t] = row] /\ todos \in [TodoIds -> Todo \cup {NoRow}]
  BY ServerConstants DEF ServerInv, ServerTypeOK, UpsertTodo
<1> HIDE DEF e, tag
<1>4. ServerTypeOK'
  BY <1>1, <1>3 DEF ServerInv, ServerTypeOK, UpsertTodo
<1>5. TodosHaveTheirProject'
  BY <1>3 DEF ServerInv, TodosHaveTheirProject, UpsertTodo
<1>6. WellFormed(events')
  BY <1>1, <1>2, WellFormedAppend
<1>7. \A x \in ProjectIds : x \in projects' <=> Alive(events', Len(events'), "Project", x)
  BY <1>1, AliveAppend DEF ServerInv, LogTellsTables, UpsertTodo, Names
<1>8. \A x \in TodoIds : todos'[x] # NoRow <=> Alive(events', Len(events'), "Todo", x)
  BY <1>1, <1>3, AliveAppend DEF ServerInv, LogTellsTables, Names
<1> QED BY <1>4, <1>5, <1>6, <1>7, <1>8 DEF ServerInv, LogTellsTables, WellFormed

LEMMA RemoveTodoKeeps ==
    ASSUME ServerInv, NEW t \in TodoIds, RemoveTodo(t)
    PROVE  ServerInv'
<1> DEFINE e == TodoEvent(t, "Delete", NoRow)
<1>1. /\ e \in Event /\ e.model = "Todo" /\ e.id = t /\ e.tag = "Delete"
      /\ events \in Seq(Event) /\ WellFormed(events)
      /\ events' = Append(events, e) /\ Len(events') = Len(events) + 1
  BY EventsTyped DEF ServerInv, ServerTypeOK, LogTellsTables, WellFormed, RemoveTodo,
     TodoEvent, Tags
<1>2. Alive(events, Len(events), "Todo", t)
  BY DEF ServerInv, LogTellsTables, RemoveTodo
<1>3. todos' = [todos EXCEPT ![t] = NoRow] /\ todos \in [TodoIds -> Todo \cup {NoRow}]
  BY DEF ServerInv, ServerTypeOK, RemoveTodo
<1> HIDE DEF e
<1>4. ServerTypeOK'
  BY <1>1, <1>3 DEF ServerInv, ServerTypeOK, RemoveTodo
<1>5. TodosHaveTheirProject'
  BY <1>3 DEF ServerInv, TodosHaveTheirProject, RemoveTodo
<1>6. WellFormed(events')
  BY <1>1, <1>2, WellFormedAppend
<1>7. \A x \in ProjectIds : x \in projects' <=> Alive(events', Len(events'), "Project", x)
  BY <1>1, AliveAppend DEF ServerInv, LogTellsTables, RemoveTodo, Names
<1>8. \A x \in TodoIds : todos'[x] # NoRow <=> Alive(events', Len(events'), "Todo", x)
  BY <1>1, <1>3, AliveAppend DEF ServerInv, LogTellsTables, Names
<1> QED BY <1>4, <1>5, <1>6, <1>7, <1>8 DEF ServerInv, LogTellsTables, WellFormed

LEMMA RemoveProjectKeeps ==
    ASSUME ServerInv, NEW p \in ProjectIds, RemoveProject(p)
    PROVE  ServerInv'
<1> DEFINE gone == ListByProject(p)
           left == [t \in TodoIds |-> IF t \in gone THEN NoRow ELSE todos[t]]
<1>1. PICK order \in Orders(gone) : events' = events \o Cascade(p, order)
  BY DEF RemoveProject
<1> DEFINE n == Len(order)
           q == Cascade(p, order)
<1>2. IsFiniteSet(gone) /\ gone \subseteq TodoIds
  BY ServerConstants, FS_Subset DEF ListByProject
<1>3. /\ n \in Nat /\ DOMAIN order = 1 .. n /\ \A i \in 1 .. n : order[i] \in gone
      /\ \A t \in gone : \E i \in 1 .. n : order[i] = t
      /\ \A i, j \in 1 .. n : order[i] = order[j] => i = j
  <2>1. Cardinality(gone) \in Nat /\ order \in [1 .. Cardinality(gone) -> gone]
    BY <1>2, FS_CardinalityType DEF Orders
  <2>2. order \in Seq(gone) /\ DOMAIN order = 1 .. n
    BY <2>1
  <2> QED BY <2>1, <2>2 DEF Orders
<1> HIDE DEF n
<1>4. /\ q \in Seq(Event) /\ Len(q) = n + 1
      /\ \A j \in 1 .. n : q[j] = TodoEvent(order[j], "Delete", NoRow)
      /\ q[n + 1] = ProjectEvent(p, "Delete")
  <2> DEFINE f == [i \in DOMAIN order |-> TodoEvent(order[i], "Delete", NoRow)]
             last == ProjectEvent(p, "Delete")
  <2>1. f \in Seq(Event) /\ Len(f) = n /\ last \in Event
    <3>1. \A i \in 1 .. n : TodoEvent(order[i], "Delete", NoRow) \in Event
      BY <1>2, <1>3, EventsTyped DEF Tags
    <3>2. last \in Event
      BY EventsTyped DEF Tags
    <3> QED BY <1>3, <3>1, <3>2
  <2>2. \A j \in 1 .. n : f[j] = TodoEvent(order[j], "Delete", NoRow)
    BY <1>3
  <2>3. q = Append(f, last)
    BY DEF Cascade
  <2> HIDE DEF f, last, q
  <2>4. q \in Seq(Event) /\ Len(q) = n + 1 /\ q[n + 1] = last /\ \A j \in 1 .. n : q[j] = f[j]
    BY <1>3, <2>1, <2>3
  <2> QED BY <2>2, <2>4 DEF last
<1>6. /\ events \in Seq(Event) /\ WellFormed(events) /\ events' = events \o q
      /\ projects' = projects \ {p} /\ p \in projects /\ todos' = left
      /\ todos \in [TodoIds -> Todo \cup {NoRow}]
  BY <1>1 DEF ServerInv, ServerTypeOK, LogTellsTables, WellFormed, RemoveProject
<1> HIDE DEF q
<1>5. /\ \A j \in 1 .. n : q[j].model = "Todo" /\ q[j].id = order[j] /\ q[j].tag = "Delete"
      /\ q[n + 1].model = "Project" /\ q[n + 1].id = p /\ q[n + 1].tag = "Delete"
  <2>1. ASSUME NEW j \in 1 .. n
        PROVE  q[j].model = "Todo" /\ q[j].id = order[j] /\ q[j].tag = "Delete"
    <3>1. q[j] = TodoEvent(order[j], "Delete", NoRow)
      BY <1>4
    <3> QED BY <3>1 DEF TodoEvent
  <2>2. q[n + 1].model = "Project" /\ q[n + 1].id = p /\ q[n + 1].tag = "Delete"
    <3>1. q[n + 1] = ProjectEvent(p, "Delete")
      BY <1>4
    <3> QED BY <3>1 DEF ProjectEvent
  <2> QED BY <2>1, <2>2
<1>7. events' \in Seq(Event) /\ Len(events') = Len(events) + Len(q) /\ DOMAIN q = 1 .. n + 1
  <2>1. events' \in Seq(Event) /\ Len(events') = Len(events) + Len(q)
    BY <1>4, <1>6, LogsConcatenate
  <2>2. DOMAIN q = 1 .. Len(q)
    BY <1>4
  <2> QED BY <1>4, <2>1, <2>2
<1>8. \A j \in DOMAIN q : q[j].tag = "Delete" /\ Alive(events, Len(events), q[j].model, q[j].id)
  <2>1. Alive(events, Len(events), "Project", p)
    BY <1>6 DEF ServerInv, LogTellsTables
  <2>2. \A t \in gone : Alive(events, Len(events), "Todo", t)
    BY DEF ServerInv, LogTellsTables, ListByProject
  <2> QED BY <1>3, <1>5, <1>7, <2>1, <2>2
<1>9. \A i, j \in DOMAIN q : q[i].model = q[j].model /\ q[i].id = q[j].id => i = j
  BY <1>3, <1>5, <1>7
<1>10. WellFormed(events')
  BY <1>4, <1>6, <1>8, <1>9, WellFormedDeletes
<1>11. ASSUME NEW model, NEW id
       PROVE  Alive(events', Len(events'), model, id)
                <=> Alive(events, Len(events), model, id) /\ \A j \in 1 .. n + 1 : ~Names(q[j], model, id)
  <2>1. n + 1 \in 0 .. Len(q) /\ Len(events') = Len(events) + (n + 1)
    BY <1>3, <1>4, <1>7
  <2>2. \A j \in DOMAIN q : q[j].tag = "Delete"
    BY <1>8
  <2> QED BY ZenonT(60), <1>4, <1>6, <2>1, <2>2, AliveDeletes
<1>12. \A x \in ProjectIds : x \in projects' <=> Alive(events', Len(events'), "Project", x)
  <2>1. SUFFICES ASSUME NEW x \in ProjectIds
                 PROVE  x \in projects' <=> Alive(events', Len(events'), "Project", x)
    OBVIOUS
  <2>2. (\A j \in 1 .. n + 1 : ~Names(q[j], "Project", x)) <=> x # p
    BY <1>3, <1>5 DEF Names
  <2> QED BY <1>6, <1>11, <2>2 DEF ServerInv, LogTellsTables
<1>13. \A t \in TodoIds : todos'[t] # NoRow <=> Alive(events', Len(events'), "Todo", t)
  <2>1. SUFFICES ASSUME NEW t \in TodoIds
                 PROVE  todos'[t] # NoRow <=> Alive(events', Len(events'), "Todo", t)
    OBVIOUS
  <2>2. (\A j \in 1 .. n + 1 : ~Names(q[j], "Todo", t)) <=> t \notin gone
    BY <1>3, <1>5 DEF Names
  <2>3. todos'[t] # NoRow <=> todos[t] # NoRow /\ t \notin gone
    BY <1>6
  <2> QED BY <1>11, <2>2, <2>3 DEF ServerInv, LogTellsTables
<1>14. ServerTypeOK'
  BY <1>6, <1>7 DEF ServerInv, ServerTypeOK
<1>15. TodosHaveTheirProject'
  BY <1>6 DEF ServerInv, TodosHaveTheirProject, ListByProject
<1> QED BY <1>10, <1>12, <1>13, <1>14, <1>15 DEF ServerInv, LogTellsTables, WellFormed

LEMMA ServerInvariant == ServerSpec => []ServerInv
<1>1. ServerInit => ServerInv
  BY ServerConstants DEF ServerInit, ServerInv, ServerTypeOK, TodosHaveTheirProject, LogTellsTables, Alive
<1>2. ServerInv /\ [ServerNext]_server => ServerInv'
  <2>1. SUFFICES ASSUME ServerInv, [ServerNext]_server PROVE ServerInv'
    OBVIOUS
  <2>2. CASE UNCHANGED server
    BY <2>1, <2>2 DEF server, ServerInv, ServerTypeOK, TodosHaveTheirProject, LogTellsTables
  <2>3. ASSUME NEW p \in ProjectIds, UpsertProject(p) \/ RemoveProject(p) PROVE ServerInv'
    BY <2>1, <2>3, UpsertProjectKeeps, RemoveProjectKeeps
  <2>4. ASSUME NEW t \in TodoIds, RemoveTodo(t) \/ \E row \in Todo : UpsertTodo(t, row) PROVE ServerInv'
    BY <2>1, <2>4, UpsertTodoKeeps, RemoveTodoKeeps
  <2> QED BY <2>1, <2>2, <2>3, <2>4 DEF ServerNext
<1> QED BY <1>1, <1>2, PTL DEF ServerSpec

-----------------------------------------------------------------------------
(* The theorems *)

\* No request, in any order and from any number of devices, leaves a todo whose
\* project is gone: the cascade of a removed project, and the check an upsert makes.
THEOREM TodosKeepTheirProject == ServerSpec => []TodosHaveTheirProject
<1>1. ServerInv => TodosHaveTheirProject
  BY DEF ServerInv
<1> QED BY <1>1, ServerInvariant, PTL

\* The handlers write the stream squash folds: tags that fit what came before, and
\* last tags that say what the tables hold.
THEOREM LogIsWellFormed == ServerSpec => []LogTellsTables
<1>1. ServerInv => LogTellsTables
  BY DEF ServerInv
<1> QED BY <1>1, ServerInvariant, PTL

-----------------------------------------------------------------------------
(* The device over the backend *)

\* Rows do not move between projects.
InPlace(t, row) == row # NoRow => row \in Todo /\ row.project = ProjectOf[t]

\* What the log is about: a todo's events carry its rows, a Delete none.
LogRows ==
    /\ ServerInv
    /\ \A n \in DOMAIN events : events[n].model = "Todo" =>
        /\ InPlace(events[n].id, events[n].row)
        /\ events[n].tag = "Delete" => events[n].row = NoRow
    /\ \A t \in TodoIds : todos[t] = HeldAt(events, t, Len(events))

\* A confirmed mutation is an event of the log, and its row the one it left.
MutationsAsked ==
    /\ writes \in Nat
    /\ mutations \in Seq(Mutation)
    /\ \A i \in DOMAIN mutations :
        LET m == mutations[i]
        IN  /\ InPlace(m.todo, m.row)
            /\ m.kind = "Delete" <=> m.row = NoRow
            /\ m.state = "confirmed" =>
                /\ m.at \in DOMAIN events
                /\ Names(events[m.at], "Todo", m.todo)
                /\ events[m.at].row = m.row

\* The signals since the last recovery: in the order of the log, with the rows of some
\* time since, and every event ingested since.
JournalTells ==
    /\ journal \in Seq(Signal)
    /\ applied \in 0 .. Len(journal) /\ ingested \in 0 .. Len(events) /\ generation \in Nat
    /\ \A k \in DOMAIN journal :
        LET sig == journal[k]
        IN  /\ sig.at <= ingested
            /\ \A l \in DOMAIN journal : k < l => sig.at < journal[l].at
            /\ sig.kind = "Snapshot" => k = 1
            /\ sig.kind = "Event" =>
                /\ sig.at >= 1 /\ Names(events[sig.at], "Todo", sig.todo)
                /\ \E n \in sig.at .. Len(events) : sig.row = HeldAt(events, sig.todo, n)
    /\ \A i \in 1 .. ingested : events[i].model = "Todo" =>
        \E k \in DOMAIN journal : IF journal[k].kind = "Event" THEN journal[k].at = i
                                                              ELSE i <= journal[k].at

\* The rows written, and the races they have lost.
RowsInPlace ==
    /\ raced \in [TodoIds -> SUBSET Races]
    /\ synced \in [TodoIds -> Todo \cup {NoRow}]
    /\ \A t \in TodoIds : InPlace(t, synced[t])

\* A mark of this generation is of the log, and covers what the drain has applied.
MarksCoverApplied ==
    /\ coverage \in [gen : 0 .. generation, marks : [ProjectIds -> Nat \cup {None}]]
    /\ coverage.gen = generation => \A p \in ProjectIds : coverage.marks[p] # None =>
        /\ coverage.marks[p] <= Len(events)
        /\ \A k \in 1 .. applied : journal[k].at <= coverage.marks[p]

\* A slice holds what the server held of its project at its position; one of this
\* generation is of a project no mark covers, and younger than the recovery.
SliceTells ==
    slice # NoSlice =>
        /\ slice.project \in ProjectIds /\ slice.at \in 0 .. Len(events)
        /\ slice.gen \in 0 .. generation
        /\ slice.rows = [t \in TodoIds |->
                IF ProjectOf[t] = slice.project THEN HeldAt(events, t, slice.at) ELSE NoRow]
        /\ slice.gen = generation =>
            /\ coverage.gen = generation => coverage.marks[slice.project] = None
            /\ \A k \in DOMAIN journal : journal[k].kind = "Snapshot" => journal[k].at <= slice.at

WBase ==
    /\ LogRows /\ MutationsAsked /\ JournalTells /\ RowsInPlace /\ MarksCoverApplied /\ SliceTells

\* The rows of a covered project that have lost no race are what the server held at its
\* mark or later.
RowsHold(rows, races, p, mark) ==
    \A t \in TodoIds : ProjectOf[t] = p /\ races[t] = {} =>
        \E n \in mark .. Len(events) : rows[t] = HeldAt(events, t, n)

\* Every mark holds.
MarksHold ==
    coverage.gen = generation => \A p \in ProjectIds : coverage.marks[p] # None =>
        RowsHold(synced, raced, p, coverage.marks[p])

-----------------------------------------------------------------------------
(* What a log says of a todo *)

\* The newest event of a todo tells its row; without one there is none.
LEMMA HeldLatest ==
    ASSUME NEW log, NEW t, NEW n \in Nat
    PROVE  \/ /\ \A i \in 1 .. n : ~Names(log[i], "Todo", t)
              /\ HeldAt(log, t, n) = NoRow
           \/ \E i \in 1 .. n :
                /\ Names(log[i], "Todo", t)
                /\ \A j \in i + 1 .. n : ~Names(log[j], "Todo", t)
                /\ HeldAt(log, t, n) = log[i].row
<1> DEFINE about == {i \in 1 .. n : Names(log[i], "Todo", t)}
<1>1. HeldAt(log, t, n) = IF about = {} THEN NoRow ELSE log[Max(about)].row
    BY DEF HeldAt
<1>2. about \in SUBSET Nat /\ IsFiniteSet(about)
    <2>1. IsFiniteSet(1 .. n) /\ about \in SUBSET (1 .. n)
        BY FS_Interval
    <2> QED
        BY <2>1, FS_Subset
<1>3. CASE about = {}
    BY <1>1, <1>3
<1>4. CASE about # {}
    <2>1. Max(about) \in about /\ \A j \in about : Max(about) >= j
        BY <1>2, <1>4, MaxOfPositions
    <2>2. PICK i \in 1 .. n : i = Max(about)
        BY <2>1
    <2>3. Names(log[i], "Todo", t) /\ \A j \in i + 1 .. n : ~Names(log[j], "Todo", t)
        BY <2>1, <2>2
    <2>4. HeldAt(log, t, n) = log[i].row
        BY <1>1, <1>4, <2>2
    <2> QED
        BY <2>3, <2>4
<1> QED
    BY <1>3, <1>4

LEMMA HeldIs ==
    ASSUME NEW log, NEW t, NEW n \in Nat, NEW i \in 1 .. n, Names(log[i], "Todo", t),
           \A j \in i + 1 .. n : ~Names(log[j], "Todo", t)
    PROVE  HeldAt(log, t, n) = log[i].row
<1>1. PICK k \in 1 .. n : /\ Names(log[k], "Todo", t)
                          /\ \A j \in k + 1 .. n : ~Names(log[j], "Todo", t)
                          /\ HeldAt(log, t, n) = log[k].row
    BY HeldLatest
<1>2. ~(i < k) /\ ~(k < i)
    BY <1>1
<1>3. i = k
    BY <1>2
<1> QED
    BY <1>1, <1>3

\* Events of others change nothing.
LEMMA HeldQuiet ==
    ASSUME NEW log, NEW t, NEW m \in Nat, NEW n \in Nat, m <= n,
           \A i \in m + 1 .. n : ~Names(log[i], "Todo", t)
    PROVE  HeldAt(log, t, n) = HeldAt(log, t, m)
<1>1. {i \in 1 .. n : Names(log[i], "Todo", t)} = {i \in 1 .. m : Names(log[i], "Todo", t)}
    <2>1. \A i \in 1 .. n : Names(log[i], "Todo", t) => i \in 1 .. m
        OBVIOUS
    <2> QED
        BY <2>1
<1> QED
    BY <1>1 DEF HeldAt

\* A log only grows.
Grown(log, more) == Len(log) <= Len(more) /\ \A i \in 1 .. Len(log) : more[i] = log[i]

LEMMA HeldGrown ==
    ASSUME NEW log, NEW more, Len(log) \in Nat, Grown(log, more), NEW t, NEW n \in 0 .. Len(log)
    PROVE  HeldAt(more, t, n) = HeldAt(log, t, n)
<1>1. \A i \in 1 .. n : more[i] = log[i]
    BY DEF Grown
<1>2. {i \in 1 .. n : Names(more[i], "Todo", t)} = {i \in 1 .. n : Names(log[i], "Todo", t)}
    BY <1>1
<1> DEFINE about == {i \in 1 .. n : Names(log[i], "Todo", t)}
<1>3. about # {} => Max(about) \in 1 .. n
    <2>1. IsFiniteSet(1 .. n) /\ about \in SUBSET (1 .. n)
        BY FS_Interval
    <2>2. IsFiniteSet(about)
        BY <2>1, FS_Subset
    <2>3. about \in SUBSET Nat
        OBVIOUS
    <2>4. about # {} => Max(about) \in about
        BY <2>2, <2>3, MaxOfPositions
    <2> QED
        BY <2>1, <2>4
<1>4. HeldAt(log, t, n) = IF about = {} THEN NoRow ELSE log[Max(about)].row
    BY DEF HeldAt
<1>5. HeldAt(more, t, n) = IF about = {} THEN NoRow ELSE more[Max(about)].row
    BY <1>2 DEF HeldAt
<1> HIDE DEF about
<1> QED
    BY <1>1, <1>3, <1>4, <1>5

\* A row that is held was brought by an event.
LEMMA HeldFrom ==
    ASSUME NEW log, NEW t, NEW n \in Nat, HeldAt(log, t, n) # NoRow
    PROVE  \E i \in 1 .. n : Names(log[i], "Todo", t) /\ log[i].row = HeldAt(log, t, n)
BY HeldLatest

-----------------------------------------------------------------------------
(* The server *)

\* What the log's new events say is what the tables now hold.
LEMMA LogRowsGrow ==
    ASSUME LogRows, ServerInv', Grown(events, events'),
           \A n \in Len(events) + 1 .. Len(events') : events'[n].model = "Todo" =>
                /\ InPlace(events'[n].id, events'[n].row)
                /\ events'[n].tag = "Delete" => events'[n].row = NoRow,
           \A t \in TodoIds :
                /\ \A n \in Len(events) + 1 .. Len(events') :
                        Names(events'[n], "Todo", t) => events'[n].row = todos'[t]
                /\ (\A n \in Len(events) + 1 .. Len(events') : ~Names(events'[n], "Todo", t)) =>
                        todos'[t] = todos[t]
    PROVE  LogRows'
<1> DEFINE old == Len(events)
           new == Len(events')
<1>1. old \in Nat /\ new \in Nat /\ old <= new /\ DOMAIN events = 1 .. old /\ DOMAIN events' = 1 .. new
    BY DEF LogRows, ServerInv, ServerTypeOK, Grown
<1>2. \A n \in 1 .. old : events'[n] = events[n]
    BY DEF Grown
<1>3. ASSUME NEW n \in DOMAIN events', events'[n].model = "Todo"
      PROVE  /\ InPlace(events'[n].id, events'[n].row)
             /\ events'[n].tag = "Delete" => events'[n].row = NoRow
    <2>1. CASE n \in 1 .. old
        BY <1>1, <1>2, <1>3, <2>1 DEF LogRows
    <2>2. CASE n \in old + 1 .. new
        BY <1>3, <2>2
    <2> QED
        BY <1>1, <2>1, <2>2
<1>4. ASSUME NEW t \in TodoIds
      PROVE  todos'[t] = HeldAt(events', t, new)
    <2>1. CASE \A n \in old + 1 .. new : ~Names(events'[n], "Todo", t)
        <3>1. HeldAt(events', t, new) = HeldAt(events', t, old)
            BY <1>1, <2>1, HeldQuiet
        <3>2. HeldAt(events', t, old) = HeldAt(events, t, old)
            BY <1>1, HeldGrown
        <3> QED
            BY <2>1, <3>1, <3>2 DEF LogRows
    <2>2. ASSUME NEW n \in old + 1 .. new, Names(events'[n], "Todo", t)
          PROVE  todos'[t] = HeldAt(events', t, new)
        <3>1. n \in 1 .. new
            BY <1>1
        <3>2. PICK i \in 1 .. new : /\ Names(events'[i], "Todo", t)
                                    /\ \A j \in i + 1 .. new : ~Names(events'[j], "Todo", t)
                                    /\ HeldAt(events', t, new) = events'[i].row
            BY <1>1, <2>2, <3>1, HeldLatest
        <3>3. i \in old + 1 .. new
            <4>1. ~(i < n)
                BY <1>1, <2>2, <3>2
            <4> QED
                BY <1>1, <4>1
        <3> QED
            BY <3>2, <3>3
    <2> QED
        BY <2>1, <2>2
<1> QED
    BY <1>3, <1>4 DEF LogRows

\* What a request may do to the log: an event of one todo is added, ...
TodoWritten(t, row) ==
    /\ todos' = [todos EXCEPT ![t] = row]
    /\ \E e \in Event : /\ Names(e, "Todo", t) /\ e.row = row
                        /\ e.tag = "Delete" => row = NoRow
                        /\ events' = Append(events, e)

LEMMA TodoWrittenTells ==
    ASSUME LogRows, ServerInv', NEW t \in TodoIds, NEW row, InPlace(t, row), TodoWritten(t, row)
    PROVE  /\ LogRows' /\ Grown(events, events')
           /\ Len(events') = Len(events) + 1
           /\ Names(events'[Len(events')], "Todo", t) /\ events'[Len(events')].row = row
<1>1. PICK e \in Event : /\ Names(e, "Todo", t) /\ e.row = row
                         /\ e.tag = "Delete" => row = NoRow
                         /\ events' = Append(events, e)
    BY DEF TodoWritten
<1>2. /\ events \in Seq(Event) /\ Len(events) \in Nat /\ Len(events') = Len(events) + 1
      /\ events'[Len(events')] = e
      /\ \A n \in 1 .. Len(events) : events'[n] = events[n]
    BY <1>1 DEF LogRows, ServerInv, ServerTypeOK
<1>3. Grown(events, events')
    BY <1>2 DEF Grown
<1>4. \A n \in Len(events) + 1 .. Len(events') : n = Len(events') /\ events'[n] = e
    BY <1>2
<1>5. \A u \in TodoIds : todos'[u] = IF u = t THEN row ELSE todos[u]
    BY DEF TodoWritten, LogRows, ServerInv, ServerTypeOK
<1>6. \A u : Names(e, "Todo", u) <=> u = t
    BY <1>1 DEF Names
<1>7. e.model = "Todo" => InPlace(e.id, e.row)
    BY <1>1 DEF Names
<1>8. Len(events') \in Len(events) + 1 .. Len(events')
    BY <1>2
<1>9. LogRows'
    BY <1>1, <1>3, <1>4, <1>5, <1>6, <1>7, <1>8, LogRowsGrow
<1> QED
    BY <1>1, <1>2, <1>3, <1>9

LEMMA UpsertTodoTells ==
    ASSUME LogRows, NEW t \in TodoIds, NEW row \in Todo, UpsertTodo(t, row)
    PROVE  ServerInv' /\ TodoWritten(t, row)
<1> DEFINE tag == IF todos[t] # NoRow THEN "Update" ELSE "Insert"
           e == TodoEvent(t, tag, row)
<1>1. ServerInv'
    BY UpsertTodoKeeps DEF LogRows
<1>2. e \in Event
    BY EventsTyped DEF Tags
<1>3. Names(e, "Todo", t) /\ e.row = row /\ e.tag # "Delete"
    BY DEF TodoEvent, Names
<1>4. todos' = [todos EXCEPT ![t] = row] /\ events' = Append(events, e)
    BY DEF UpsertTodo
<1> HIDE DEF e
<1> QED
    BY <1>1, <1>2, <1>3, <1>4 DEF TodoWritten

LEMMA RemoveTodoTells ==
    ASSUME LogRows, NEW t \in TodoIds, RemoveTodo(t)
    PROVE  ServerInv' /\ TodoWritten(t, NoRow)
<1> DEFINE e == TodoEvent(t, "Delete", NoRow)
<1>1. ServerInv'
    BY RemoveTodoKeeps DEF LogRows
<1>2. e \in Event
    BY EventsTyped DEF Tags
<1>3. Names(e, "Todo", t) /\ e.row = NoRow
    BY DEF TodoEvent, Names
<1>4. todos' = [todos EXCEPT ![t] = NoRow] /\ events' = Append(events, e)
    BY DEF RemoveTodo
<1> HIDE DEF e
<1> QED
    BY <1>1, <1>2, <1>3, <1>4 DEF TodoWritten

\* ... or an event of a project, ...
LEMMA UpsertProjectTells ==
    ASSUME LogRows, NEW p \in ProjectIds, UpsertProject(p)
    PROVE  LogRows' /\ Grown(events, events')
<1> DEFINE e == ProjectEvent(p, IF p \in projects THEN "Update" ELSE "Insert")
<1>1. ServerInv'
    BY UpsertProjectKeeps DEF LogRows
<1>2. e \in Event /\ e.model = "Project" /\ events' = Append(events, e) /\ todos' = todos
    BY EventsTyped DEF UpsertProject, ProjectEvent, Tags
<1> HIDE DEF e
<1>3. /\ Grown(events, events')
      /\ \A n \in Len(events) + 1 .. Len(events') : events'[n] = e
    BY <1>2 DEF Grown, LogRows, ServerInv, ServerTypeOK
<1>4. \A t : ~Names(e, "Todo", t)
    BY <1>2 DEF Names
<1> QED
    BY <1>1, <1>2, <1>3, <1>4, LogRowsGrow

\* ... or those of a project's todos, then its own.
LEMMA RemoveProjectTells ==
    ASSUME LogRows, NEW p \in ProjectIds, RemoveProject(p)
    PROVE  LogRows' /\ Grown(events, events')
<1> DEFINE gone == ListByProject(p)
<1>1. ServerInv'
    BY RemoveProjectKeeps DEF LogRows
<1>2. PICK order \in Orders(gone) : events' = events \o Cascade(p, order)
    BY DEF RemoveProject
<1> DEFINE q == Cascade(p, order)
           last == ProjectEvent(p, "Delete")
           deletes == [i \in DOMAIN order |-> TodoEvent(order[i], "Delete", NoRow)]
<1>3. \A t \in TodoIds : todos'[t] = IF t \in gone THEN NoRow ELSE todos[t]
    BY DEF RemoveProject
<1>4. order \in Seq(gone) /\ \A t \in gone : \E i \in DOMAIN order : order[i] = t
    <2>1. Cardinality(gone) \in Nat
        <3>1. IsFiniteSet(gone)
            BY ServerConstants, FS_Subset DEF ListByProject
        <3> QED
            BY <3>1, FS_CardinalityType
    <2> QED
        BY <2>1 DEF Orders
<1>5. gone \subseteq TodoIds
    BY DEF ListByProject
<1>6. last \in Event /\ last.model = "Project"
    BY EventsTyped DEF ProjectEvent, Tags
<1>7. /\ deletes \in Seq(Event) /\ Len(deletes) = Len(order)
      /\ \A i \in 1 .. Len(order) : deletes[i] = TodoEvent(order[i], "Delete", NoRow)
    <2>1. \A i \in DOMAIN order : TodoEvent(order[i], "Delete", NoRow) \in Event
        BY <1>4, <1>5, EventsTyped DEF Tags
    <2> QED
        BY <1>4, <2>1
<1>8. q = Append(deletes, last)
    BY DEF Cascade
<1> HIDE DEF deletes, last, q, gone
<1> DEFINE n == Len(order)
           old == Len(events)
<1>9. /\ q \in Seq(Event) /\ n \in Nat /\ Len(q) = n + 1 /\ q[n + 1] = last
      /\ \A i \in 1 .. n : q[i] = TodoEvent(order[i], "Delete", NoRow)
    BY <1>4, <1>6, <1>7, <1>8
<1>10. /\ events \in Seq(Event) /\ old \in Nat /\ events' = events \o q
    BY <1>2 DEF LogRows, ServerInv, ServerTypeOK, q
<1>11. /\ Len(events') = old + (n + 1)
       /\ \A i \in 1 .. old : events'[i] = events[i]
       /\ \A i \in 1 .. n + 1 : events'[old + i] = q[i]
    <2>1. q \in Seq(Event) /\ events \in Seq(Event) /\ events' = events \o q
        BY <1>9, <1>10
    <2>2. Len(events') = old + Len(q)
        BY <2>1, LogsConcatenate
    <2>3. \A i \in 1 .. old : events'[i] = events[i]
        BY <2>1
    <2>4. \A i \in 1 .. Len(q) : events'[old + i] = q[i]
        BY <2>1
    <2> QED
        BY <1>9, <2>2, <2>3, <2>4
<1>12. Grown(events, events')
    BY <1>9, <1>10, <1>11 DEF Grown
<1>13. ASSUME NEW k \in old + 1 .. Len(events')
       PROVE  \/ events'[k] = last
              \/ \E i \in 1 .. n : events'[k] = TodoEvent(order[i], "Delete", NoRow)
    <2>1. k - old \in 1 .. n + 1 /\ k = old + (k - old)
        BY <1>9, <1>10, <1>11
    <2>2. events'[k] = q[k - old]
        BY <1>11, <2>1
    <2> QED
        BY <1>9, <2>1, <2>2
<1>14. ASSUME NEW k \in old + 1 .. Len(events')
       PROVE  \/ events'[k].model = "Project"
              \/ events'[k].model = "Todo" /\ events'[k].row = NoRow /\ events'[k].id \in gone
    <2>1. \A u \in gone : LET e == TodoEvent(u, "Delete", NoRow)
                           IN  e.model = "Todo" /\ e.row = NoRow /\ e.id \in gone
        BY DEF TodoEvent
    <2>2. \A i \in 1 .. n : order[i] \in gone
        BY <1>4
    <2> QED
        BY <1>6, <1>13, <2>1, <2>2
<1>15. ASSUME NEW t \in gone
       PROVE  \E k \in old + 1 .. Len(events') : Names(events'[k], "Todo", t)
    <2>1. PICK i \in 1 .. n : order[i] = t
        BY <1>4
    <2>2. events'[old + i] = TodoEvent(t, "Delete", NoRow) /\ old + i \in old + 1 .. Len(events')
        BY <1>9, <1>10, <1>11, <2>1
    <2>3. Names(events'[old + i], "Todo", t)
        BY <2>2 DEF Names, TodoEvent
    <2> QED
        BY <2>2, <2>3
<1>16. ASSUME NEW k \in old + 1 .. Len(events'), events'[k].model = "Todo"
       PROVE  /\ InPlace(events'[k].id, events'[k].row)
              /\ events'[k].tag = "Delete" => events'[k].row = NoRow
    BY <1>14, <1>16 DEF InPlace
<1>17. ASSUME NEW t \in TodoIds, NEW k \in old + 1 .. Len(events'), Names(events'[k], "Todo", t)
       PROVE  events'[k].row = todos'[t]
    BY <1>3, <1>14, <1>17 DEF Names
<1>18. ASSUME NEW t \in TodoIds, \A k \in old + 1 .. Len(events') : ~Names(events'[k], "Todo", t)
       PROVE  todos'[t] = todos[t]
    BY <1>3, <1>15, <1>18
<1> QED
    BY <1>1, <1>12, <1>16, <1>17, <1>18, LogRowsGrow

\* None of this moves what the device knows of the log's beginning.
LEMMA GrowthKeepsDevice ==
    ASSUME WBase, LogRows', Grown(events, events'),
           UNCHANGED <<synced, coverage, journal, applied, ingested, generation, slice, raced>>
    PROVE  JournalTells' /\ RowsInPlace' /\ MarksCoverApplied' /\ SliceTells'
<1> DEFINE old == Len(events)
           new == Len(events')
<1>1. old \in Nat /\ new \in Nat /\ old <= new /\ \A n \in 1 .. old : events'[n] = events[n]
    BY DEF WBase, LogRows, ServerInv, ServerTypeOK, Grown
<1>2. ASSUME NEW t, NEW n \in 0 .. old
      PROVE  HeldAt(events', t, n) = HeldAt(events, t, n)
    BY <1>1, HeldGrown
<1>3. JournalTells'
    <2>1. /\ journal' \in Seq(Signal) /\ applied' \in 0 .. Len(journal')
          /\ ingested' \in 0 .. new /\ generation' \in Nat
        BY <1>1 DEF WBase, JournalTells
    <2>2. ASSUME NEW k \in DOMAIN journal
          PROVE  LET sig == journal[k]
                 IN  /\ sig.at <= ingested
                     /\ \A l \in DOMAIN journal : k < l => sig.at < journal[l].at
                     /\ sig.kind = "Snapshot" => k = 1
                     /\ sig.kind = "Event" =>
                         /\ sig.at >= 1 /\ Names(events'[sig.at], "Todo", sig.todo)
                         /\ \E n \in sig.at .. new : sig.row = HeldAt(events', sig.todo, n)
        <3> DEFINE sig == journal[k]
        <3>1. /\ sig.at <= ingested
              /\ \A l \in DOMAIN journal : k < l => sig.at < journal[l].at
              /\ sig.kind = "Snapshot" => k = 1
            BY DEF WBase, JournalTells
        <3>2. ASSUME sig.kind = "Event"
              PROVE  /\ sig.at >= 1 /\ Names(events'[sig.at], "Todo", sig.todo)
                     /\ \E n \in sig.at .. new : sig.row = HeldAt(events', sig.todo, n)
            <4>1. sig.at \in Nat /\ ingested \in 0 .. old
                BY DEF WBase, JournalTells, Signal
            <4>2. /\ sig.at >= 1 /\ Names(events[sig.at], "Todo", sig.todo)
                  /\ \E n \in sig.at .. old : sig.row = HeldAt(events, sig.todo, n)
                BY <3>2 DEF WBase, JournalTells
            <4>3. sig.at \in 1 .. old
                BY <1>1, <3>1, <4>1, <4>2
            <4>4. PICK n \in sig.at .. old : sig.row = HeldAt(events, sig.todo, n)
                BY <4>2
            <4>5. n \in 0 .. old /\ n \in sig.at .. new
                BY <1>1, <4>1, <4>4
            <4>6. sig.row = HeldAt(events', sig.todo, n)
                BY <1>2, <4>4, <4>5
            <4> HIDE DEF sig
            <4> QED
                BY <1>1, <4>2, <4>3, <4>5, <4>6
        <3> QED
            BY <3>1, <3>2
    <2>3. ASSUME NEW i \in 1 .. ingested, events'[i].model = "Todo"
          PROVE  \E k \in DOMAIN journal : IF journal[k].kind = "Event" THEN journal[k].at = i
                                                                        ELSE i <= journal[k].at
        <3>1. i \in 1 .. old /\ events'[i] = events[i]
            BY <1>1 DEF WBase, JournalTells
        <3> QED
            BY <2>3, <3>1 DEF WBase, JournalTells
    <2> QED
        BY <2>1, <2>2, <2>3 DEF JournalTells
<1>4. RowsInPlace'
    BY DEF WBase, RowsInPlace
<1>5. MarksCoverApplied'
    <2>1. \A p \in ProjectIds : coverage.marks[p] # None /\ coverage.marks[p] <= old =>
              coverage.marks[p] <= new
        BY <1>1 DEF WBase, MarksCoverApplied, None
    <2> QED
        BY <2>1 DEF WBase, MarksCoverApplied
<1>6. SliceTells'
    <2>1. ASSUME slice # NoSlice
          PROVE  slice.at \in 0 .. new
        BY <1>1, <2>1 DEF WBase, SliceTells
    <2>2. ASSUME slice # NoSlice, NEW t \in TodoIds
          PROVE  HeldAt(events', t, slice.at) = HeldAt(events, t, slice.at)
        BY <1>2, <2>2 DEF WBase, SliceTells
    <2>3. ASSUME slice # NoSlice
          PROVE  slice.rows = [t \in TodoIds |->
                    IF ProjectOf[t] = slice.project THEN HeldAt(events', t, slice.at) ELSE NoRow]
        BY <2>2, <2>3 DEF WBase, SliceTells
    <2> QED
        BY <2>1, <2>3 DEF WBase, SliceTells
<1> QED
    BY <1>3, <1>4, <1>5, <1>6

LEMMA GrowthKeepsAsked ==
    ASSUME WBase, LogRows', Grown(events, events'), UNCHANGED mutations, writes' \in Nat
    PROVE  MutationsAsked'
<1>1. /\ Len(events) \in Nat /\ Len(events') \in Nat /\ Len(events) <= Len(events')
      /\ DOMAIN events = 1 .. Len(events) /\ DOMAIN events' = 1 .. Len(events')
      /\ \A n \in 1 .. Len(events) : events'[n] = events[n]
    BY DEF WBase, LogRows, ServerInv, ServerTypeOK, Grown
<1>2. ASSUME NEW i \in DOMAIN mutations, mutations[i].state = "confirmed"
      PROVE  LET m == mutations[i]
             IN  /\ m.at \in DOMAIN events'
                 /\ Names(events'[m.at], "Todo", m.todo)
                 /\ events'[m.at].row = m.row
    BY <1>1, <1>2 DEF WBase, MutationsAsked
<1> QED
    BY <1>2 DEF WBase, MutationsAsked

\* What a row holds of the old log it holds of the longer one.
LEMMA GrowthKeepsHold ==
    ASSUME WBase, MarksHold, LogRows', Grown(events, events'),
           UNCHANGED <<synced, raced, coverage, generation>>
    PROVE  MarksHold'
<1> DEFINE old == Len(events)
           new == Len(events')
<1>1. old \in Nat /\ new \in Nat /\ old <= new /\ \A n \in 1 .. old : events'[n] = events[n]
    BY DEF WBase, LogRows, ServerInv, ServerTypeOK, Grown
<1>2. SUFFICES ASSUME coverage.gen = generation, NEW p \in ProjectIds, coverage.marks[p] # None,
                      NEW t \in TodoIds, ProjectOf[t] = p, raced[t] = {}
               PROVE  \E n \in coverage.marks[p] .. new : synced[t] = HeldAt(events', t, n)
    BY DEF MarksHold, RowsHold
<1> DEFINE mark == coverage.marks[p]
<1>3. mark \in Nat /\ mark <= old
    BY <1>2 DEF WBase, MarksCoverApplied
<1>4. PICK n \in mark .. old : synced[t] = HeldAt(events, t, n)
    BY <1>2 DEF MarksHold, RowsHold
<1>5. n \in 0 .. old /\ n \in mark .. new
    BY <1>1, <1>3
<1> QED
    BY <1>1, <1>4, <1>5, HeldGrown

-----------------------------------------------------------------------------
(* The requests that arrive *)

LEMMA ConfirmKeeps ==
    ASSUME WBase, NEW i \in DOMAIN mutations, Confirm(i)
    PROVE  WBase' /\ Grown(events, events') /\ (MarksHold => MarksHold')
<1> DEFINE m == mutations[i]
           new == [m EXCEPT !.state = "confirmed", !.at = Len(events')]
<1>1. /\ m \in Mutation /\ InPlace(m.todo, m.row) /\ (m.kind = "Delete" <=> m.row = NoRow)
      /\ LogRows /\ mutations \in Seq(Mutation) /\ writes \in Nat
    BY DEF WBase, MutationsAsked
<1>2. m.todo \in TodoIds
    BY <1>1 DEF Mutation
<1>3. ServerInv' /\ TodoWritten(m.todo, m.row)
    <2>1. CASE m.kind = "Delete"
        <3>1. RemoveTodo(m.todo)
            BY <2>1 DEF Confirm
        <3> HIDE DEF m
        <3> QED
            BY <1>1, <1>2, <2>1, <3>1, RemoveTodoTells
    <2>2. CASE m.kind # "Delete"
        <3>1. UpsertTodo(m.todo, m.row) /\ m.row \in Todo
            BY <1>1, <2>2 DEF Confirm, InPlace
        <3> HIDE DEF m
        <3> QED
            BY <1>1, <1>2, <3>1, UpsertTodoTells
    <2> QED
        BY <2>1, <2>2
<1>4. /\ mutations' = [mutations EXCEPT ![i] = new]
      /\ UNCHANGED <<synced, coverage, journal, applied, ingested, generation, slice, raced, writes>>
    <2>1. mutations' = [mutations EXCEPT ![i].state = "confirmed", ![i].at = Len(events')]
        BY DEF Confirm
    <2>2. mutations' = [mutations EXCEPT ![i] = new]
        BY <1>1, <2>1
    <2> QED
        BY <2>2 DEF Confirm
<1> HIDE DEF m
<1>5. /\ LogRows' /\ Grown(events, events') /\ Len(events') = Len(events) + 1
      /\ Names(events'[Len(events')], "Todo", m.todo) /\ events'[Len(events')].row = m.row
    BY <1>1, <1>2, <1>3, TodoWrittenTells
<1>6. /\ Len(events) \in Nat /\ DOMAIN events = 1 .. Len(events) /\ DOMAIN events' = 1 .. Len(events')
      /\ \A n \in 1 .. Len(events) : events'[n] = events[n]
    BY <1>1, <1>5 DEF LogRows, ServerInv, ServerTypeOK, Grown
<1>7. /\ new \in Mutation
      /\ new.todo = m.todo /\ new.kind = m.kind /\ new.row = m.row
      /\ new.state = "confirmed" /\ new.at = Len(events')
    <2>1. Len(events') \in Nat
        BY <1>5, <1>6
    <2>2. \A n \in Nat : [m EXCEPT !.state = "confirmed", !.at = n] \in Mutation
        BY <1>1 DEF Mutation
    <2>3. m.state \in {"asked", "confirmed", "failed"} /\ m = [todo |-> m.todo, kind |-> m.kind,
              row |-> m.row, state |-> m.state, at |-> m.at]
        BY <1>1 DEF Mutation
    <2> QED
        BY <2>1, <2>2, <2>3
<1> HIDE DEF new
<1>8. /\ mutations' \in Seq(Mutation) /\ DOMAIN mutations' = DOMAIN mutations
      /\ \A j \in DOMAIN mutations : mutations'[j] = IF j = i THEN new ELSE mutations[j]
    BY <1>1, <1>4, <1>7
<1>9. ASSUME NEW j \in DOMAIN mutations
      PROVE  LET c == mutations'[j]
             IN  /\ InPlace(c.todo, c.row)
                 /\ c.kind = "Delete" <=> c.row = NoRow
                 /\ c.state = "confirmed" =>
                     /\ c.at \in DOMAIN events'
                     /\ Names(events'[c.at], "Todo", c.todo)
                     /\ events'[c.at].row = c.row
    <2>1. CASE j = i
        BY <1>1, <1>5, <1>6, <1>7, <1>8, <2>1
    <2>2. CASE j # i
        <3>1. mutations'[j] = mutations[j]
            BY <1>8, <2>2
        <3>2. mutations[j].state = "confirmed" => mutations[j].at \in 1 .. Len(events)
            BY <1>6 DEF WBase, MutationsAsked
        <3> QED
            BY <1>5, <1>6, <3>1, <3>2 DEF WBase, MutationsAsked
    <2> QED
        BY <2>1, <2>2
<1>10. MutationsAsked'
    BY <1>1, <1>4, <1>8, <1>9 DEF MutationsAsked
<1>11. MarksHold => MarksHold'
    BY <1>4, <1>5, GrowthKeepsHold
<1>12. JournalTells' /\ RowsInPlace' /\ MarksCoverApplied' /\ SliceTells'
    BY <1>4, <1>5, GrowthKeepsDevice
<1> QED
    BY <1>5, <1>10, <1>11, <1>12 DEF WBase

\* Whatever else arrives leaves the device as it is.
LEMMA GrowthKeeps ==
    ASSUME WBase, LogRows', Grown(events, events'), UNCHANGED device, writes' \in Nat
    PROVE  WBase' /\ (MarksHold => MarksHold')
<1>1. UNCHANGED <<mutations, synced, coverage, journal, applied, ingested, generation, slice, raced>>
    BY DEF device
<1>2. JournalTells' /\ RowsInPlace' /\ MarksCoverApplied' /\ SliceTells'
    BY <1>1, GrowthKeepsDevice
<1>3. MutationsAsked'
    BY <1>1, GrowthKeepsAsked
<1>4. MarksHold => MarksHold'
    BY <1>1, GrowthKeepsHold
<1> QED
    BY <1>2, <1>3, <1>4 DEF WBase

\* A row written into the todo's own project.
LEMMA FreshRow ==
    ASSUME NEW t \in TodoIds, writes \in Nat
    PROVE  LET row == [project |-> ProjectOf[t], version |-> writes + 1]
           IN  row \in Todo /\ row # NoRow /\ InPlace(t, row)
BY ServerConstants, WriteConstants DEF Todo, InPlace

LEMMA ElsewhereKeeps ==
    ASSUME WBase, NEW t \in TodoIds, Elsewhere(t)
    PROVE  WBase' /\ Grown(events, events') /\ (MarksHold => MarksHold')
<1> DEFINE row == [project |-> ProjectOf[t], version |-> writes + 1]
<1>1. LogRows /\ writes \in Nat /\ writes' \in Nat /\ UNCHANGED device
    BY DEF WBase, MutationsAsked, Elsewhere
<1>2. row \in Todo /\ InPlace(t, row) /\ InPlace(t, NoRow)
    BY <1>1, FreshRow DEF InPlace
<1>3. RemoveTodo(t) \/ UpsertTodo(t, row)
    BY DEF Elsewhere
<1> HIDE DEF row
<1>4. LogRows' /\ Grown(events, events')
    <2>1. CASE RemoveTodo(t)
        BY <1>1, <1>2, <2>1, RemoveTodoTells, TodoWrittenTells
    <2>2. CASE UpsertTodo(t, row)
        BY <1>1, <1>2, <2>2, UpsertTodoTells, TodoWrittenTells
    <2> QED
        BY <1>3, <2>1, <2>2
<1> QED
    BY <1>1, <1>4, GrowthKeeps

LEMMA ProjectWriteKeeps ==
    ASSUME WBase, NEW p \in ProjectIds, ProjectWrite(p)
    PROVE  WBase' /\ Grown(events, events') /\ (MarksHold => MarksHold')
<1>1. LogRows /\ writes' \in Nat /\ UNCHANGED device
    BY DEF WBase, MutationsAsked, ProjectWrite
<1>2. LogRows' /\ Grown(events, events')
    BY <1>1, UpsertProjectTells, RemoveProjectTells DEF ProjectWrite
<1> QED
    BY <1>1, <1>2, GrowthKeeps

-----------------------------------------------------------------------------
(* The device's own mutations *)

LEMMA LogStands ==
    ASSUME LogRows, UNCHANGED server
    PROVE  LogRows'
BY DEF LogRows, server, ServerInv, ServerTypeOK, TodosHaveTheirProject, LogTellsTables

LEMMA JournalStands ==
    ASSUME JournalTells, UNCHANGED <<events, journal, applied, ingested, generation>>
    PROVE  JournalTells'
BY DEF JournalTells

LEMMA MarksStand ==
    ASSUME MarksCoverApplied, UNCHANGED <<events, coverage, journal, applied, generation>>
    PROVE  MarksCoverApplied'
BY DEF MarksCoverApplied

LEMMA SliceStands ==
    ASSUME SliceTells, UNCHANGED <<events, coverage, journal, generation, slice>>
    PROVE  SliceTells'
BY DEF SliceTells

LEMMA AskedStand ==
    ASSUME MutationsAsked, UNCHANGED <<events, mutations, writes>>
    PROVE  MutationsAsked'
BY DEF MutationsAsked

\* What is shown of a todo is of its project.
LEMMA ShownInPlace ==
    ASSUME MutationsAsked, NEW t \in TodoIds, NEW rows, InPlace(t, rows[t])
    PROVE  InPlace(t, Shown(rows, t))
<1>1. CASE On(t) = {}
    BY <1>1 DEF Shown
<1>2. CASE On(t) # {}
    <2>1. On(t) \in SUBSET (1 .. Len(mutations)) /\ Len(mutations) \in Nat
        BY DEF On, MutationsAsked
    <2>2. IsFiniteSet(On(t)) /\ On(t) \in SUBSET Nat
        <3>1. IsFiniteSet(1 .. Len(mutations))
            BY <2>1, FS_Interval
        <3>2. IsFiniteSet(On(t))
            BY <2>1, <3>1, FS_Subset
        <3> QED
            BY <2>1, <3>2
    <2>3. Max(On(t)) \in On(t)
        BY <1>2, <2>2, MaxOfPositions
    <2>4. Shown(rows, t) = mutations[Max(On(t))].row
        BY <1>2 DEF Shown
    <2> QED
        BY <2>3, <2>4 DEF On, MutationsAsked
<1> QED
    BY <1>1, <1>2

\* What neither the log nor the synced rows see.
LEMMA AsksKeep ==
    ASSUME WBase, MutationsAsked',
           UNCHANGED <<server, synced, coverage, journal, applied, ingested, generation, slice, raced>>
    PROVE  WBase' /\ (MarksHold => MarksHold')
<1>1. LogRows' /\ JournalTells' /\ MarksCoverApplied' /\ SliceTells'
    BY LogStands, JournalStands, MarksStand, SliceStands DEF WBase, server
<1>2. RowsInPlace'
    BY DEF WBase, RowsInPlace
<1>3. ASSUME MarksHold PROVE MarksHold'
    <2>1. events' = events
        BY DEF server
    <2> QED
        BY <1>3, <2>1 DEF MarksHold, RowsHold
<1> QED
    BY <1>1, <1>2, <1>3 DEF WBase

LEMMA MutateKeeps ==
    ASSUME WBase, NEW t \in TodoIds, NEW kind \in Tags, NEW row,
           InPlace(t, row), kind = "Delete" <=> row = NoRow, Mutate(t, kind, row)
    PROVE  WBase' /\ (MarksHold => MarksHold')
<1> DEFINE m == [todo |-> t, kind |-> kind, row |-> row, state |-> "asked", at |-> 0]
<1>1. mutations' = Append(mutations, m) /\ writes' = writes + 1
    BY DEF Mutate
<1>2. UNCHANGED <<server, synced, coverage, journal, applied, ingested, generation, slice, raced>>
    BY DEF Mutate
<1>3. /\ m \in Mutation /\ m.todo = t /\ m.kind = kind /\ m.row = row /\ m.state = "asked"
    BY DEF Mutation, InPlace
<1> HIDE DEF m
<1>4. mutations \in Seq(Mutation) /\ writes \in Nat /\ events' = events
    BY <1>2 DEF WBase, MutationsAsked, server
<1>5. /\ mutations' \in Seq(Mutation)
      /\ \A i \in DOMAIN mutations' :
            \/ mutations'[i] = m
            \/ i \in DOMAIN mutations /\ mutations'[i] = mutations[i]
    BY <1>1, <1>3, <1>4
<1>6. MutationsAsked'
    <2>1. ASSUME NEW i \in DOMAIN mutations'
          PROVE  LET c == mutations'[i]
                 IN  /\ InPlace(c.todo, c.row)
                     /\ c.kind = "Delete" <=> c.row = NoRow
                     /\ c.state = "confirmed" =>
                         /\ c.at \in DOMAIN events'
                         /\ Names(events'[c.at], "Todo", c.todo)
                         /\ events'[c.at].row = c.row
        <3>1. CASE mutations'[i] = m
            BY <1>3, <3>1
        <3>2. CASE i \in DOMAIN mutations /\ mutations'[i] = mutations[i]
            BY <1>4, <3>2 DEF WBase, MutationsAsked
        <3> QED
            BY <1>5, <3>1, <3>2
    <2> QED
        BY <1>1, <1>4, <1>5, <2>1 DEF MutationsAsked
<1> QED
    BY <1>2, <1>6, AsksKeep

LEMMA InsertKeeps ==
    ASSUME WBase, NEW t \in TodoIds, Insert(t) \/ Update(t) \/ Delete(t)
    PROVE  WBase' /\ (MarksHold => MarksHold')
<1>1. writes \in Nat /\ InPlace(t, Shown(synced, t))
    BY ShownInPlace DEF WBase, MutationsAsked, RowsInPlace
<1>2. CASE Insert(t)
    <2> DEFINE row == [project |-> ProjectOf[t], version |-> writes + 1]
    <2>1. row # NoRow /\ InPlace(t, row)
        BY <1>1, FreshRow
    <2>2. Mutate(t, "Insert", row)
        BY <1>2 DEF Insert
    <2> HIDE DEF row
    <2> QED
        BY <2>1, <2>2, MutateKeeps DEF Tags
<1>3. CASE Update(t)
    <2> DEFINE old == Shown(synced, t)
               row == [old EXCEPT !.version = writes + 1]
    <2>1. old # NoRow /\ Mutate(t, "Update", row)
        BY <1>3 DEF Update
    <2> HIDE DEF old
    <2>2. old \in Todo /\ old.project = ProjectOf[t]
        BY <1>1, <2>1 DEF InPlace, old
    <2>3. row \in Todo /\ row.project = ProjectOf[t]
        BY <1>1, <2>2 DEF Todo
    <2>4. row # NoRow /\ InPlace(t, row)
        BY <2>3, ServerConstants DEF InPlace
    <2> HIDE DEF row
    <2> QED
        BY <2>1, <2>4, MutateKeeps DEF Tags
<1>4. CASE Delete(t)
    <2>1. Mutate(t, "Delete", NoRow) /\ InPlace(t, NoRow)
        BY <1>4 DEF Delete, InPlace
    <2> QED
        BY <2>1, MutateKeeps DEF Tags
<1> QED
    BY <1>2, <1>3, <1>4

LEMMA FailsKeeps ==
    ASSUME WBase, NEW i \in DOMAIN mutations, Fails(i)
    PROVE  WBase' /\ (MarksHold => MarksHold')
<1> DEFINE m == mutations[i]
           new == [m EXCEPT !.state = "failed"]
<1>1. mutations \in Seq(Mutation) /\ m \in Mutation
    BY DEF WBase, MutationsAsked
<1>2. /\ mutations' = [mutations EXCEPT ![i] = new]
      /\ UNCHANGED <<server, synced, coverage, journal, applied, ingested, generation, slice, raced, writes>>
    BY <1>1 DEF Fails
<1>3. /\ new \in Mutation /\ new.todo = m.todo /\ new.kind = m.kind /\ new.row = m.row
      /\ new.state = "failed"
    BY <1>1 DEF Mutation
<1> HIDE DEF new
<1>4. /\ mutations' \in Seq(Mutation) /\ DOMAIN mutations' = DOMAIN mutations
      /\ \A j \in DOMAIN mutations : mutations'[j] = IF j = i THEN new ELSE mutations[j]
    BY <1>1, <1>2, <1>3
<1>5. events' = events
    BY <1>2 DEF server
<1>6. MutationsAsked'
    BY <1>2, <1>3, <1>4, <1>5 DEF WBase, MutationsAsked
<1> QED
    BY <1>2, <1>6, AsksKeep

LEMMA RemovedFrom ==
    ASSUME NEW S, NEW s \in Seq(S), NEW i \in DOMAIN s
    PROVE  /\ RemoveAt(s, i) \in Seq(S)
           /\ \A j \in DOMAIN RemoveAt(s, i) : \E k \in DOMAIN s : RemoveAt(s, i)[j] = s[k]
<1> DEFINE head == SubSeq(s, 1, i - 1)
           tail == SubSeq(s, i + 1, Len(s))
           left == head \o tail
<1>1. Len(s) \in Nat /\ DOMAIN s = 1 .. Len(s) /\ i \in 1 .. Len(s)
    OBVIOUS
<1>2. /\ head \in Seq(S) /\ Len(head) = i - 1
      /\ \A j \in 1 .. i - 1 : head[j] = s[j]
    BY <1>1
<1>3. /\ tail \in Seq(S) /\ Len(tail) = Len(s) - i
      /\ \A j \in 1 .. Len(s) - i : tail[j] = s[i + j]
    BY <1>1
<1> HIDE DEF head, tail
<1>4. /\ left \in Seq(S) /\ DOMAIN left = 1 .. Len(head) + Len(tail)
      /\ \A j \in 1 .. Len(head) : left[j] = head[j]
      /\ \A j \in Len(head) + 1 .. Len(head) + Len(tail) : left[j] = tail[j - Len(head)]
    <2>1. head \in Seq(S) /\ tail \in Seq(S)
        BY <1>2, <1>3
    <2>2. left \in Seq(S) /\ DOMAIN left = 1 .. Len(head) + Len(tail)
        BY <2>1
    <2>3. \A j \in 1 .. Len(head) : left[j] = head[j]
        BY <2>1
    <2>4. \A j \in Len(head) + 1 .. Len(head) + Len(tail) : left[j] = tail[j - Len(head)]
        BY <2>1
    <2> QED
        BY <2>2, <2>3, <2>4
<1> HIDE DEF left
<1>5. ASSUME NEW j \in DOMAIN left
      PROVE  \E k \in DOMAIN s : left[j] = s[k]
    <2>1. CASE j \in 1 .. i - 1
        BY <1>1, <1>2, <1>4, <2>1
    <2>2. CASE j \in i .. Len(s) - 1
        <3>1. j - (i - 1) \in 1 .. Len(s) - i /\ i + (j - (i - 1)) = j + 1 /\ j + 1 \in DOMAIN s
            BY <1>1, <2>2
        <3>2. j \in Len(head) + 1 .. Len(head) + Len(tail)
            BY <1>1, <1>2, <1>3, <2>2
        <3>3. left[j] = tail[j - (i - 1)]
            BY <1>2, <1>4, <3>2
        <3> QED
            BY <1>3, <3>1, <3>3
    <2> QED
        BY <1>1, <1>2, <1>3, <1>4, <2>1, <2>2
<1> QED
    BY <1>4, <1>5 DEF RemoveAt, left, head, tail

\* A confirmed row is written: what the server held when it took it, and what it still
\* held at the mark, unless a later event of the row is under the mark already.
LEMMA SettleKeeps ==
    ASSUME WBase, NEW i \in DOMAIN mutations, Settle(i)
    PROVE  WBase' /\ (MarksHold => MarksHold')
<1> DEFINE m == mutations[i]
           old == Len(events)
           lost == IF Overtaken(m) THEN {"late-answer"} ELSE {}
<1>1. mutations \in Seq(Mutation) /\ m \in Mutation /\ InPlace(m.todo, m.row)
    BY DEF WBase, MutationsAsked
<1>2. /\ mutations' = RemoveAt(mutations, i) /\ m.state \in {"confirmed", "failed"}
      /\ m.state = "failed" => UNCHANGED <<synced, raced>>
      /\ m.state = "confirmed" => /\ synced' = [synced EXCEPT ![m.todo] = m.row]
                                 /\ raced' = [raced EXCEPT ![m.todo] = lost]
      /\ UNCHANGED <<server, coverage, journal, applied, ingested, generation, slice, writes>>
    BY <1>1 DEF Settle, Mutation
<1>3. m.todo \in TodoIds /\ m.row \in Todo \cup {NoRow}
    BY <1>1 DEF Mutation
<1>4. events' = events /\ old \in Nat /\ DOMAIN events = 1 .. old
    BY <1>2 DEF server, WBase, LogRows, ServerInv, ServerTypeOK
<1>5. /\ mutations' \in Seq(Mutation)
      /\ \A j \in DOMAIN mutations' : \E k \in DOMAIN mutations : mutations'[j] = mutations[k]
    BY <1>1, <1>2, RemovedFrom
<1>6. MutationsAsked'
    BY <1>2, <1>4, <1>5 DEF WBase, MutationsAsked
<1>7. LogRows' /\ JournalTells' /\ MarksCoverApplied' /\ SliceTells'
    BY <1>2, <1>4, LogStands, JournalStands, MarksStand, SliceStands DEF WBase
<1>8. lost \in SUBSET Races /\ (lost = {} <=> ~Overtaken(m))
    BY DEF Races
<1> HIDE DEF lost, m
<1>9. /\ synced' \in [TodoIds -> Todo \cup {NoRow}] /\ raced' \in [TodoIds -> SUBSET Races]
      /\ \A t \in TodoIds : synced'[t] = IF t = m.todo /\ m.state = "confirmed" THEN m.row ELSE synced[t]
      /\ \A t \in TodoIds : raced'[t] = IF t = m.todo /\ m.state = "confirmed" THEN lost ELSE raced[t]
    BY <1>2, <1>3, <1>8 DEF WBase, RowsInPlace
<1>10. RowsInPlace'
    BY <1>1, <1>9 DEF WBase, RowsInPlace
<1>11. ASSUME MarksHold PROVE MarksHold'
    <2>1. SUFFICES ASSUME coverage.gen = generation, NEW p \in ProjectIds, coverage.marks[p] # None,
                          NEW t \in TodoIds, ProjectOf[t] = p, raced'[t] = {}
                   PROVE  \E n \in coverage.marks[p] .. old : synced'[t] = HeldAt(events, t, n)
        BY <1>2, <1>4 DEF MarksHold, RowsHold
    <2> DEFINE mark == coverage.marks[p]
    <2>2. mark \in Nat /\ mark <= old
        BY <2>1 DEF WBase, MarksCoverApplied
    <2>3. CASE t = m.todo /\ m.state = "confirmed"
        <3>1. m.at \in 1 .. old /\ Names(events[m.at], "Todo", t) /\ events[m.at].row = m.row
            BY <1>4, <2>3 DEF WBase, MutationsAsked, m
        <3>2. \A n \in m.at + 1 .. mark : ~Names(events[n], "Todo", t)
            BY <1>8, <1>9, <2>1, <2>3 DEF Overtaken
        <3> HIDE DEF mark
        <3>3. HeldAt(events, t, m.at) = m.row
            BY <3>1, HeldIs
        <3>4. CASE m.at >= mark
            BY <1>9, <2>1, <2>2, <2>3, <3>1, <3>3, <3>4 DEF mark
        <3>5. CASE m.at < mark
            <4>1. HeldAt(events, t, mark) = HeldAt(events, t, m.at)
                BY <2>2, <3>1, <3>2, <3>5, HeldQuiet
            <4> QED
                BY <1>4, <1>9, <2>1, <2>2, <2>3, <3>3, <4>1 DEF mark
        <3> QED
            BY <2>2, <3>1, <3>4, <3>5
    <2>4. CASE ~(t = m.todo /\ m.state = "confirmed")
        BY <1>9, <1>11, <2>1, <2>4 DEF MarksHold, RowsHold
    <2> QED
        BY <2>3, <2>4
<1> QED
    BY <1>6, <1>7, <1>10, <1>11 DEF WBase

-----------------------------------------------------------------------------
(* The journal *)

LEMMA HoldStands ==
    ASSUME MarksHold, UNCHANGED <<events, synced, raced, coverage, generation>>
    PROVE  MarksHold'
BY DEF MarksHold, RowsHold

LEMMA RowsStand ==
    ASSUME RowsInPlace, UNCHANGED <<synced, raced>>
    PROVE  RowsInPlace'
BY DEF RowsInPlace

\* A served event brings its row as it is by then, and only its row.
LEMMA ReceiveKeeps ==
    ASSUME WBase, Receive
    PROVE  WBase' /\ (MarksHold => MarksHold')
<1> DEFINE i == ingested + 1
           e == events[i]
           old == Len(events)
           sig == [kind |-> "Event", at |-> i, todo |-> e.id,
                   row |-> IF e.tag = "Delete" THEN NoRow ELSE todos[e.id]]
<1>1. /\ i \in 1 .. old /\ ingested' = i /\ old \in Nat /\ DOMAIN events = 1 .. old
      /\ events \in Seq(Event) /\ events' = events /\ ingested \in Nat /\ journal \in Seq(Signal)
    BY DEF Receive, server, WBase, LogRows, ServerInv, ServerTypeOK, JournalTells
<1>2. UNCHANGED <<server, mutations, synced, coverage, applied, generation, slice, raced, writes>>
    BY DEF Receive
<1>3. journal' = IF e.model # "Todo" THEN journal ELSE Append(journal, sig)
    BY DEF Receive
<1>4. ASSUME e.model = "Todo"
      PROVE  /\ sig \in Signal /\ sig.kind = "Event" /\ sig.at = i /\ Names(e, "Todo", sig.todo)
             /\ \E n \in i .. old : sig.row = HeldAt(events, sig.todo, n)
    <2>1. e \in Event
        BY <1>1
    <2>2. e.id \in TodoIds
        BY <1>4, <2>1 DEF Event
    <2>3. todos[e.id] = HeldAt(events, e.id, old) /\ todos[e.id] \in Todo \cup {NoRow}
        BY <2>2 DEF WBase, LogRows, ServerInv, ServerTypeOK
    <2>4. Names(e, "Todo", e.id)
        BY <1>4 DEF Names
    <2>5. e.tag = "Delete" => HeldAt(events, e.id, i) = NoRow
        <3>1. HeldAt(events, e.id, i) = e.row
            BY <1>1, <2>4, HeldIs
        <3> QED
            BY <1>1, <1>4, <3>1 DEF WBase, LogRows
    <2>6. sig \in Signal
        BY <1>1, <2>2, <2>3 DEF Signal
    <2> QED
        BY <1>1, <2>3, <2>4, <2>5, <2>6
<1> HIDE DEF sig
<1>5. /\ journal' \in Seq(Signal) /\ Len(journal) \in Nat /\ Len(journal) <= Len(journal')
      /\ DOMAIN journal = 1 .. Len(journal) /\ DOMAIN journal' = 1 .. Len(journal')
      /\ \A k \in 1 .. Len(journal) : journal'[k] = journal[k]
      /\ \A k \in DOMAIN journal' : k \notin DOMAIN journal =>
            e.model = "Todo" /\ k = Len(journal) + 1 /\ journal'[k] = sig
      /\ e.model = "Todo" => Len(journal) + 1 \in DOMAIN journal' /\ journal'[Len(journal) + 1] = sig
    <2>1. CASE e.model # "Todo"
        BY <1>1, <1>3, <2>1
    <2>2. CASE e.model = "Todo"
        BY <1>1, <1>3, <1>4, <2>2
    <2> QED
        BY <2>1, <2>2
<1>6. ASSUME NEW k \in DOMAIN journal'
      PROVE  LET s == journal'[k]
             IN  /\ s.at <= i
                 /\ \A l \in DOMAIN journal' : k < l => s.at < journal'[l].at
                 /\ s.kind = "Snapshot" => k = 1
                 /\ s.kind = "Event" =>
                     /\ s.at >= 1 /\ Names(events[s.at], "Todo", s.todo)
                     /\ \E n \in s.at .. old : s.row = HeldAt(events, s.todo, n)
    <2>1. CASE k \in DOMAIN journal
        <3>1. /\ journal'[k] = journal[k] /\ journal[k].at <= ingested /\ journal[k] \in Signal
              /\ \A l \in DOMAIN journal : k < l => journal[k].at < journal[l].at
            BY <1>1, <1>5, <2>1 DEF WBase, JournalTells
        <3>2. journal[k].at \in Nat
            BY <3>1 DEF Signal
        <3>3. \A l \in DOMAIN journal' : k < l => journal'[k].at < journal'[l].at
            <4>1. SUFFICES ASSUME NEW l \in DOMAIN journal', k < l
                           PROVE  journal[k].at < journal'[l].at
                BY <3>1
            <4>2. CASE l \in DOMAIN journal
                BY <1>5, <3>1, <4>1, <4>2
            <4>3. CASE l \notin DOMAIN journal
                BY <1>1, <1>4, <1>5, <3>1, <3>2, <4>3
            <4> QED
                BY <4>2, <4>3
        <3>4. journal[k].at <= i
            BY <1>1, <3>1, <3>2
        <3> QED
            BY <2>1, <3>1, <3>3, <3>4 DEF WBase, JournalTells
    <2>2. CASE k \notin DOMAIN journal
        <3>1. k = Len(journal) + 1 /\ journal'[k] = sig /\ e.model = "Todo"
            BY <1>5, <2>2
        <3>2. \A l \in DOMAIN journal' : ~(k < l)
            BY <1>5, <3>1
        <3> QED
            BY <1>1, <1>4, <3>1, <3>2
    <2> QED
        BY <2>1, <2>2
<1>7. ASSUME NEW j \in 1 .. i, events[j].model = "Todo"
      PROVE  \E k \in DOMAIN journal' : IF journal'[k].kind = "Event" THEN journal'[k].at = j
                                                                     ELSE j <= journal'[k].at
    <2>1. CASE j = i
        BY <1>4, <1>5, <1>7, <2>1
    <2>2. CASE j \in 1 .. ingested
        <3>1. PICK k \in DOMAIN journal : IF journal[k].kind = "Event" THEN journal[k].at = j
                                                                        ELSE j <= journal[k].at
            BY <1>7, <2>2 DEF WBase, JournalTells
        <3>2. k \in DOMAIN journal' /\ journal'[k] = journal[k]
            BY <1>5
        <3> QED
            BY <3>1, <3>2
    <2> QED
        BY <1>1, <2>1, <2>2
<1>8. JournalTells'
    <2>1. applied' \in 0 .. Len(journal') /\ ingested' \in 0 .. Len(events') /\ generation' \in Nat
        BY <1>1, <1>2, <1>5 DEF WBase, JournalTells
    <2> QED
        BY <1>1, <1>5, <1>6, <1>7, <2>1 DEF JournalTells
<1>9. MarksCoverApplied'
    <2>1. \A k \in 1 .. applied : journal'[k] = journal[k]
        BY <1>5 DEF WBase, JournalTells
    <2> QED
        BY <1>1, <1>2, <2>1 DEF WBase, MarksCoverApplied
<1>10. SliceTells'
    <2>1. \A k \in DOMAIN journal' : journal'[k].kind = "Snapshot" =>
              k \in DOMAIN journal /\ journal'[k] = journal[k]
        BY <1>4, <1>5
    <2> QED
        BY <1>1, <1>2, <2>1 DEF WBase, SliceTells
<1>11. LogRows' /\ RowsInPlace' /\ MutationsAsked' /\ (MarksHold => MarksHold')
    BY <1>1, <1>2, LogStands, RowsStand, AskedStand, HoldStands DEF WBase
<1> QED
    BY <1>8, <1>9, <1>10, <1>11 DEF WBase

\* A recovery starts a journal that stands for the whole log; no mark of the new
\* generation exists yet.
LEMMA RecoverKeeps ==
    ASSUME WBase, Recover
    PROVE  WBase' /\ (MarksHold => MarksHold')
<1> DEFINE sig == [kind |-> "Snapshot", at |-> Len(events)]
<1>1. /\ journal' = <<sig>> /\ applied' = 0 /\ ingested' = Len(events)
      /\ generation' = generation + 1 /\ generation \in Nat
      /\ UNCHANGED <<server, mutations, synced, coverage, slice, raced, writes>>
    BY DEF Recover, WBase, JournalTells
<1>2. events' = events /\ Len(events) \in Nat /\ sig \in Signal /\ sig.kind = "Snapshot" /\ sig.at = Len(events)
    BY <1>1 DEF server, WBase, LogRows, ServerInv, ServerTypeOK, Signal
<1> HIDE DEF sig
<1>3. DOMAIN journal' = {1} /\ journal'[1] = sig /\ journal' \in Seq(Signal) /\ Len(journal') = 1
    BY <1>1, <1>2
<1>4. JournalTells'
    BY <1>1, <1>2, <1>3 DEF JournalTells
<1>5. coverage.gen \in 0 .. generation /\ coverage.gen # generation'
    BY <1>1 DEF WBase, MarksCoverApplied
<1>6. MarksCoverApplied' /\ MarksHold'
    BY <1>1, <1>5 DEF WBase, MarksCoverApplied, MarksHold
<1>7. SliceTells'
    <2>1. slice # NoSlice => slice.gen \in 0 .. generation' /\ slice.gen # generation'
        BY <1>1 DEF WBase, SliceTells
    <2> QED
        BY <1>1, <1>2, <2>1 DEF WBase, SliceTells
<1>8. LogRows' /\ RowsInPlace' /\ MutationsAsked'
    BY <1>1, <1>2, LogStands, RowsStand, AskedStand DEF WBase
<1> QED
    BY <1>4, <1>6, <1>7, <1>8 DEF WBase

-----------------------------------------------------------------------------
(* Fetching *)

LEMMA FetchKeeps ==
    ASSUME WBase, NEW p \in ProjectIds, FetchSlice(p)
    PROVE  WBase' /\ (MarksHold => MarksHold')
<1> DEFINE rows == [t \in TodoIds |-> IF t \in ListByProject(p) THEN todos[t] ELSE NoRow]
           s == [project |-> p, at |-> Len(events), gen |-> generation, rows |-> rows]
<1>1. /\ slice' = s
      /\ coverage.gen = generation => coverage.marks[p] = None
      /\ UNCHANGED <<server, mutations, synced, coverage, journal, applied, ingested, generation, raced, writes>>
    BY DEF FetchSlice
<1>2. events' = events /\ Len(events) \in Nat /\ generation \in Nat
    BY <1>1 DEF server, WBase, LogRows, ServerInv, ServerTypeOK, JournalTells
<1>3. ASSUME NEW t \in TodoIds
      PROVE  rows[t] = IF ProjectOf[t] = p THEN HeldAt(events, t, Len(events)) ELSE NoRow
    <2>1. todos[t] = HeldAt(events, t, Len(events))
        BY DEF WBase, LogRows
    <2>2. InPlace(t, todos[t])
        <3>1. SUFFICES ASSUME todos[t] # NoRow PROVE InPlace(t, todos[t])
            BY DEF InPlace
        <3>2. PICK n \in 1 .. Len(events) : Names(events[n], "Todo", t) /\ events[n].row = todos[t]
            BY <1>2, <2>1, <3>1, HeldFrom
        <3>3. n \in DOMAIN events
            BY DEF WBase, LogRows, ServerInv, ServerTypeOK
        <3> QED
            BY <3>2, <3>3 DEF WBase, LogRows, Names
    <2> QED
        BY <2>1, <2>2 DEF InPlace, ListByProject
<1>4. rows = [t \in TodoIds |-> IF ProjectOf[t] = p THEN HeldAt(events, t, Len(events)) ELSE NoRow]
    BY <1>3
<1>5. s.project = p /\ s.at = Len(events) /\ s.gen = generation /\ s.rows = rows
    OBVIOUS
<1> HIDE DEF s, rows
<1>6. \A k \in DOMAIN journal : journal[k].at <= Len(events)
    <2>1. SUFFICES ASSUME NEW k \in DOMAIN journal PROVE journal[k].at <= Len(events)
        OBVIOUS
    <2>2. journal[k] \in Signal /\ journal[k].at <= ingested /\ ingested \in 0 .. Len(events)
        BY DEF WBase, JournalTells
    <2>3. journal[k].at \in Nat
        BY <2>2 DEF Signal
    <2> QED
        BY <1>2, <2>2, <2>3
<1>7. SliceTells'
    BY <1>1, <1>2, <1>4, <1>5, <1>6 DEF SliceTells
<1> QED
    BY <1>1, <1>2, <1>7, LogStands, JournalStands, MarksStand, RowsStand, AskedStand, HoldStands DEF WBase

LEMMA LoseKeeps ==
    ASSUME WBase, LoseSlice
    PROVE  WBase' /\ (MarksHold => MarksHold')
<1>1. /\ slice' = NoSlice
      /\ UNCHANGED <<server, mutations, synced, coverage, journal, applied, ingested, generation, raced, writes>>
    BY DEF LoseSlice
<1>2. events' = events /\ NoSlice' = NoSlice
    BY <1>1 DEF server, NoSlice
<1>3. SliceTells'
    BY <1>1, <1>2 DEF SliceTells
<1> QED
    BY <1>1, <1>2, <1>3, LogStands, JournalStands, MarksStand, RowsStand, AskedStand, HoldStands DEF WBase

-----------------------------------------------------------------------------
(* One signal *)

LEMMA MaxOfTwo ==
    ASSUME NEW a \in Int, NEW b \in Int
    PROVE  Max({a, b}) = IF a >= b THEN a ELSE b
<1> DEFINE big == IF a >= b THEN a ELSE b
<1>1. big \in {a, b} /\ \A y \in {a, b} : big >= y
    OBVIOUS
<1>2. \A x \in {a, b} : (\A y \in {a, b} : x >= y) => x = big
    OBVIOUS
<1> HIDE DEF big
<1>3. Max({a, b}) = big
    BY <1>1, <1>2 DEF Max
<1> QED
    BY <1>3 DEF big

LEMMA HeldInPlace ==
    ASSUME LogRows, NEW t \in TodoIds, NEW n \in 0 .. Len(events)
    PROVE  InPlace(t, HeldAt(events, t, n))
<1>1. SUFFICES ASSUME HeldAt(events, t, n) # NoRow PROVE InPlace(t, HeldAt(events, t, n))
    BY DEF InPlace
<1>2. Len(events) \in Nat /\ DOMAIN events = 1 .. Len(events)
    BY DEF LogRows, ServerInv, ServerTypeOK
<1>3. PICK i \in 1 .. n : Names(events[i], "Todo", t) /\ events[i].row = HeldAt(events, t, n)
    BY <1>1, <1>2, HeldFrom
<1>4. i \in DOMAIN events
    BY <1>2
<1> QED
    BY <1>3, <1>4 DEF LogRows, Names

\* What the journal says of a todo.
LEMMA SignalTells ==
    ASSUME WBase, NEW k \in DOMAIN journal, journal[k].kind = "Event"
    PROVE  /\ journal[k].todo \in TodoIds /\ journal[k].at \in 1 .. Len(events)
           /\ InPlace(journal[k].todo, journal[k].row)
           /\ \E n \in journal[k].at .. Len(events) : journal[k].row = HeldAt(events, journal[k].todo, n)
<1> DEFINE sig == journal[k]
<1>1. sig \in Signal /\ ingested \in 0 .. Len(events) /\ Len(events) \in Nat
    BY DEF WBase, JournalTells, LogRows, ServerInv, ServerTypeOK
<1>2. sig.todo \in TodoIds /\ sig.at \in Nat
    BY <1>1 DEF Signal
<1>3. /\ sig.at >= 1 /\ sig.at <= ingested
      /\ \E n \in sig.at .. Len(events) : sig.row = HeldAt(events, sig.todo, n)
    BY DEF WBase, JournalTells
<1> HIDE DEF sig
<1>4. PICK n \in sig.at .. Len(events) : sig.row = HeldAt(events, sig.todo, n)
    BY <1>3
<1>5. n \in 0 .. Len(events)
    BY <1>1, <1>2
<1>6. InPlace(sig.todo, sig.row)
    BY <1>2, <1>4, <1>5, HeldInPlace DEF WBase
<1> QED
    BY <1>1, <1>2, <1>3, <1>6 DEF sig

\* No event of t after the first position, through the second.
Silent(t, m, n) == \A i \in m + 1 .. n : ~Names(events[i], "Todo", t)

\* Between a mark that covers the signals before and the signal's position nothing
\* happened to any other todo: the journal holds every event ingested since.
LEMMA QuietBetween ==
    ASSUME WBase, NEW k \in DOMAIN journal, journal[k].kind = "Event",
           NEW mark \in Nat, \A j \in 1 .. k - 1 : journal[j].at <= mark,
           NEW u, u # journal[k].todo
    PROVE  Silent(u, mark, journal[k].at)
<1>1. SUFFICES ASSUME NEW i \in mark + 1 .. journal[k].at, Names(events[i], "Todo", u) PROVE FALSE
    BY DEF Silent
<1>2. /\ journal \in Seq(Signal) /\ DOMAIN journal = 1 .. Len(journal) /\ Len(journal) \in Nat
      /\ journal[k].at \in Nat /\ journal[k].at <= ingested /\ ingested \in Nat
    BY SignalTells DEF WBase, JournalTells
<1>3. i \in 1 .. ingested /\ events[i].model = "Todo"
    BY <1>1, <1>2 DEF Names
<1>4. PICK l \in DOMAIN journal : IF journal[l].kind = "Event" THEN journal[l].at = i
                                                                ELSE i <= journal[l].at
    BY <1>3 DEF WBase, JournalTells
<1>5. journal[l] \in Signal /\ journal[l].at \in Nat /\ journal[l].kind \in {"Event", "Snapshot"}
    <2>1. journal[l] \in Signal
        BY <1>2
    <2> QED
        BY <2>1 DEF Signal
<1>6. CASE l < k
    <2>1. journal[l].at <= mark
        BY <1>2, <1>6
    <2> QED
        BY <1>4, <1>5, <2>1
<1>7. CASE l = k
    <2>1. Names(events[i], "Todo", journal[k].todo)
        BY <1>4, <1>7 DEF WBase, JournalTells
    <2> QED
        BY <1>1, <2>1 DEF Names
<1>8. CASE l > k
    <2>1. journal[k].at < journal[l].at /\ l # 1
        BY <1>2, <1>8 DEF WBase, JournalTells
    <2>2. journal[l].kind = "Event"
        BY <1>5, <2>1 DEF WBase, JournalTells
    <2> QED
        BY <1>2, <1>4, <1>5, <2>1, <2>2
<1> QED
    BY <1>2, <1>6, <1>7, <1>8

\* The marks and rows an applier works on.
MarkSet == [ProjectIds -> Nat \cup {None}]
Placed(rows) == rows \in [TodoIds -> Todo \cup {NoRow}] /\ \A t \in TodoIds : InPlace(t, rows[t])

\* The event finds a hidden row and brings none of its own.
Conceals(rows, marks, sig) == Hidden(rows, sig.todo) /\ Covering(marks, sig.row) = {}

\* The applier on one event: it leaves the row alone when the mark is past the event, and
\* when it removes nothing but a hidden row; else it writes what the event brings of a
\* covered project, and removes the row of any other.
LEMMA LandTells ==
    ASSUME MutationsAsked, NEW rows, Placed(rows), NEW marks \in MarkSet,
           NEW sig, sig.todo \in TodoIds, sig.at \in Nat, InPlace(sig.todo, sig.row)
    PROVE  LET new == Land(rows, marks, sig)
               t == sig.todo
               mark == marks[ProjectOf[t]]
           IN  /\ Placed(new)
               /\ \A u \in TodoIds : u # t => new[u] = rows[u]
               /\ sig.at <= mark \/ Conceals(rows, marks, sig) => new[t] = rows[t]
               /\ ~(sig.at <= mark) /\ ~Conceals(rows, marks, sig) =>
                    new[t] = IF mark = None THEN NoRow ELSE sig.row
<1> DEFINE t == sig.todo
           p == ProjectOf[t]
           mark == marks[p]
           old == Shown(rows, t)
           hid == Conceals(rows, marks, sig)
           fresh == IF Covering(marks, sig.row) # {} THEN sig.row ELSE NoRow
           stale == \E m \in Covering(marks, sig.row) \cup Covering(marks, old) : sig.at <= m
           new == Land(rows, marks, sig)
<1>1. /\ t \in TodoIds /\ p \in ProjectIds /\ mark \in Nat \cup {None} /\ sig.at \in Nat
      /\ rows \in [TodoIds -> Todo \cup {NoRow}]
    BY WriteConstants DEF MarkSet, Placed
<1>2. InPlace(t, sig.row) /\ InPlace(t, old) /\ InPlace(t, NoRow)
    BY ShownInPlace DEF Placed, InPlace
<1>3. \A row : InPlace(t, row) =>
          Covering(marks, row) = IF row = NoRow \/ mark = None THEN {} ELSE {mark}
    BY DEF InPlace, Covering
<1>4. new = IF stale \/ (old = NoRow /\ fresh = NoRow) THEN rows ELSE [rows EXCEPT ![t] = fresh]
    BY DEF Land
<1>5. hid <=> rows[t] # NoRow /\ old = NoRow /\ (sig.row = NoRow \/ mark = None)
    BY <1>2, <1>3 DEF Hidden, Conceals
<1>6. fresh = IF sig.row = NoRow \/ mark = None THEN NoRow ELSE sig.row
    BY <1>2, <1>3
<1>7. stale <=> mark # None /\ (sig.row # NoRow \/ old # NoRow) /\ sig.at <= mark
    BY <1>2, <1>3
<1> HIDE DEF new, old, fresh, stale, hid, mark, p, t
<1>8. fresh \in {sig.row, NoRow} /\ InPlace(t, fresh) /\ fresh \in Todo \cup {NoRow}
    BY <1>2, <1>6 DEF InPlace
<1>9. \/ new = rows
      \/ new = [rows EXCEPT ![t] = fresh]
    BY <1>4
<1>10. /\ new \in [TodoIds -> Todo \cup {NoRow}]
       /\ \A u \in TodoIds : u # t => new[u] = rows[u]
       /\ new[t] \in {rows[t], fresh}
    BY <1>1, <1>8, <1>9
<1>11. Placed(new)
    <2>1. \A u \in TodoIds : InPlace(u, rows[u])
        BY DEF Placed
    <2>2. \A u \in TodoIds : InPlace(u, new[u])
        BY <1>8, <1>10, <2>1
    <2> QED
        BY <1>10, <2>2 DEF Placed
<1>12. new[t] = IF stale \/ (old = NoRow /\ fresh = NoRow) THEN rows[t] ELSE fresh
    BY <1>1, <1>4
<1>13. new[t] = IF sig.at <= mark \/ hid THEN rows[t] ELSE IF mark = None THEN NoRow ELSE sig.row
    <2>1. CASE mark = None
        <3>1. ~(sig.at <= mark) /\ ~stale /\ fresh = NoRow
            BY <1>1, <1>6, <1>7, <2>1 DEF None
        <3>2. hid <=> rows[t] # NoRow /\ old = NoRow
            BY <1>5, <2>1
        <3> QED
            BY <1>12, <2>1, <3>1, <3>2
    <2>2. CASE mark # None /\ sig.at <= mark
        BY <1>6, <1>7, <1>12, <2>2
    <2>3. CASE mark # None /\ ~(sig.at <= mark)
        <3>1. ~stale /\ fresh = sig.row /\ (hid <=> rows[t] # NoRow /\ old = NoRow /\ sig.row = NoRow)
            BY <1>5, <1>6, <1>7, <2>3
        <3> QED
            BY <1>12, <2>3, <3>1
    <2> QED
        BY <2>1, <2>2, <2>3
<1> QED
    BY <1>10, <1>11, <1>13 DEF new, hid, mark, p, t

\* The races an event leaves: those of its row it settles, adds to or leaves alone.
LEMMA RacedTells ==
    ASSUME NEW races \in [TodoIds -> SUBSET Races], NEW rows, NEW marks,
           NEW sig, sig.todo \in TodoIds
    PROVE  LET new == RacedBy(races, rows, marks, sig)
               t == sig.todo
               mark == marks[ProjectOf[t]]
           IN  /\ new \in [TodoIds -> SUBSET Races]
               /\ \A u \in TodoIds : u # t => new[u] = races[u]
               /\ sig.at <= mark => new[t] = races[t]
               /\ ~(sig.at <= mark) /\ Conceals(rows, marks, sig) =>
                    new[t] = races[t] \cup {"hidden-row"}
               /\ ~(sig.at <= mark) /\ ~Conceals(rows, marks, sig) => new[t] = {}
<1> DEFINE mark == marks[ProjectOf[sig.todo]]
           hid == Hidden(rows, sig.todo) /\ Covering(marks, sig.row) = {}
           left == IF sig.at <= mark THEN races[sig.todo]
                   ELSE IF hid THEN races[sig.todo] \cup {"hidden-row"} ELSE {}
<1>1. RacedBy(races, rows, marks, sig) = [races EXCEPT ![sig.todo] = left]
    BY DEF RacedBy
<1>2. left \in SUBSET Races
    BY DEF Races
<1> HIDE DEF left
<1>3. /\ [races EXCEPT ![sig.todo] = left] \in [TodoIds -> SUBSET Races]
      /\ \A u \in TodoIds : [races EXCEPT ![sig.todo] = left][u] = IF u = sig.todo THEN left ELSE races[u]
    BY <1>2
<1> QED
    BY <1>1, <1>3 DEF left, Conceals

LEMMA AdvancedTells ==
    ASSUME NEW marks \in MarkSet, NEW covered, NEW at \in Nat
    PROVE  /\ Advanced(marks, covered, at) \in MarkSet
           /\ \A p \in ProjectIds :
                Advanced(marks, covered, at)[p] = IF p \in covered /\ marks[p] < at THEN at ELSE marks[p]
<1>1. ASSUME NEW p \in ProjectIds
      PROVE  /\ marks[p] \in Nat \cup {None} /\ marks[p] \in Int
             /\ Max({marks[p], at}) = IF marks[p] < at THEN at ELSE marks[p]
    <2>1. marks[p] \in Nat \cup {None} /\ marks[p] \in Int
        BY DEF MarkSet, None
    <2> QED
        BY <2>1, MaxOfTwo
<1> QED
    BY <1>1 DEF Advanced, MarkSet

\* Rows that hold at a mark hold there after the signal; and at the signal's position,
\* when the mark covers every signal before it.
LEMMA LandHolds ==
    ASSUME WBase, NEW k \in DOMAIN journal, journal[k].kind = "Event",
           NEW rows, Placed(rows), NEW races \in [TodoIds -> SUBSET Races], NEW marks \in MarkSet,
           NEW p \in ProjectIds, marks[p] # None, RowsHold(rows, races, p, marks[p])
    PROVE  LET sig == journal[k]
               new == Land(rows, marks, sig)
               left == RacedBy(races, rows, marks, sig)
           IN  /\ RowsHold(new, left, p, marks[p])
               /\ (\A j \in 1 .. k - 1 : journal[j].at <= marks[p]) =>
                    RowsHold(new, left, p, IF marks[p] < sig.at THEN sig.at ELSE marks[p])
<1> DEFINE sig == journal[k]
           t == sig.todo
           mark == marks[p]
           old == Len(events)
           new == Land(rows, marks, sig)
           left == RacedBy(races, rows, marks, sig)
           hid == Conceals(rows, marks, sig)
<1>1. /\ t \in TodoIds /\ sig.at \in 1 .. old /\ InPlace(t, sig.row) /\ old \in Nat
      /\ \E n \in sig.at .. old : sig.row = HeldAt(events, t, n)
    BY SignalTells DEF WBase, LogRows, ServerInv, ServerTypeOK
<1>2. mark \in Nat
    BY DEF MarkSet
<1>3. /\ \A u \in TodoIds : u # t => new[u] = rows[u] /\ left[u] = races[u]
      /\ ProjectOf[t] = p =>
            /\ sig.at <= mark => new[t] = rows[t] /\ left[t] = races[t]
            /\ ~(sig.at <= mark) /\ hid => left[t] = races[t] \cup {"hidden-row"}
            /\ ~(sig.at <= mark) /\ ~hid => new[t] = sig.row /\ left[t] = {}
    <2>1. MutationsAsked /\ sig.at \in Nat
        BY <1>1 DEF WBase
    <2> HIDE DEF sig
    <2>2. /\ \A u \in TodoIds : u # t => new[u] = rows[u]
          /\ sig.at <= marks[ProjectOf[t]] \/ hid => new[t] = rows[t]
          /\ ~(sig.at <= marks[ProjectOf[t]]) /\ ~hid =>
                new[t] = IF marks[ProjectOf[t]] = None THEN NoRow ELSE sig.row
        BY <1>1, <2>1, LandTells
    <2>3. /\ \A u \in TodoIds : u # t => left[u] = races[u]
          /\ sig.at <= marks[ProjectOf[t]] => left[t] = races[t]
          /\ ~(sig.at <= marks[ProjectOf[t]]) /\ hid => left[t] = races[t] \cup {"hidden-row"}
          /\ ~(sig.at <= marks[ProjectOf[t]]) /\ ~hid => left[t] = {}
        BY <1>1, RacedTells
    <2> HIDE DEF new, left, hid
    <2> QED
        BY <2>2, <2>3
<1>4. \A u \in TodoIds : ProjectOf[u] = p /\ races[u] = {} =>
          \E n \in mark .. old : rows[u] = HeldAt(events, u, n)
    BY DEF RowsHold
<1>5. (\A j \in 1 .. k - 1 : journal[j].at <= mark) => \A u : u # t => Silent(u, mark, sig.at)
    BY <1>2, QuietBetween
<1> HIDE DEF new, left, hid, mark, t, sig
<1>6. RowsHold(new, left, p, mark)
    <2>1. SUFFICES ASSUME NEW u \in TodoIds, ProjectOf[u] = p, left[u] = {}
                   PROVE  \E n \in mark .. old : new[u] = HeldAt(events, u, n)
        BY DEF RowsHold
    <2>2. CASE u = t /\ ~(sig.at <= mark)
        <3>1. PICK n \in sig.at .. old : sig.row = HeldAt(events, t, n)
            BY <1>1
        <3>2. n \in mark .. old
            BY <1>1, <1>2, <2>2
        <3>3. new[u] = sig.row
            BY <1>3, <2>1, <2>2
        <3> QED
            BY <2>2, <3>1, <3>2, <3>3
    <2>3. CASE ~(u = t /\ ~(sig.at <= mark))
        <3>1. new[u] = rows[u] /\ races[u] = {}
            BY <1>3, <2>1, <2>3
        <3> QED
            BY <1>4, <2>1, <3>1
    <2> QED
        BY <2>2, <2>3
<1>7. ASSUME \A j \in 1 .. k - 1 : journal[j].at <= mark, mark < sig.at
      PROVE  RowsHold(new, left, p, sig.at)
    <2>1. SUFFICES ASSUME NEW u \in TodoIds, ProjectOf[u] = p, left[u] = {}
                   PROVE  \E n \in sig.at .. old : new[u] = HeldAt(events, u, n)
        BY DEF RowsHold
    <2>2. CASE u = t
        <3>1. ~(sig.at <= mark)
            BY <1>1, <1>2, <1>7
        <3>2. new[t] = sig.row
            BY <1>3, <2>1, <2>2, <3>1
        <3> QED
            BY <1>1, <2>2, <3>2
    <2>3. CASE u # t
        <3>1. new[u] = rows[u] /\ races[u] = {}
            BY <1>3, <2>1, <2>3
        <3>2. PICK n \in mark .. old : rows[u] = HeldAt(events, u, n)
            BY <1>4, <2>1, <3>1
        <3>3. CASE n >= sig.at
            BY <1>1, <1>2, <3>1, <3>2, <3>3
        <3>4. CASE n < sig.at
            <4>1. Silent(u, mark, sig.at)
                BY <1>5, <1>7, <2>3
            <4>2. \A i \in n + 1 .. sig.at : ~Names(events[i], "Todo", u)
                BY <1>1, <1>2, <3>2, <4>1 DEF Silent
            <4>3. HeldAt(events, u, sig.at) = HeldAt(events, u, n)
                BY <1>1, <1>2, <3>2, <3>4, <4>2, HeldQuiet
            <4> QED
                BY <1>1, <3>1, <3>2, <4>3
        <3> QED
            BY <1>1, <1>2, <3>2, <3>3, <3>4
    <2> QED
        BY <2>2, <2>3
<1>8. RowsHold(new, left, p, IF mark < sig.at THEN sig.at ELSE mark) \/ ~(\A j \in 1 .. k - 1 : journal[j].at <= mark)
    BY <1>6, <1>7
<1> QED
    BY <1>6, <1>8 DEF new, left, mark, t, sig

-----------------------------------------------------------------------------
(* The drain *)

LEMMA ApplyEventKeeps ==
    ASSUME WBase, ApplyEvent
    PROVE  WBase' /\ (MarksHold => MarksHold')
<1> DEFINE k == applied + 1
           sig == journal[k]
           t == sig.todo
           marks == coverage.marks
           old == Len(events)
           next(p) == IF marks[p] < sig.at THEN sig.at ELSE marks[p]
<1>1. /\ k \in DOMAIN journal /\ sig.kind = "Event" /\ applied \in Nat
      /\ DOMAIN journal = 1 .. Len(journal) /\ Len(journal) \in Nat
      /\ applied' = k /\ synced' = Land(synced, marks, sig)
      /\ raced' = RacedBy(raced, synced, marks, sig)
      /\ UNCHANGED <<server, mutations, journal, ingested, generation, slice, writes>>
    BY DEF ApplyEvent, WBase, JournalTells
<1>2. coverage' = [coverage EXCEPT !.marks = Advanced(@, Covered(marks), sig.at)]
    BY DEF ApplyEvent
<1>3. /\ coverage \in [gen : 0 .. generation, marks : MarkSet] /\ marks \in MarkSet
    BY DEF WBase, MarksCoverApplied, MarkSet
<1>4. events' = events /\ old \in Nat
    BY <1>1 DEF server, WBase, LogRows, ServerInv, ServerTypeOK
<1>5. t \in TodoIds /\ sig.at \in 1 .. old /\ InPlace(t, sig.row)
    BY <1>1, SignalTells
<1>6. /\ coverage' \in [gen : 0 .. generation, marks : MarkSet] /\ coverage'.gen = coverage.gen
      /\ \A p \in ProjectIds : coverage'.marks[p] = IF marks[p] # None THEN next(p) ELSE None
    <2> DEFINE advanced == Advanced(marks, Covered(marks), sig.at)
    <2>1. advanced \in MarkSet
        BY <1>3, <1>5, AdvancedTells
    <2>2. \A p \in ProjectIds : advanced[p] = IF p \in Covered(marks) /\ marks[p] < sig.at THEN sig.at ELSE marks[p]
        BY <1>3, <1>5, AdvancedTells
    <2>3. \A p \in ProjectIds : p \in Covered(marks) <=> marks[p] # None
        BY DEF Covered
    <2>4. coverage' = [coverage EXCEPT !.marks = advanced]
        BY <1>2
    <2> HIDE DEF advanced
    <2>5. coverage' = [gen |-> coverage.gen, marks |-> advanced]
        BY <1>3, <2>4
    <2> QED
        BY <1>3, <2>1, <2>2, <2>3, <2>5
<1>7. Placed(synced') /\ raced' \in [TodoIds -> SUBSET Races]
    <2>1. Placed(synced) /\ MutationsAsked /\ raced \in [TodoIds -> SUBSET Races]
        BY DEF WBase, RowsInPlace, Placed
    <2> HIDE DEF sig, t, marks
    <2>2. Placed(synced')
        BY <1>1, <1>3, <1>5, <2>1, LandTells DEF t
    <2>3. raced' \in [TodoIds -> SUBSET Races]
        BY <1>1, <1>5, <2>1, RacedTells DEF t
    <2> QED
        BY <2>2, <2>3
<1>8. MarksCoverApplied'
    <2>1. ASSUME coverage.gen = generation, NEW p \in ProjectIds, coverage'.marks[p] # None
          PROVE  coverage'.marks[p] <= old /\ \A j \in 1 .. k : journal[j].at <= coverage'.marks[p]
        <3>1. marks[p] # None /\ coverage'.marks[p] = next(p)
            BY <1>6, <2>1
        <3>2. marks[p] \in Nat /\ marks[p] <= old /\ \A j \in 1 .. applied : journal[j].at <= marks[p]
            BY <1>3, <2>1, <3>1 DEF WBase, MarksCoverApplied, MarkSet
        <3>3. ASSUME NEW j \in 1 .. applied PROVE journal[j].at <= next(p)
            <4>1. journal[j] \in Signal
                BY <1>1 DEF WBase, JournalTells
            <4>2. journal[j].at \in Nat
                BY <4>1 DEF Signal
            <4> HIDE DEF sig, marks
            <4> QED
                BY <1>5, <3>2, <4>2
        <3> HIDE DEF marks
        <3>4. sig.at <= next(p) /\ next(p) <= old
            BY <1>5, <3>2
        <3>5. \A j \in 1 .. k : j \in 1 .. applied \/ j = k
            BY <1>1
        <3> HIDE DEF next
        <3> QED
            BY <3>1, <3>3, <3>4, <3>5
    <2> QED
        BY <1>1, <1>4, <1>6, <2>1 DEF MarksCoverApplied, MarkSet
<1>9. JournalTells'
    BY <1>1, <1>4 DEF WBase, JournalTells
<1>10. SliceTells'
    <2>1. ASSUME slice # NoSlice, coverage.gen = generation, coverage.marks[slice.project] = None
          PROVE  coverage'.marks[slice.project] = None
        BY <1>6, <2>1 DEF WBase, SliceTells
    <2> QED
        BY <1>1, <1>4, <1>6, <2>1 DEF WBase, SliceTells
<1>11. LogRows' /\ RowsInPlace' /\ MutationsAsked'
    BY <1>1, <1>4, <1>7, LogStands, AskedStand DEF WBase, RowsInPlace, Placed
<1>12. ASSUME MarksHold PROVE MarksHold'
    <2>1. SUFFICES ASSUME coverage.gen = generation, NEW p \in ProjectIds, marks[p] # None
                   PROVE  RowsHold(synced', raced', p, next(p))
        BY <1>1, <1>4, <1>6 DEF MarksHold, RowsHold
    <2>2. RowsHold(synced, raced, p, marks[p])
        BY <1>12, <2>1 DEF MarksHold
    <2>3. \A j \in 1 .. k - 1 : journal[j].at <= marks[p]
        BY <1>1, <2>1 DEF WBase, MarksCoverApplied
    <2>4. Placed(synced) /\ raced \in [TodoIds -> SUBSET Races]
        BY DEF WBase, RowsInPlace, Placed
    <2> QED
        BY <1>1, <1>3, <2>1, <2>2, <2>3, <2>4, LandHolds
<1> QED
    BY <1>8, <1>9, <1>10, <1>11, <1>12 DEF WBase

LEMMA ApplySnapshotKeeps ==
    ASSUME WBase, ApplySnapshot
    PROVE  WBase' /\ (MarksHold => MarksHold')
<1> DEFINE k == applied + 1
           sig == journal[k]
           left == [p \in ProjectIds |-> IF coverage.marks[p] >= sig.at THEN coverage.marks[p] ELSE None]
           kept == IF coverage.gen < generation THEN NoCoverage(generation)
                   ELSE [coverage EXCEPT !.marks = left]
           show == [t \in TodoIds |-> Shown(synced, t)]
           rows == [t \in TodoIds |-> IF Covering(kept.marks, show[t]) # {} THEN show[t] ELSE NoRow]
           races == [t \in TodoIds |-> IF kept.marks[ProjectOf[t]] = None THEN {}
                                       ELSE IF show[t] = synced[t] THEN raced[t]
                                       ELSE raced[t] \cup {"kept-row"}]
           old == Len(events)
<1>1. /\ k \in DOMAIN journal /\ sig.kind = "Snapshot" /\ applied \in Nat
      /\ DOMAIN journal = 1 .. Len(journal) /\ Len(journal) \in Nat
      /\ applied' = k /\ synced' = rows /\ raced' = races /\ coverage' = kept
      /\ UNCHANGED <<server, mutations, journal, ingested, generation, slice, writes>>
    <2>1. coverage' = kept
        BY DEF ApplySnapshot
    <2>2. synced' = rows /\ raced' = races
        BY DEF ApplySnapshot
    <2>3. /\ applied < Len(journal) /\ sig.kind = "Snapshot" /\ applied' = k
          /\ UNCHANGED <<server, mutations, journal, ingested, generation, slice, writes>>
        BY DEF ApplySnapshot
    <2>4. journal \in Seq(Signal) /\ applied \in Nat
        BY DEF WBase, JournalTells
    <2> HIDE DEF kept, show, rows, races, sig
    <2>5. k \in DOMAIN journal /\ DOMAIN journal = 1 .. Len(journal) /\ Len(journal) \in Nat
        BY <2>3, <2>4
    <2> QED
        BY <2>1, <2>2, <2>3, <2>4, <2>5
<1>2. coverage \in [gen : 0 .. generation, marks : MarkSet] /\ generation \in Nat
    BY DEF WBase, MarksCoverApplied, MarkSet, JournalTells
<1>3. events' = events /\ old \in Nat
    BY <1>1 DEF server, WBase, LogRows, ServerInv, ServerTypeOK
<1>4. applied = 0 /\ k = 1 /\ sig.at \in Nat
    <2>1. k = 1 /\ sig \in Signal
        BY <1>1 DEF WBase, JournalTells
    <2>2. sig.at \in Nat
        BY <2>1 DEF Signal
    <2> QED
        BY <1>1, <2>1, <2>2
<1>5. /\ kept \in [gen : 0 .. generation, marks : MarkSet]
      /\ \A p \in ProjectIds : kept.marks[p] # None =>
            coverage.gen = generation /\ kept.marks[p] = coverage.marks[p] /\ sig.at <= kept.marks[p]
      /\ \A p \in ProjectIds : coverage.gen = generation /\ coverage.marks[p] = None => kept.marks[p] = None
    <2> HIDE DEF sig
    <2>1. CASE coverage.gen < generation
        BY <1>2, <2>1 DEF NoCoverage, MarkSet
    <2>2. CASE ~(coverage.gen < generation)
        <3>1. left \in MarkSet
            BY <1>2 DEF MarkSet
        <3>2. coverage.gen = generation
            BY <1>2, <2>2
        <3>3. \A p \in ProjectIds : left[p] # None => left[p] = coverage.marks[p] /\ sig.at <= left[p]
            <4>1. \A p \in ProjectIds : coverage.marks[p] \in Int
                BY <1>2 DEF MarkSet, None
            <4> QED
                BY <1>4, <4>1
        <3>4. \A p \in ProjectIds : coverage.marks[p] = None => left[p] = None
            OBVIOUS
        <3> HIDE DEF left
        <3>5. kept = [gen |-> coverage.gen, marks |-> left]
            BY <1>2, <2>2
        <3> QED
            BY <1>2, <3>1, <3>2, <3>3, <3>4, <3>5
    <2> QED
        BY <2>1, <2>2
<1> HIDE DEF kept, left
<1>6. \A t \in TodoIds : InPlace(t, show[t])
    BY ShownInPlace DEF WBase, RowsInPlace
<1>7. RowsInPlace'
    <2>1. ASSUME NEW t \in TodoIds
          PROVE  rows[t] \in Todo \cup {NoRow} /\ InPlace(t, rows[t])
        BY <1>6 DEF InPlace
    <2>3. races \in [TodoIds -> SUBSET Races]
        BY DEF WBase, RowsInPlace, Races
    <2> HIDE DEF show, races
    <2>2. rows \in [TodoIds -> Todo \cup {NoRow}]
        BY <2>1
    <2> QED
        BY <1>1, <2>1, <2>2, <2>3 DEF RowsInPlace
<1>8. MarksCoverApplied'
    <2>1. ASSUME NEW p \in ProjectIds, kept.marks[p] # None
          PROVE  kept.marks[p] <= old /\ \A j \in 1 .. k : journal[j].at <= kept.marks[p]
        BY <1>4, <1>5, <2>1 DEF WBase, MarksCoverApplied
    <2> QED
        BY <1>1, <1>3, <1>5, <2>1 DEF MarksCoverApplied, MarkSet
<1>9. JournalTells'
    BY <1>1, <1>3 DEF WBase, JournalTells
<1>10. SliceTells'
    <2>1. ASSUME slice # NoSlice, slice.gen = generation
          PROVE  kept.marks[slice.project] = None
        <3>1. slice.project \in ProjectIds /\ (coverage.gen = generation => coverage.marks[slice.project] = None)
            BY <2>1 DEF WBase, SliceTells
        <3> QED
            BY <1>5, <3>1
    <2> QED
        BY <1>1, <1>3, <2>1 DEF WBase, SliceTells
<1>11. LogRows' /\ MutationsAsked'
    BY <1>1, <1>3, LogStands, AskedStand DEF WBase
<1>12. ASSUME MarksHold PROVE MarksHold'
    <2>1. SUFFICES ASSUME NEW p \in ProjectIds, kept.marks[p] # None,
                          NEW t \in TodoIds, ProjectOf[t] = p, races[t] = {}
                   PROVE  \E n \in kept.marks[p] .. old : rows[t] = HeldAt(events, t, n)
        BY <1>1, <1>3 DEF MarksHold, RowsHold
    <2>2. coverage.gen = generation /\ kept.marks[p] = coverage.marks[p]
        BY <1>5, <2>1
    <2>3. show[t] = synced[t] /\ raced[t] = {}
        BY <2>1
    <2>4. InPlace(t, show[t])
        BY <1>6
    <2> HIDE DEF show, races
    <2>5. rows[t] = synced[t]
        BY <2>1, <2>3, <2>4 DEF Covering, InPlace
    <2> HIDE DEF rows
    <2>6. RowsHold(synced, raced, p, coverage.marks[p])
        BY <1>12, <2>1, <2>2 DEF MarksHold
    <2> QED
        BY <2>1, <2>2, <2>3, <2>5, <2>6 DEF RowsHold
<1> QED
    BY <1>7, <1>8, <1>9, <1>10, <1>11, <1>12 DEF WBase

-----------------------------------------------------------------------------
(* The replay *)

Start(s) == [rows |-> LandedRows(s), marks |-> LandedMarks(s),
             raced |-> LandedRaces(s)]
Further(s, acc, sig) ==
    IF sig.kind = "Event" /\ sig.at > s.at
    THEN [rows |-> Land(acc.rows, acc.marks, sig),
          marks |-> Advanced(acc.marks, {s.project}, sig.at),
          raced |-> RacedBy(acc.raced, acc.rows, acc.marks, sig)]
    ELSE acc
IsReplay(s, f, k) ==
    f = [n \in 0 .. k |-> IF n = 0 THEN Start(s) ELSE Further(s, f[n - 1], journal[n])]

\* The replay is a function over the positions of the journal: there is one.
LEMMA ReplayExists ==
    ASSUME NEW s, NEW k \in Nat
    PROVE  \E f : IsReplay(s, f, k)
<1> DEFINE S == {n \in Nat : \E f : IsReplay(s, f, n)}
<1>1. 0 \in S
    <2>1. IsReplay(s, [n \in 0 .. 0 |-> Start(s)], 0)
        BY DEF IsReplay
    <2> QED
        BY <2>1
<1>2. ASSUME NEW n \in 1 .. k, n - 1 \in S
      PROVE  n \in S
    <2>1. PICK f : IsReplay(s, f, n - 1)
        BY <1>2
    <2> DEFINE g == [i \in 0 .. n |-> IF i < n THEN f[i] ELSE Further(s, f[n - 1], journal[n])]
    <2>2. ASSUME NEW i \in 0 .. n
          PROVE  g[i] = IF i = 0 THEN Start(s) ELSE Further(s, g[i - 1], journal[i])
        <3>1. CASE i < n
            <4>1. i \in 0 .. n - 1 /\ (i # 0 => i - 1 \in 0 .. n /\ i - 1 < n)
                BY <3>1
            <4>2. f[i] = IF i = 0 THEN Start(s) ELSE Further(s, f[i - 1], journal[i])
                BY <2>1, <4>1 DEF IsReplay
            <4> QED
                BY <3>1, <4>1, <4>2
        <3>2. CASE i = n
            <4>1. i # 0 /\ i - 1 \in 0 .. n /\ i - 1 < n /\ ~(i < n)
                BY <3>2
            <4> QED
                BY <3>2, <4>1
        <3> QED
            BY <3>1, <3>2
    <2>3. g = [i \in 0 .. n |-> IF i = 0 THEN Start(s) ELSE Further(s, g[i - 1], journal[i])]
        <3>1. g = [i \in 0 .. n |-> g[i]]
            OBVIOUS
        <3> HIDE DEF g
        <3> QED
            BY <2>2, <3>1
    <2>4. IsReplay(s, g, n)
        BY <2>3 DEF IsReplay
    <2> HIDE DEF g
    <2> QED
        BY <2>4
<1> HIDE DEF S
<1>3. k \in S
    BY <1>1, <1>2, UpTo
<1> QED
    BY <1>3 DEF S

LEMMA ReplayUnfolds ==
    ASSUME NEW s, Len(journal) \in Nat
    PROVE  \E f : /\ Replayed(s) = f[Len(journal)]
                  /\ f[0] = Start(s)
                  /\ \A n \in 1 .. Len(journal) : f[n] = Further(s, f[n - 1], journal[n])
<1> DEFINE f == CHOOSE f : IsReplay(s, f, Len(journal))
<1>1. IsReplay(s, f, Len(journal))
    BY ReplayExists
<1>2. Replayed(s) = f[Len(journal)]
    BY DEF Replayed, IsReplay, Start, Further
<1> HIDE DEF f
<1> QED
    BY <1>1, <1>2 DEF IsReplay

\* What the fetched rows and their position are landed on.
LEMMA LandedTells ==
    ASSUME WBase, slice # NoSlice, slice.gen = generation
    PROVE  LET p == slice.project
               at == slice.at
           IN  /\ p \in ProjectIds /\ at \in 0 .. Len(events)
               /\ Placed(LandedRows(slice))
               /\ LandedMarks(slice) \in MarkSet
               /\ LandedMarks(slice)[p] = at
               /\ \A q \in ProjectIds : q # p =>
                    LandedMarks(slice)[q] = IF coverage.gen = generation THEN coverage.marks[q] ELSE None
<1> DEFINE p == slice.project
           at == slice.at
           base == IF Reset(slice) THEN NoCoverage(slice.gen).marks ELSE coverage.marks
           landed == LandedRows(slice)
<1>1. /\ p \in ProjectIds /\ at \in 0 .. Len(events) /\ Len(events) \in Nat
      /\ slice.rows = [t \in TodoIds |-> IF ProjectOf[t] = p THEN HeldAt(events, t, at) ELSE NoRow]
      /\ coverage.gen = generation => coverage.marks[p] = None
    BY DEF WBase, SliceTells, LogRows, ServerInv, ServerTypeOK
<1>2. /\ coverage \in [gen : 0 .. generation, marks : MarkSet] /\ generation \in Nat
    BY DEF WBase, MarksCoverApplied, MarkSet, JournalTells
<1>3. Reset(slice) <=> coverage.gen # generation
    BY <1>2 DEF Reset
<1>4. /\ base \in MarkSet
      /\ \A q \in ProjectIds : base[q] = IF coverage.gen = generation THEN coverage.marks[q] ELSE None
    BY <1>2, <1>3 DEF NoCoverage, MarkSet
<1>5. LandedMarks(slice) = Advanced(base, {p}, at)
    BY DEF LandedMarks
<1>6. base[p] = None /\ base[p] < at
    BY <1>1, <1>4 DEF None
<1>7. ASSUME NEW t \in TodoIds
      PROVE  landed[t] \in Todo \cup {NoRow} /\ InPlace(t, landed[t])
    <2>1. InPlace(t, slice.rows[t])
        BY <1>1, HeldInPlace DEF WBase, InPlace
    <2>2. InPlace(t, synced[t]) /\ synced[t] \in Todo \cup {NoRow}
        BY DEF WBase, RowsInPlace
    <2>3. landed[t] \in {slice.rows[t], NoRow, synced[t]}
        BY DEF LandedRows
    <2> QED
        BY <2>1, <2>2, <2>3 DEF InPlace
<1>8. Placed(landed)
    <2>1. landed = [t \in TodoIds |-> landed[t]]
        BY DEF LandedRows
    <2> HIDE DEF landed
    <2> QED
        BY <1>7, <2>1 DEF Placed
<1> HIDE DEF base
<1>9. /\ LandedMarks(slice) \in MarkSet
      /\ \A q \in ProjectIds : LandedMarks(slice)[q] = IF q \in {p} /\ base[q] < at THEN at ELSE base[q]
    BY <1>1, <1>4, <1>5, AdvancedTells
<1> QED
    BY <1>1, <1>4, <1>6, <1>8, <1>9

\* Landed, they hold: the fetched project at the fetch, the others where they held.
LEMMA LandedHold ==
    ASSUME WBase, MarksHold, slice # NoSlice, slice.gen = generation,
           NEW q \in ProjectIds, LandedMarks(slice)[q] # None
    PROVE  RowsHold(LandedRows(slice), LandedRaces(slice), q, LandedMarks(slice)[q])
<1> DEFINE p == slice.project
           at == slice.at
           landed == LandedRows(slice)
           left == LandedRaces(slice)
<1>1. /\ p \in ProjectIds /\ at \in 0 .. Len(events)
      /\ LandedMarks(slice)[p] = at
      /\ q # p => coverage.gen = generation /\ LandedMarks(slice)[q] = coverage.marks[q]
    BY LandedTells
<1>2. slice.rows = [t \in TodoIds |-> IF ProjectOf[t] = p THEN HeldAt(events, t, at) ELSE NoRow]
    BY DEF WBase, SliceTells
<1>3. ASSUME NEW t \in TodoIds
      PROVE  landed[t] = IF slice.rows[t] # NoRow THEN slice.rows[t]
                         ELSE IF Shown(synced, t) # NoRow /\ (Reset(slice) \/ Shown(synced, t).project = p)
                         THEN NoRow ELSE synced[t]
    BY DEF LandedRows
<1>4. ASSUME NEW t \in TodoIds
      PROVE  /\ InPlace(t, Shown(synced, t))
             /\ left[t] = IF ~Reset(slice) /\ ProjectOf[t] # p THEN raced[t]
                          ELSE IF slice.rows[t] = NoRow /\ Hidden(synced, t)
                          THEN raced[t] \cup {"hidden-row"} ELSE {}
    BY ShownInPlace DEF LandedRaces, WBase, RowsInPlace
<1>5. Reset(slice) <=> coverage.gen # generation
    BY DEF Reset, WBase, MarksCoverApplied, JournalTells
<1> HIDE DEF landed, left, p, at
<1>6. CASE q = p
    <2>1. ASSUME NEW t \in TodoIds, ProjectOf[t] = p, left[t] = {}
          PROVE  landed[t] = HeldAt(events, t, at)
        <3>1. slice.rows[t] = HeldAt(events, t, at)
            BY <1>2, <2>1
        <3>2. slice.rows[t] = NoRow => ~Hidden(synced, t)
            BY <1>4, <2>1
        <3> QED
            BY <1>3, <1>4, <2>1, <3>1, <3>2 DEF InPlace, Hidden
    <2>2. at \in at .. Len(events)
        BY <1>1
    <2> QED
        BY <1>1, <1>6, <2>1, <2>2 DEF RowsHold, landed, left
<1>7. CASE q # p
    <2>1. coverage.gen = generation /\ LandedMarks(slice)[q] = coverage.marks[q]
        BY <1>1, <1>7
    <2>2. ASSUME NEW t \in TodoIds, ProjectOf[t] = q
          PROVE  landed[t] = synced[t] /\ left[t] = raced[t]
        BY <1>2, <1>3, <1>4, <1>5, <1>7, <2>1, <2>2 DEF InPlace
    <2>3. RowsHold(synced, raced, q, coverage.marks[q])
        BY <2>1 DEF MarksHold
    <2> QED
        BY <2>1, <2>2, <2>3 DEF RowsHold, landed, left
<1> QED
    BY <1>6, <1>7

\* What was brought by an event, unless a recovery has kept what the device showed.
FromLog(rows, races) ==
    \A t \in TodoIds : rows[t] # NoRow /\ "kept-row" \notin races[t] =>
        \E n \in DOMAIN events : Names(events[n], "Todo", t) /\ events[n].row = rows[t]

\* What the replay keeps true after the first n signals.
ReplayKeeps(acc, n) ==
    /\ Placed(acc.rows) /\ acc.marks \in MarkSet /\ acc.raced \in [TodoIds -> SUBSET Races]
    /\ \A q \in ProjectIds : q # slice.project => acc.marks[q] = LandedMarks(slice)[q]
    /\ acc.marks[slice.project] \in 0 .. Len(events)
    /\ slice.at <= acc.marks[slice.project]
    /\ \A j \in 1 .. n : journal[j].at <= acc.marks[slice.project]
    /\ MarksHold =>
        \A q \in ProjectIds : acc.marks[q] # None => RowsHold(acc.rows, acc.raced, q, acc.marks[q])
    /\ FromLog(synced, raced) => FromLog(acc.rows, acc.raced)

LEMMA HeldIsFromLog ==
    ASSUME LogRows, NEW t \in TodoIds, NEW n \in 0 .. Len(events), HeldAt(events, t, n) # NoRow
    PROVE  \E i \in DOMAIN events : Names(events[i], "Todo", t) /\ events[i].row = HeldAt(events, t, n)
<1>1. Len(events) \in Nat /\ DOMAIN events = 1 .. Len(events)
    BY DEF LogRows, ServerInv, ServerTypeOK
<1>2. PICK i \in 1 .. n : Names(events[i], "Todo", t) /\ events[i].row = HeldAt(events, t, n)
    BY <1>1, HeldFrom
<1> QED
    BY <1>1, <1>2

\* An event leaves rows of the log.
LEMMA LandFromLog ==
    ASSUME MutationsAsked, NEW rows, Placed(rows), NEW races \in [TodoIds -> SUBSET Races],
           NEW marks \in MarkSet, NEW sig, sig.todo \in TodoIds, sig.at \in Nat, InPlace(sig.todo, sig.row),
           sig.row # NoRow =>
              \E n \in DOMAIN events : Names(events[n], "Todo", sig.todo) /\ events[n].row = sig.row,
           FromLog(rows, races)
    PROVE  FromLog(Land(rows, marks, sig), RacedBy(races, rows, marks, sig))
<1> DEFINE t == sig.todo
           mark == marks[ProjectOf[t]]
           hid == Conceals(rows, marks, sig)
           new == Land(rows, marks, sig)
           left == RacedBy(races, rows, marks, sig)
<1>1. /\ \A u \in TodoIds : u # t => new[u] = rows[u]
      /\ sig.at <= mark \/ hid => new[t] = rows[t]
      /\ ~(sig.at <= mark) /\ ~hid => new[t] \in {NoRow, sig.row}
    BY LandTells
<1>2. /\ \A u \in TodoIds : u # t => left[u] = races[u]
      /\ sig.at <= mark => left[t] = races[t]
      /\ ~(sig.at <= mark) /\ hid => left[t] = races[t] \cup {"hidden-row"}
    BY RacedTells
<1> HIDE DEF new, left, hid, mark
<1>3. ASSUME NEW u \in TodoIds, new[u] # NoRow, "kept-row" \notin left[u]
      PROVE  \E n \in DOMAIN events : Names(events[n], "Todo", u) /\ events[n].row = new[u]
    <2>1. \/ new[u] = rows[u] /\ "kept-row" \notin races[u]
          \/ u = t /\ new[u] = sig.row
        BY <1>1, <1>2, <1>3
    <2>2. CASE new[u] = rows[u] /\ "kept-row" \notin races[u]
        BY <1>3, <2>2 DEF FromLog
    <2>3. CASE u = t /\ new[u] = sig.row
        BY <1>3, <2>3
    <2> QED
        BY <2>1, <2>2, <2>3
<1> QED
    BY <1>3 DEF FromLog, new, left

LEMMA ReplayStarts ==
    ASSUME WBase, slice # NoSlice, slice.gen = generation
    PROVE  ReplayKeeps(Start(slice), 0)
<1> DEFINE rows == LandedRows(slice)
           marks == LandedMarks(slice)
           left == LandedRaces(slice)
           acc == Start(slice)
<1>1. acc.rows = rows /\ acc.marks = marks /\ acc.raced = left
    BY DEF Start
<1>2. /\ slice.project \in ProjectIds /\ slice.at \in 0 .. Len(events) /\ Placed(rows)
      /\ marks \in MarkSet /\ marks[slice.project] = slice.at
    BY LandedTells
<1>3. ASSUME MarksHold, NEW q \in ProjectIds, marks[q] # None
      PROVE  RowsHold(rows, left, q, marks[q])
    BY <1>3, LandedHold
<1>4. ASSUME FromLog(synced, raced) PROVE FromLog(rows, left)
    <2>1. SUFFICES ASSUME NEW t \in TodoIds, rows[t] # NoRow, "kept-row" \notin left[t]
                   PROVE  \E n \in DOMAIN events : Names(events[n], "Todo", t) /\ events[n].row = rows[t]
        BY DEF FromLog
    <2>2. rows[t] = IF slice.rows[t] # NoRow THEN slice.rows[t]
                    ELSE IF Shown(synced, t) # NoRow
                            /\ (Reset(slice) \/ Shown(synced, t).project = slice.project)
                    THEN NoRow ELSE synced[t]
        BY DEF LandedRows
    <2>3. slice.rows[t] = NoRow \/ slice.rows[t] = HeldAt(events, t, slice.at)
        BY DEF WBase, SliceTells
    <2>4. left[t] = IF ~Reset(slice) /\ ProjectOf[t] # slice.project THEN raced[t]
                    ELSE IF slice.rows[t] = NoRow /\ Hidden(synced, t)
                    THEN raced[t] \cup {"hidden-row"} ELSE {}
        BY DEF LandedRaces
    <2>5. InPlace(t, Shown(synced, t))
        BY ShownInPlace DEF WBase, RowsInPlace
    <2> HIDE DEF rows, left
    <2>6. CASE slice.rows[t] # NoRow
        BY <1>2, <2>1, <2>2, <2>3, <2>6, HeldIsFromLog DEF WBase
    <2>7. CASE slice.rows[t] = NoRow
        <3>1. rows[t] = synced[t] /\ synced[t] # NoRow
            BY <2>1, <2>2, <2>7
        <3>2. "kept-row" \notin raced[t]
            BY <2>1, <2>2, <2>4, <2>5, <2>7, <3>1 DEF Hidden, InPlace
        <3> QED
            BY <1>4, <3>1, <3>2 DEF FromLog
    <2> QED
        BY <2>6, <2>7
<1>5. left \in [TodoIds -> SUBSET Races]
    BY DEF LandedRaces, WBase, RowsInPlace, Races
<1> HIDE DEF acc, rows, marks, left
<1>6. \A j \in 1 .. 0 : FALSE
    OBVIOUS
<1>7. marks[slice.project] \in 0 .. Len(events) /\ slice.at <= marks[slice.project]
    BY <1>2
<1>8. ReplayKeeps(acc, 0)
    BY <1>1, <1>2, <1>3, <1>4, <1>5, <1>6, <1>7 DEF ReplayKeeps, marks
<1> QED
    BY <1>8 DEF acc

LEMMA ReplayGoesOn ==
    ASSUME WBase, slice # NoSlice, slice.gen = generation,
           NEW n \in 1 .. Len(journal), NEW acc, ReplayKeeps(acc, n - 1)
    PROVE  ReplayKeeps(Further(slice, acc, journal[n]), n)
<1> DEFINE p == slice.project
           sig == journal[n]
           mark == acc.marks[p]
           old == Len(events)
           rows == Land(acc.rows, acc.marks, sig)
           marks == Advanced(acc.marks, {p}, sig.at)
           left == RacedBy(acc.raced, acc.rows, acc.marks, sig)
           next == Further(slice, acc, sig)
<1>1. /\ n \in DOMAIN journal /\ sig \in Signal /\ old \in Nat
      /\ p \in ProjectIds /\ slice.at \in 0 .. old
      /\ \A j \in 1 .. n : j \in 1 .. n - 1 \/ j = n
    <2>1. journal \in Seq(Signal) /\ old \in Nat
        BY DEF WBase, JournalTells, LogRows, ServerInv, ServerTypeOK
    <2> QED
        BY <2>1 DEF WBase, SliceTells
<1>2. sig.at \in Nat /\ sig.kind \in {"Event", "Snapshot"}
    BY <1>1 DEF Signal
<1>3. /\ Placed(acc.rows) /\ acc.marks \in MarkSet /\ acc.raced \in [TodoIds -> SUBSET Races]
      /\ \A q \in ProjectIds : q # p => acc.marks[q] = LandedMarks(slice)[q]
      /\ mark \in 0 .. old /\ slice.at <= mark
      /\ \A j \in 1 .. n - 1 : journal[j].at <= mark
      /\ FromLog(synced, raced) => FromLog(acc.rows, acc.raced)
    BY DEF ReplayKeeps
<1>4. MarksHold =>
          \A q \in ProjectIds : acc.marks[q] # None => RowsHold(acc.rows, acc.raced, q, acc.marks[q])
    BY DEF ReplayKeeps
<1>5. CASE sig.kind = "Event" /\ sig.at > slice.at
    <2>1. next.rows = rows /\ next.marks = marks /\ next.raced = left
        BY <1>5 DEF Further
    <2>2. /\ sig.todo \in TodoIds /\ sig.at \in 1 .. old /\ InPlace(sig.todo, sig.row)
          /\ \E i \in sig.at .. old : sig.row = HeldAt(events, sig.todo, i)
        BY <1>1, <1>5, SignalTells
    <2>3. /\ Placed(rows) /\ left \in [TodoIds -> SUBSET Races]
          /\ \A u \in TodoIds : u # sig.todo => rows[u] = acc.rows[u] /\ left[u] = acc.raced[u]
          /\ FromLog(acc.rows, acc.raced) => FromLog(rows, left)
        <3>1. MutationsAsked
            BY DEF WBase
        <3>2. sig.row # NoRow =>
                \E i \in DOMAIN events : Names(events[i], "Todo", sig.todo) /\ events[i].row = sig.row
            <4>1. PICK i \in sig.at .. old : sig.row = HeldAt(events, sig.todo, i)
                BY <2>2
            <4>2. i \in 0 .. old
                BY <1>2, <4>1
            <4> QED
                BY <2>2, <4>1, <4>2, HeldIsFromLog DEF WBase
        <3> HIDE DEF sig
        <3>3. Placed(rows) /\ left \in [TodoIds -> SUBSET Races]
            <4>1. Placed(rows)
                BY <1>2, <1>3, <2>2, <3>1, LandTells
            <4>2. left \in [TodoIds -> SUBSET Races]
                BY <1>3, <2>2, RacedTells
            <4> QED
                BY <4>1, <4>2
        <3>4. \A u \in TodoIds : u # sig.todo => rows[u] = acc.rows[u] /\ left[u] = acc.raced[u]
            <4>1. \A u \in TodoIds : u # sig.todo => rows[u] = acc.rows[u]
                BY <1>2, <1>3, <2>2, <3>1, LandTells
            <4>2. \A u \in TodoIds : u # sig.todo => left[u] = acc.raced[u]
                BY <1>3, <2>2, RacedTells
            <4> QED
                BY <4>1, <4>2
        <3>5. FromLog(acc.rows, acc.raced) => FromLog(rows, left)
            BY <1>2, <1>3, <2>2, <3>1, <3>2, LandFromLog
        <3> QED
            BY <3>3, <3>4, <3>5
    <2>4. /\ marks \in MarkSet
          /\ \A q \in ProjectIds : marks[q] = IF q \in {p} /\ acc.marks[q] < sig.at THEN sig.at ELSE acc.marks[q]
        <3> HIDE DEF sig, p
        <3> QED
            BY <1>2, <1>3, AdvancedTells
    <2>5. marks[p] = (IF mark < sig.at THEN sig.at ELSE mark) /\ \A q \in ProjectIds : q # p => marks[q] = acc.marks[q]
        BY <1>1, <2>4
    <2>6. ASSUME MarksHold, NEW q \in ProjectIds, marks[q] # None
          PROVE  RowsHold(rows, left, q, marks[q])
        <3>1. CASE q = p
            <4>1. mark # None /\ RowsHold(acc.rows, acc.raced, p, mark)
                BY <1>1, <1>3, <1>4, <2>6 DEF None
            <4>2. RowsHold(rows, left, p, IF mark < sig.at THEN sig.at ELSE mark)
                BY <1>1, <1>3, <1>5, <4>1, LandHolds
            <4> QED
                BY <2>5, <3>1, <4>2
        <3>2. CASE q # p
            <4>1. marks[q] = acc.marks[q]
                BY <2>5, <3>2
            <4>2. acc.marks[q] # None /\ RowsHold(acc.rows, acc.raced, q, acc.marks[q])
                BY <1>4, <2>6, <4>1
            <4>3. RowsHold(rows, left, q, acc.marks[q])
                BY <1>1, <1>3, <1>5, <4>2, LandHolds
            <4> QED
                BY <4>1, <4>3
        <3> QED
            BY <3>1, <3>2
    <2>7. FromLog(synced, raced) => FromLog(rows, left)
        BY <1>3, <2>3
    <2> HIDE DEF next, rows, marks, left, sig
    <2>9. marks[p] \in 0 .. old /\ slice.at <= marks[p] /\ mark <= marks[p] /\ sig.at <= marks[p]
        BY <1>1, <1>2, <1>3, <2>2, <2>5
    <2>10. \A j \in 1 .. n : journal[j].at <= marks[p]
        <3>1. ASSUME NEW j \in 1 .. n - 1 PROVE journal[j].at <= marks[p]
            <4>1. journal[j] \in Signal
                BY <1>1 DEF WBase, JournalTells
            <4>2. journal[j].at \in Nat /\ journal[j].at <= mark
                BY <1>3, <4>1 DEF Signal
            <4> QED
                BY <1>1, <1>3, <2>9, <4>2
        <3> QED
            BY <1>1, <2>9, <3>1 DEF sig
    <2>11. \A q \in ProjectIds : q # p => marks[q] = LandedMarks(slice)[q]
        BY <1>3, <2>5
    <2>12. ReplayKeeps(next, n)
        BY <2>1, <2>3, <2>4, <2>6, <2>7, <2>9, <2>10, <2>11 DEF ReplayKeeps
    <2> QED
        BY <2>12 DEF next, sig
<1>6. CASE ~(sig.kind = "Event" /\ sig.at > slice.at)
    <2>1. next = acc
        BY <1>6 DEF Further
    <2>2. sig.at <= slice.at
        BY <1>1, <1>2, <1>6 DEF WBase, SliceTells
    <2>3. sig.at <= mark
        BY <1>1, <1>2, <1>3, <2>2
    <2>4. \A j \in 1 .. n : journal[j].at <= mark
        BY <1>1, <1>3, <2>3
    <2> HIDE DEF next
    <2>5. ReplayKeeps(next, n)
        BY <1>3, <1>4, <2>1, <2>4 DEF ReplayKeeps
    <2> QED
        BY <2>5 DEF next
<1> QED
    BY <1>5, <1>6

LEMMA ReplayedKeeps ==
    ASSUME WBase, slice # NoSlice, slice.gen = generation
    PROVE  ReplayKeeps(Replayed(slice), Len(journal))
<1>1. Len(journal) \in Nat
    BY DEF WBase, JournalTells
<1>2. PICK f : /\ Replayed(slice) = f[Len(journal)]
               /\ f[0] = Start(slice)
               /\ \A n \in 1 .. Len(journal) : f[n] = Further(slice, f[n - 1], journal[n])
    BY <1>1, ReplayUnfolds
<1> DEFINE S == {n \in 0 .. Len(journal) : ReplayKeeps(f[n], n)}
<1>3. 0 \in S
    BY <1>1, <1>2, ReplayStarts
<1>4. ASSUME NEW n \in 1 .. Len(journal), n - 1 \in S PROVE n \in S
    BY <1>2, <1>4, ReplayGoesOn
<1>5. Len(journal) \in 0 .. Len(journal)
    BY <1>1
<1> HIDE DEF S
<1>6. Len(journal) \in S
    BY <1>1, <1>3, <1>4, <1>5, UpTo
<1> QED
    BY <1>2, <1>6 DEF S

LEMMA LandSliceKeeps ==
    ASSUME WBase, LandSlice
    PROVE  WBase' /\ (MarksHold => MarksHold')
<1> DEFINE p == slice.project
           done == Replayed(slice)
           old == Len(events)
<1>1. /\ slice # NoSlice /\ slice.gen = generation
      /\ synced' = done.rows /\ raced' = done.raced
      /\ coverage' = [gen |-> slice.gen, marks |-> done.marks] /\ slice' = NoSlice
      /\ UNCHANGED <<server, mutations, journal, applied, ingested, generation, writes>>
    BY DEF LandSlice
<1>2. ReplayKeeps(done, Len(journal))
    BY <1>1, ReplayedKeeps
<1> HIDE DEF done
<1>3. /\ Placed(done.rows) /\ done.raced \in [TodoIds -> SUBSET Races] /\ done.marks \in MarkSet
      /\ \A q \in ProjectIds : q # p => done.marks[q] = LandedMarks(slice)[q]
      /\ done.marks[p] \in 0 .. old
      /\ \A j \in 1 .. Len(journal) : journal[j].at <= done.marks[p]
    BY <1>2 DEF ReplayKeeps
<1>4. events' = events /\ NoSlice' = NoSlice /\ old \in Nat
    BY <1>1 DEF server, NoSlice, WBase, LogRows, ServerInv, ServerTypeOK
<1>5. /\ coverage'.gen = generation /\ coverage'.marks = done.marks /\ generation \in Nat
      /\ coverage' \in [gen : 0 .. generation, marks : MarkSet]
    <2>1. generation \in Nat
        BY DEF WBase, JournalTells
    <2> QED
        BY <1>1, <1>3, <2>1
<1>6. ASSUME NEW q \in ProjectIds, q # p, done.marks[q] # None
      PROVE  coverage.gen = generation /\ done.marks[q] = coverage.marks[q]
    BY <1>1, <1>3, <1>6, LandedTells
<1>7. MarksCoverApplied'
    <2>1. applied \in 0 .. Len(journal) /\ Len(journal) \in Nat
        BY DEF WBase, JournalTells
    <2>2. ASSUME NEW q \in ProjectIds, done.marks[q] # None
          PROVE  done.marks[q] <= old /\ \A k \in 1 .. applied : journal[k].at <= done.marks[q]
        <3>1. CASE q = p
            BY <1>3, <1>4, <2>1, <3>1
        <3>2. CASE q # p
            BY <1>6, <2>2, <3>2 DEF WBase, MarksCoverApplied
        <3> QED
            BY <3>1, <3>2
    <2> QED
        BY <1>1, <1>4, <1>5, <2>2 DEF MarksCoverApplied, MarkSet
<1>8. RowsInPlace'
    BY <1>1, <1>3 DEF RowsInPlace, Placed
<1>9. SliceTells'
    BY <1>1, <1>4 DEF SliceTells
<1>10. LogRows' /\ MutationsAsked' /\ JournalTells'
    BY <1>1, <1>4, LogStands, AskedStand, JournalStands DEF WBase
<1>11. ASSUME MarksHold PROVE MarksHold'
    <2>1. SUFFICES ASSUME NEW q \in ProjectIds, done.marks[q] # None
                   PROVE  RowsHold(done.rows, done.raced, q, done.marks[q])
        BY <1>1, <1>4, <1>5 DEF MarksHold, RowsHold
    <2> QED
        BY <1>2, <1>11, <2>1 DEF ReplayKeeps
<1> QED
    BY <1>7, <1>8, <1>9, <1>10, <1>11 DEF WBase

-----------------------------------------------------------------------------
(* The theorems *)

LEMMA WStarts == WInit => WBase /\ MarksHold /\ FromLog(synced, raced)
<1>1. SUFFICES ASSUME WInit PROVE WBase /\ MarksHold /\ FromLog(synced, raced)
    OBVIOUS
<1>2. /\ events = <<>> /\ mutations = <<>> /\ journal = <<>> /\ Len(events) = 0
      /\ synced = [t \in TodoIds |-> NoRow] /\ todos = [t \in TodoIds |-> NoRow]
      /\ applied = 0 /\ ingested = 0 /\ generation = 0 /\ slice = NoSlice /\ writes = 0
      /\ coverage = NoCoverage(0) /\ raced = [t \in TodoIds |-> {}]
    BY <1>1 DEF WInit, ServerInit
<1>3. ServerInv
    BY <1>1, ServerConstants DEF WInit, ServerInit, ServerInv, ServerTypeOK, TodosHaveTheirProject,
       LogTellsTables, Alive
<1>4. \A t \in TodoIds : HeldAt(events, t, 0) = NoRow
    BY HeldLatest
<1>5. LogRows
    BY <1>2, <1>3, <1>4 DEF LogRows
<1>6. MutationsAsked /\ RowsInPlace /\ SliceTells
    BY <1>2 DEF MutationsAsked, RowsInPlace, SliceTells, InPlace
<1>7. JournalTells
    BY <1>2 DEF JournalTells
<1>8. coverage \in [gen : 0 .. 0, marks : MarkSet] /\ \A p \in ProjectIds : coverage.marks[p] = None
    BY <1>2 DEF NoCoverage, MarkSet
<1>9. MarksCoverApplied /\ MarksHold
    BY <1>2, <1>8 DEF MarksCoverApplied, MarksHold, MarkSet
<1>10. FromLog(synced, raced)
    BY <1>2 DEF FromLog
<1> QED
    BY <1>5, <1>6, <1>7, <1>9, <1>10 DEF WBase

\* Every step keeps what the device knows, and what its marks say.
LEMMA WSteps ==
    ASSUME WBase, [WNext]_wvars
    PROVE  WBase' /\ (MarksHold => MarksHold')
<1>1. CASE UNCHANGED wvars
    <2>1. UNCHANGED <<server, mutations, synced, coverage, journal, applied, ingested, generation, slice, raced, writes>>
        BY <1>1 DEF wvars, server
    <2>2. events' = events
        BY <2>1 DEF server
    <2> QED
        BY <2>1, <2>2, LogStands, AskedStand, JournalStands, RowsStand, MarksStand, SliceStands, HoldStands
        DEF WBase
<1>2. ASSUME NEW p \in ProjectIds, ProjectWrite(p) \/ FetchSlice(p)
      PROVE  WBase' /\ (MarksHold => MarksHold')
    BY <1>2, ProjectWriteKeeps, FetchKeeps
<1>3. ASSUME NEW t \in TodoIds, Insert(t) \/ Update(t) \/ Delete(t) \/ Elsewhere(t)
      PROVE  WBase' /\ (MarksHold => MarksHold')
    BY <1>3, InsertKeeps, ElsewhereKeeps
<1>4. ASSUME NEW i \in DOMAIN mutations, Confirm(i) \/ Fails(i) \/ Settle(i)
      PROVE  WBase' /\ (MarksHold => MarksHold')
    BY <1>4, ConfirmKeeps, FailsKeeps, SettleKeeps
<1>5. CASE Receive \/ Recover \/ LoseSlice
    BY <1>5, ReceiveKeeps, RecoverKeeps, LoseKeeps
<1>6. CASE ApplyEvent \/ ApplySnapshot \/ LandSlice
    BY <1>6, ApplyEventKeeps, ApplySnapshotKeeps, LandSliceKeeps
<1> QED
    BY <1>1, <1>2, <1>3, <1>4, <1>5, <1>6 DEF WNext

LEMMA WBaseHolds == WSpec => []WBase
<1>1. WInit => WBase
    BY WStarts
<1>2. WBase /\ [WNext]_wvars => WBase'
    BY WSteps
<1> QED
    BY <1>1, <1>2, PTL DEF WSpec

\* Types, for any number of devices' requests, mutations and recoveries.
THEOREM WritesAreTyped == WSpec => []WriteTypeOK
<1>1. WBase => WriteTypeOK
    BY DEF WBase, LogRows, ServerInv, MutationsAsked, JournalTells, RowsInPlace, MarksCoverApplied,
       WriteTypeOK
<1> QED
    BY <1>1, WBaseHolds, PTL

\* A device's requests are requests like any other: what it does to the server, the
\* server may do, and the tables and the log agree whatever it writes.
THEOREM WritesAreRequests == WSpec => ServerSpec /\ [](TodosHaveTheirProject /\ LogTellsTables)
<1>1. WInit => ServerInit
    BY DEF WInit
<1>2. WBase => TodosHaveTheirProject /\ LogTellsTables
    BY DEF WBase, LogRows, ServerInv
<1>3. WBase /\ [WNext]_wvars => [ServerNext]_server
    <2>1. SUFFICES ASSUME WBase, WNext, ~UNCHANGED server PROVE ServerNext
        BY DEF wvars, server
    <2>2. writes \in Nat
        BY <2>1 DEF WBase, MutationsAsked
    <2>3. ASSUME NEW p \in ProjectIds, ProjectWrite(p)
          PROVE  ServerNext
        BY <2>3 DEF ProjectWrite, ServerNext
    <2>4. ASSUME NEW t \in TodoIds, Elsewhere(t)
          PROVE  ServerNext
        <3> DEFINE row == [project |-> ProjectOf[t], version |-> writes + 1]
        <3>1. row \in Todo
            BY <2>2, FreshRow
        <3>2. RemoveTodo(t) \/ UpsertTodo(t, row)
            BY <2>4 DEF Elsewhere
        <3> HIDE DEF row
        <3> QED
            BY <3>1, <3>2 DEF ServerNext
    <2>5. ASSUME NEW i \in DOMAIN mutations, Confirm(i)
          PROVE  ServerNext
        <3> DEFINE m == mutations[i]
        <3>1. m \in Mutation /\ (m.kind = "Delete" <=> m.row = NoRow)
            BY <2>1 DEF WBase, MutationsAsked
        <3>2. IF m.kind = "Delete" THEN RemoveTodo(m.todo) ELSE UpsertTodo(m.todo, m.row)
            BY <2>5 DEF Confirm
        <3> HIDE DEF m
        <3>3. m.todo \in TodoIds /\ m.row \in Todo \cup {NoRow}
            BY <3>1 DEF Mutation
        <3> QED
            BY <3>1, <3>2, <3>3 DEF ServerNext
    <2>6. ASSUME NEW p \in ProjectIds, FetchSlice(p) PROVE FALSE
        BY <2>1, <2>6 DEF FetchSlice
    <2>7. ASSUME NEW t \in TodoIds, Insert(t) \/ Update(t) \/ Delete(t) PROVE FALSE
        BY <2>1, <2>7 DEF Insert, Update, Delete, Mutate
    <2>8. ASSUME NEW i \in DOMAIN mutations, Fails(i) \/ Settle(i) PROVE FALSE
        BY <2>1, <2>8 DEF Fails, Settle
    <2>9. ~(Receive \/ Recover \/ ApplyEvent \/ ApplySnapshot \/ LoseSlice \/ LandSlice)
        BY <2>1 DEF Receive, Recover, ApplyEvent, ApplySnapshot, LoseSlice, LandSlice
    <2> QED
        BY <2>1, <2>3, <2>4, <2>5, <2>6, <2>7, <2>8, <2>9 DEF WNext
<1> QED
    BY <1>1, <1>2, <1>3, WBaseHolds, PTL DEF WSpec, ServerSpec

\* Coverage marks tell the truth whatever the device writes, but for the rows that have
\* lost a race: of a project covered through m every other synced row is what the server
\* held at m or later, for mutations in flight, settled in any order or refused.
THEOREM MarksTellTheTruth == WSpec => []MarksHoldUnderWrites
<1>1. WInit => WBase /\ MarksHold
    BY WStarts
<1>2. WBase /\ MarksHold /\ [WNext]_wvars => WBase' /\ MarksHold'
    BY WSteps
<1>3. WBase /\ MarksHold => MarksHoldUnderWrites
    <2>1. SUFFICES ASSUME WBase, MarksHold, NEW p \in ProjectIds, NEW t \in TodoIds,
                          raced[t] = {}, coverage.gen = generation, coverage.marks[p] # None
                   PROVE  \E n \in coverage.marks[p] .. Len(events) :
                            Within(p, synced[t]) = Within(p, HeldAt(events, t, n))
        BY DEF MarksHoldUnderWrites, MarkTells
    <2> DEFINE mark == coverage.marks[p]
    <2>2. mark \in 0 .. Len(events) /\ Len(events) \in Nat
        BY <2>1 DEF WBase, MarksCoverApplied, LogRows, ServerInv, ServerTypeOK
    <2>3. CASE ProjectOf[t] = p
        BY <2>1, <2>3 DEF MarksHold, RowsHold
    <2>4. CASE ProjectOf[t] # p
        <3>1. InPlace(t, synced[t]) /\ InPlace(t, HeldAt(events, t, mark))
            BY <2>1, <2>2, HeldInPlace DEF WBase, RowsInPlace
        <3>2. Within(p, synced[t]) = NoRow /\ Within(p, HeldAt(events, t, mark)) = NoRow
            BY <2>4, <3>1 DEF Within, InPlace
        <3> QED
            BY <2>2, <3>2
    <2> QED
        BY <2>3, <2>4
<1> QED
    BY <1>1, <1>2, <1>3, PTL DEF WSpec

LEMMA TruthGrows ==
    ASSUME LogRows, LogRows', Grown(events, events'), UNCHANGED <<synced, raced>>, SyncedIsServerTruth
    PROVE  SyncedIsServerTruth'
<1>1. /\ DOMAIN events = 1 .. Len(events) /\ DOMAIN events' = 1 .. Len(events')
      /\ Len(events) \in Nat /\ Len(events') \in Nat /\ Len(events) <= Len(events')
      /\ \A n \in 1 .. Len(events) : events'[n] = events[n]
    BY DEF LogRows, ServerInv, ServerTypeOK, Grown
<1>2. ASSUME NEW t \in TodoIds, synced[t] # NoRow, "kept-row" \notin raced[t]
      PROVE  \E n \in DOMAIN events' : Names(events'[n], "Todo", t) /\ events'[n].row = synced[t]
    <2>1. PICK n \in DOMAIN events : Names(events[n], "Todo", t) /\ events[n].row = synced[t]
        BY <1>2 DEF SyncedIsServerTruth
    <2>2. n \in DOMAIN events' /\ events'[n] = events[n]
        BY <1>1
    <2> QED
        BY <2>1, <2>2
<1> QED
    BY <1>2 DEF SyncedIsServerTruth

LEMMA TruthSteps ==
    ASSUME WBase, SyncedIsServerTruth, [WNext]_wvars
    PROVE  SyncedIsServerTruth'
<1>1. ASSUME UNCHANGED <<events, synced, raced>> PROVE SyncedIsServerTruth'
    BY <1>1 DEF SyncedIsServerTruth
<1>2. CASE UNCHANGED wvars
    BY <1>1, <1>2 DEF wvars
<1>3. ASSUME NEW p \in ProjectIds, ProjectWrite(p) \/ FetchSlice(p)
      PROVE  SyncedIsServerTruth'
    <2>1. CASE ProjectWrite(p)
        BY <2>1, ProjectWriteKeeps, TruthGrows DEF WBase, ProjectWrite, device
    <2>2. CASE FetchSlice(p)
        BY <1>1, <2>2 DEF FetchSlice, server
    <2> QED
        BY <1>3, <2>1, <2>2
<1>4. ASSUME NEW t \in TodoIds, Insert(t) \/ Update(t) \/ Delete(t) \/ Elsewhere(t)
      PROVE  SyncedIsServerTruth'
    <2>1. CASE Elsewhere(t)
        BY <2>1, ElsewhereKeeps, TruthGrows DEF WBase, Elsewhere, device
    <2>2. CASE Insert(t) \/ Update(t) \/ Delete(t)
        BY <1>1, <2>2 DEF Insert, Update, Delete, Mutate, server
    <2> QED
        BY <1>4, <2>1, <2>2
<1>5. ASSUME NEW i \in DOMAIN mutations, Confirm(i) \/ Fails(i) \/ Settle(i)
      PROVE  SyncedIsServerTruth'
    <2>1. CASE Confirm(i)
        BY <2>1, ConfirmKeeps, TruthGrows DEF WBase, Confirm
    <2>2. CASE Fails(i)
        BY <1>1, <2>2 DEF Fails, server
    <2>3. CASE Settle(i)
        <3> DEFINE m == mutations[i]
        <3>1. /\ events' = events /\ synced \in [TodoIds -> Todo \cup {NoRow}]
              /\ raced \in [TodoIds -> SUBSET Races] /\ m.state \in {"confirmed", "failed"}
              /\ m.state = "failed" => UNCHANGED <<synced, raced>>
              /\ m.state = "confirmed" =>
                    /\ synced' = [synced EXCEPT ![m.todo] = m.row]
                    /\ \E lost : raced' = [raced EXCEPT ![m.todo] = lost]
            <4>1. m \in Mutation
                BY DEF WBase, MutationsAsked
            <4> QED
                BY <2>3, <4>1 DEF Settle, Mutation, server, WBase, RowsInPlace
        <3>2. m.state = "confirmed" =>
                m.at \in DOMAIN events /\ Names(events[m.at], "Todo", m.todo) /\ events[m.at].row = m.row
            BY DEF WBase, MutationsAsked
        <3> HIDE DEF m
        <3>3. ASSUME NEW t \in TodoIds
              PROVE  \/ synced'[t] = synced[t] /\ raced'[t] = raced[t]
                     \/ m.state = "confirmed" /\ t = m.todo /\ synced'[t] = m.row
            BY <3>1
        <3> QED
            BY <3>1, <3>2, <3>3 DEF SyncedIsServerTruth
    <2> QED
        BY <1>5, <2>1, <2>2, <2>3
<1>6. CASE Receive \/ Recover \/ LoseSlice
    BY <1>1, <1>6 DEF Receive, Recover, LoseSlice, server
<1>7. CASE ApplyEvent
    <2> DEFINE k == applied + 1
               sig == journal[k]
    <2>1. /\ k \in DOMAIN journal /\ sig.kind = "Event" /\ events' = events
          /\ synced' = Land(synced, coverage.marks, sig)
          /\ raced' = RacedBy(raced, synced, coverage.marks, sig)
        BY <1>7 DEF ApplyEvent, WBase, JournalTells, server
    <2>2. /\ sig.todo \in TodoIds /\ sig.at \in 1 .. Len(events) /\ InPlace(sig.todo, sig.row)
          /\ \E n \in sig.at .. Len(events) : sig.row = HeldAt(events, sig.todo, n)
        BY <2>1, SignalTells
    <2>3. /\ Placed(synced) /\ raced \in [TodoIds -> SUBSET Races] /\ MutationsAsked
          /\ coverage.marks \in MarkSet /\ sig.at \in Nat
        BY <2>2 DEF WBase, RowsInPlace, Placed, MarksCoverApplied, MarkSet
    <2> HIDE DEF sig
    <2>4. sig.row # NoRow => \E n \in DOMAIN events : Names(events[n], "Todo", sig.todo) /\ events[n].row = sig.row
        <3>1. PICK n \in sig.at .. Len(events) : sig.row = HeldAt(events, sig.todo, n)
            BY <2>2
        <3>2. n \in 0 .. Len(events)
            BY <2>3, <3>1
        <3> QED
            BY <2>2, <3>1, <3>2, HeldIsFromLog DEF WBase
    <2>5. FromLog(synced, raced)
        BY DEF FromLog, SyncedIsServerTruth
    <2>6. FromLog(synced', raced')
        BY <2>1, <2>2, <2>3, <2>4, <2>5, LandFromLog
    <2> QED
        BY <2>1, <2>6 DEF FromLog, SyncedIsServerTruth
<1>8. CASE ApplySnapshot
    <2>1. events' = events
        BY <1>8 DEF ApplySnapshot, server
    <2>2. ASSUME NEW t \in TodoIds, synced'[t] # NoRow, "kept-row" \notin raced'[t]
          PROVE  synced'[t] = synced[t] /\ "kept-row" \notin raced[t]
        <3> DEFINE show == [u \in TodoIds |-> Shown(synced, u)]
                   kept == coverage'
        <3>1. /\ synced' = [u \in TodoIds |-> IF Covering(kept.marks, show[u]) # {} THEN show[u] ELSE NoRow]
              /\ raced' = [u \in TodoIds |-> IF kept.marks[ProjectOf[u]] = None THEN {}
                                             ELSE IF show[u] = synced[u] THEN raced[u]
                                             ELSE raced[u] \cup {"kept-row"}]
            BY <1>8 DEF ApplySnapshot
        <3>2. InPlace(t, show[t])
            BY ShownInPlace DEF WBase, RowsInPlace
        <3> HIDE DEF show, kept
        <3>3. synced'[t] = show[t] /\ Covering(kept.marks, show[t]) # {}
            BY <2>2, <3>1
        <3>4. show[t] # NoRow /\ kept.marks[ProjectOf[t]] # None
            BY <2>2, <3>2, <3>3 DEF Covering, InPlace
        <3> QED
            BY <2>2, <3>1, <3>3, <3>4
    <2> QED
        BY <2>1, <2>2 DEF SyncedIsServerTruth
<1>9. CASE LandSlice
    <2>1. /\ slice # NoSlice /\ slice.gen = generation /\ events' = events
          /\ synced' = Replayed(slice).rows /\ raced' = Replayed(slice).raced
        BY <1>9 DEF LandSlice, server
    <2> DEFINE rows == Replayed(slice).rows
               left == Replayed(slice).raced
    <2>2. FromLog(synced, raced) => FromLog(rows, left)
        BY <2>1, ReplayedKeeps DEF ReplayKeeps
    <2>3. FromLog(synced, raced)
        BY DEF FromLog, SyncedIsServerTruth
    <2>4. synced' = rows /\ raced' = left
        BY <2>1
    <2> HIDE DEF rows, left
    <2> QED
        BY <2>1, <2>2, <2>3, <2>4 DEF FromLog, SyncedIsServerTruth
<1> QED
    BY <1>2, <1>3, <1>4, <1>5, <1>6, <1>7, <1>8, <1>9 DEF WNext

\* What is synced has been server truth, whatever was refused or is still on its way,
\* but for a row that a recovery wrote down as the device showed it.
THEOREM SyncedRowsAreTheServers == WSpec => []SyncedIsServerTruth
<1>1. WInit => WBase /\ SyncedIsServerTruth
    BY WStarts DEF FromLog, SyncedIsServerTruth
<1>2. WBase /\ SyncedIsServerTruth /\ [WNext]_wvars => WBase' /\ SyncedIsServerTruth'
    BY WSteps, TruthSteps
<1> QED
    BY <1>1, <1>2, PTL DEF WSpec
==============================================================================
