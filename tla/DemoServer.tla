----------------------------- MODULE DemoServer -----------------------------
(* The demo's backend for one session: the handlers of http/api-live.ts over  *)
(* the two repositories, and the at-rest events they hand the dispatcher.     *)
(* With the in-memory layers a handler runs without a pause, so it is one     *)
(* step; the log and its hydration are all a device sees of it.               *)
EXTENDS Integers, Sequences, FiniteSets

CONSTANTS
    ProjectIds, TodoIds,
    NoRow               \* no such row, and the row of an event that has none


VARIABLES
    projects,           \* the projects that exist
    todos,              \* per id: the todo, or NoRow
    events              \* every event dispatched, in order; its index is its syncId

server == <<projects, todos, events>>

\* A todo is told apart by its project and by the write that left it.
Todo == [project : ProjectIds, version : Nat]
Tags == {"Insert", "Update", "Delete"}
Event == [model : {"Project"}, id : ProjectIds, tag : Tags, row : {NoRow}]
         \cup [model : {"Todo"}, id : TodoIds, tag : Tags, row : Todo \cup {NoRow}]

\* (row is what the table holds once the event is dispatched; the wire carries none.)
ProjectEvent(p, tag) == [model |-> "Project", id |-> p, tag |-> tag, row |-> NoRow]
TodoEvent(t, tag, row) == [model |-> "Todo", id |-> t, tag |-> tag, row |-> row]

ASSUME ServerConstants == IsFiniteSet(TodoIds) /\ NoRow \notin Todo

ServerInit ==
    /\ projects = {}
    /\ todos = [t \in TodoIds |-> NoRow]
    /\ events = <<>>

-----------------------------------------------------------------------------
(* The repositories' reads *)

\* listByProject: what the projectId index answers.
ListByProject(p) == {t \in TodoIds : todos[t] # NoRow /\ todos[t].project = p}

\* The order in which a Map yields a set of rows.
Orders(S) == {f \in [1 .. Cardinality(S) -> S] :
                /\ \A x \in S : \E i \in DOMAIN f : f[i] = x
                /\ \A i, j \in DOMAIN f : f[i] = f[j] => i = j}

\* The events of a project removed together with its todos: theirs, then its own.
Cascade(p, order) ==
    Append([i \in DOMAIN order |-> TodoEvent(order[i], "Delete", NoRow)], ProjectEvent(p, "Delete"))

-----------------------------------------------------------------------------
(* The handlers *)

\* upsert: whether the row was there decides the kind of the event.
UpsertProject(p) ==
    /\ projects' = projects \cup {p}
    /\ events' = Append(events, ProjectEvent(p, IF p \in projects THEN "Update" ELSE "Insert"))
    /\ UNCHANGED todos

\* Mutant: the project goes and its todos stay behind.
RemoveProject_NoCascade(p) ==
    /\ p \in projects
    /\ projects' = projects \ {p}
    /\ events' = Append(events, ProjectEvent(p, "Delete"))
    /\ UNCHANGED todos

\* Mutant: the removed todos are not announced.
RemoveProject_Quiet(p) ==
    /\ p \in projects
    /\ projects' = projects \ {p}
    /\ todos' = [t \in TodoIds |-> IF t \in ListByProject(p) THEN NoRow ELSE todos[t]]
    /\ events' = Append(events, ProjectEvent(p, "Delete"))

\* remove: its todos go with it, and each is announced.
RemoveProject(p) ==
    /\ p \in projects
    /\ projects' = projects \ {p}
    /\ todos' = [t \in TodoIds |-> IF t \in ListByProject(p) THEN NoRow ELSE todos[t]]
    /\ \E order \in Orders(ListByProject(p)) : events' = events \o Cascade(p, order)

\* upsert: a todo needs its project.
UpsertTodo(t, row) ==
    /\ row.project \in projects
    /\ todos' = [todos EXCEPT ![t] = row]
    /\ events' = Append(events, TodoEvent(t, IF todos[t] # NoRow THEN "Update" ELSE "Insert", row))
    /\ UNCHANGED projects

\* remove: TodoNotFound unless it is there.
RemoveTodo(t) ==
    /\ todos[t] # NoRow
    /\ todos' = [todos EXCEPT ![t] = NoRow]
    /\ events' = Append(events, TodoEvent(t, "Delete", NoRow))
    /\ UNCHANGED projects

ServerNext ==
    \/ \E p \in ProjectIds : UpsertProject(p) \/ RemoveProject(p)
    \/ \E t \in TodoIds : RemoveTodo(t) \/ \E row \in Todo : UpsertTodo(t, row)

ServerSpec == ServerInit /\ [][ServerNext]_server

-----------------------------------------------------------------------------
(* What the sync layer relies on *)

ServerTypeOK ==
    /\ projects \subseteq ProjectIds
    /\ todos \in [TodoIds -> Todo \cup {NoRow}]
    /\ events \in Seq(Event)

\* No todo outlives its project (the cascade, and the check an upsert makes).
TodosHaveTheirProject == \A t \in TodoIds : todos[t] # NoRow => todos[t].project \in projects

\* The log's first n events leave the entity in existence.
Names(e, model, id) == e.model = model /\ e.id = id
Alive(log, n, model, id) ==
    \E i \in 1 .. n :
        /\ Names(log[i], model, id) /\ log[i].tag # "Delete"
        /\ \A j \in i + 1 .. n : ~Names(log[j], model, id)

\* The log is the well-formed stream squash's fold table assumes, and it tells the
\* tables: an Insert only brings in what was not there, an Update or a Delete only
\* touches what was, and what the log leaves alive is what the tables hold.
LogTellsTables ==
    /\ \A i \in DOMAIN events :
        (events[i].tag = "Insert") <=> ~Alive(events, i - 1, events[i].model, events[i].id)
    /\ \A p \in ProjectIds : p \in projects <=> Alive(events, Len(events), "Project", p)
    /\ \A t \in TodoIds : todos[t] # NoRow <=> Alive(events, Len(events), "Todo", t)
=============================================================================
