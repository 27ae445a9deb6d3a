------------------------------- MODULE Projects -------------------------------
(***************************************************************************)
(* Projects: the groups a person keeps tasks in.                           *)
(*                                                                         *)
(* A request loads a project of its person, checks it, and saves what it   *)
(* changed of it in one transaction; an update of the table writes the     *)
(* columns that differ from those that were loaded, whatever was           *)
(* committed meanwhile.  A task card is tied to a project that was looked  *)
(* up before it is stored.                                                 *)
(***************************************************************************)
EXTENDS Naturals, FiniteSets

CONSTANTS Person, Project, Owner,   \* project |-> the person who creates it
          Name, Request, MaxClock

ProjectsAssumption == Owner \in [Project -> Person] /\ MaxClock \in Nat \ {0}

VARIABLES project,  \* project |-> [status, name, archived_at]
          request,  \* request |-> [stage, kind, by, of, name, loaded]
          card,     \* the cards tied to a project: [by, of, late]
          clock
projectVars == <<project, request, card, clock>>

None == [status |-> "none", name |-> "none", archived_at |-> 0]
Idle == [stage |-> "idle", kind |-> "none", by |-> "none", of |-> "none", name |-> "none", loaded |-> None]

TypeOK ==
    /\ \A p \in Project : /\ project[p].status \in {"none", "active", "archived"}
                          /\ project[p].archived_at \in 0..MaxClock
    /\ \A q \in Request : request[q].stage \in {"idle", "loaded", "done", "refused"}
    /\ clock \in 1..MaxClock

Init ==
    /\ project = [p \in Project |-> None] /\ request = [q \in Request |-> Idle]
    /\ card = {} /\ clock = 1

create(p, n) ==
    /\ project[p].status = "none"
    /\ project' = [project EXCEPT ![p] = [status |-> "active", name |-> n, archived_at |-> 0]]
    /\ UNCHANGED <<request, card, clock>>

\* The project of a request, if it is one of its person; another's is not found.
_load(q, kind, by, p, n) ==
    /\ request[q].stage = "idle" /\ project[p].status # "none"
    /\ request' = [request EXCEPT ![q] =
          [stage |-> IF Owner[p] = by THEN "loaded" ELSE "refused", kind |-> kind, by |-> by,
           of |-> p, name |-> n, loaded |-> project[p]]]
    /\ UNCHANGED <<project, card, clock>>

Ready(q, kind) == request[q].stage = "loaded" /\ request[q].kind = kind
Answer(q, stage) == request' = [request EXCEPT ![q].stage = stage]

\* Variant of Written: every column of the project that was loaded is written.
WrittenWhole(loaded, new, current) == new

\* What an update leaves of the row there is now.
Written(loaded, new, current) ==
    [c \in DOMAIN current |-> IF new[c] # loaded[c] THEN new[c] ELSE current[c]]

save(q, new) ==
    /\ project' = [project EXCEPT ![request[q].of] = Written(request[q].loaded, new, @)]
    /\ Answer(q, "done")

\* A new name, unless the project was archived when it was loaded.
update(q) ==
    /\ Ready(q, "update")
    /\ IF request[q].loaded.status = "archived"
       THEN Answer(q, "refused") /\ UNCHANGED project
       ELSE save(q, [request[q].loaded EXCEPT !.name = request[q].name])
    /\ UNCHANGED <<card, clock>>

\* The project is archived, unless it was when it was loaded.
archive(q) ==
    /\ Ready(q, "archive")
    /\ IF request[q].loaded.status = "archived"
       THEN Answer(q, "refused") /\ UNCHANGED project
       ELSE save(q, [request[q].loaded EXCEPT !.status = "archived", !.archived_at = clock])
    /\ UNCHANGED <<card, clock>>

\* A card is stored with the project that was looked up, archived or not.
create_task(q) ==
    /\ Ready(q, "card")
    /\ card' = card \cup {[by |-> request[q].by, of |-> request[q].of,
                           late |-> project[request[q].of].status = "archived"]}
    /\ Answer(q, "done") /\ UNCHANGED <<project, clock>>

Tick == /\ clock < MaxClock /\ clock' = clock + 1 /\ UNCHANGED <<project, request, card>>

Next ==
    \/ \E p \in Project, n \in Name : create(p, n)
    \/ \E q \in Request, k \in {"update", "archive", "card"}, by \in Person, p \in Project, n \in Name :
          _load(q, k, by, p, n)
    \/ \E q \in Request : update(q) \/ archive(q) \/ create_task(q)
    \/ Tick

-----------------------------------------------------------------------------
Told(q, kind) == request[q].stage = "done" /\ request[q].kind = kind

\* What is archived stays so, with a time, whatever was loaded before: a project is
\* archived exactly when somebody who owns it was told so.
ArchivedForGood ==
    \A p \in Project :
       /\ (project[p].status = "archived") <=> (\E q \in Request : Told(q, "archive") /\ request[q].of = p)
       /\ (project[p].status = "archived") <=> (project[p].archived_at # 0)
       /\ \A q \in Request : Told(q, "archive") /\ request[q].of = p => request[q].by = Owner[p]

\* Who was told that the project has a new name finds it there, unless another was told the
\* same later; no card is tied to a project of another person.
NamesAreKept ==
    /\ \A q \in Request : Told(q, "update") =>
          \/ project[request[q].of].name = request[q].name
          \/ \E r \in Request : /\ Told(r, "update") /\ request[r].of = request[q].of
                                /\ request[r].name = project[request[q].of].name
          \/ request[q].name = request[q].loaded.name
    /\ \A c \in card : Owner[c.of] = c.by

(* What the documents promise and the code does not keep (see README). *)

\* An archived project is not edited: a request that loaded it before renames it after.
ArchivedIsFrozen ==
    \A p \in Project : project[p].status = "archived" => project'[p].name = project[p].name

\* A project is archived once: two requests that loaded it both archive it.
ArchivedOnce ==
    \A q, r \in Request : Told(q, "archive") /\ Told(r, "archive") /\ request[q].of = request[r].of => q = r
=============================================================================
