--------------------------- MODULE OrganizationTree ---------------------------
(***************************************************************************)
(* The tree of departments: what managers do by hand, and the departments  *)
(* that are copied from the directory of Feishu.  A node repeats its place *)
(* in the tree as a level and a path of ids.  A request reads the rows it  *)
(* decides on, and writes the columns that it changed when it commits.     *)
(*                                                                         *)
(*   request: idle -> fetched -> ready -> idle   (fetched: of a sync only) *)
(***************************************************************************)
EXTENDS Integers, FiniteSets, Sequences, SequencesExt, Functions

CONSTANTS
    Dept,       \* ids of departments
    Root,       \* the company
    Name,       \* names
    Template,   \* the name and the code of a department of the template
    External,   \* departments of the directory
    ExtName,    \* [External -> Name]
    Outside,    \* no department of the directory
    FirstDirectory, \* [External -> External \cup {Root, Outside}]: the parent, or Outside
    Expert,     \* AI employees
    PathLimit,  \* bound: ids that fit in a path (there six, in its 255 characters)
    Moves,      \* bound: changes of the directory
    Req         \* requests

OrganizationAssumption ==
    /\ Root \in Dept /\ Template \in Name /\ Outside \notin External \cup {Root}
    /\ ExtName \in [External -> Name]
    /\ FirstDirectory \in [External -> External \cup {Root, Outside}]
    /\ PathLimit \in Nat /\ Moves \in Nat

VARIABLES
    node,       \* [Dept -> row]
    expert,     \* [Expert -> the department, or Outside: not hired]
    directory,  \* [External -> the parent there]
    moves,
    req         \* [Req -> request]

vars == <<node, expert, directory, moves, req>>

-----------------------------------------------------------------------------
Live(w) == {d \in Dept : w[d].live = "live"}
NoNode == [live |-> "none", parent |-> Root, level |-> 0, path |-> <<>>, name |-> Template,
           ext |-> Outside, coded |-> FALSE]
Idle == [pc |-> "idle", batch |-> <<>>, hire |-> <<>>, sync |-> FALSE,
         seen |-> FirstDirectory]

Init == /\ node = [d \in Dept |-> IF d = Root
                       THEN [NoNode EXCEPT !.live = "live", !.path = <<Root>>] ELSE NoNode]
        /\ expert = [e \in Expert |-> Outside]
        /\ directory = FirstDirectory /\ moves = 0
        /\ req = [r \in Req |-> Idle]

\* The ids that are neither used nor about to be.
Fresh(w) == {d \in Dept : w[d].live = "none" /\ \A r \in Req : d \notin DOMAIN req[r].batch}

\* Variant of Child: the path of a child of the company.
ChildFlat(w, p, d, n, x) == [live |-> "live", parent |-> p, level |-> w[p].level + 1,
    path |-> <<Root, d>>, name |-> n, ext |-> x, coded |-> FALSE]

\* create_child, create_external_child.
Child(w, p, d, n, x) == [live |-> "live", parent |-> p, level |-> w[p].level + 1,
    path |-> Append(w[p].path, d), name |-> n, ext |-> x, coded |-> FALSE]

\* What a unit of work will write: of a new row all, of another the columns that differ.
Changes(w) == [d \in {c \in Dept : w[c] # node[c]} |->
    [f \in {g \in DOMAIN w[d] : w[d][g] # node[d][g]} |-> w[d][f]]]

Ready(r, w) == req' = [req EXCEPT ![r].pc = "ready", ![r].batch = Changes(w)]
Same == UNCHANGED <<node, expert, directory, moves>>

-----------------------------------------------------------------------------
create_department(r, p, n) ==
    /\ req[r].pc = "idle" /\ p \in Live(node) /\ node[p].level < 2
    /\ \E d \in Fresh(node) : Ready(r, [node EXCEPT ![d] = Child(node, p, d, n, Outside)])
    /\ Same

update_department(r, d, n) ==
    /\ req[r].pc = "idle" /\ d \in Live(node) \ {Root} /\ n # node[d].name
    /\ Ready(r, [node EXCEPT ![d].name = n]) /\ Same

\* Of a department without departments and without employees.
delete_department(r, d) ==
    /\ req[r].pc = "idle" /\ d \in Live(node) \ {Root}
    /\ \A c \in Live(node) : c = Root \/ node[c].parent # d
    /\ \A e \in Expert : expert[e] # d
    /\ Ready(r, [node EXCEPT ![d].live = "deleted"]) /\ Same

\* create_department_expert, update_department_expert: of a department that is there.
place_expert(r, e, d) ==
    /\ req[r].pc = "idle" /\ d \in Live(node) /\ expert[e] # d
    /\ req' = [req EXCEPT ![r].pc = "ready", ![r].hire = <<e, d>>]
    /\ Same
delete_department_expert(e) ==
    /\ expert[e] # Outside
    /\ expert' = [expert EXCEPT ![e] = Outside]
    /\ UNCHANGED <<node, directory, moves, req>>

\* seed_template: the department of that code or of that name is put in its place, or made.
seed_template(r) ==
    /\ req[r].pc = "idle"
    /\ LET byCode == {d \in Live(node) : node[d].coded}
           byName == {d \in Live(node) \ {Root} : node[d].parent = Root
                                                  /\ node[d].name = Template}
           found == IF byCode # {} THEN byCode ELSE byName
       IN  \/ \E d \in found : Ready(r, [node EXCEPT
                  ![d] = [@ EXCEPT !.coded = TRUE, !.name = Template, !.parent = Root,
                                   !.level = 1, !.path = <<Root, d>>]])
           \/ /\ found = {}
              /\ \E d \in Fresh(node) : Ready(r, [node EXCEPT
                     ![d] = [Child(node, Root, d, Template, Outside) EXCEPT !.coded = TRUE]])
    /\ Same

-----------------------------------------------------------------------------
Records(dir) == {x \in External : dir[x] # Outside}

Depth(dir) == LET depth[x \in External] ==
                      IF dir[x] \in {Root, Outside} THEN 1 ELSE 1 + depth[dir[x]]
              IN  depth

\* Those without a parent that was listed come first, and before their children.
sort_external_departments(dir) ==
    SetToSortSeq(Records(dir), LAMBDA x, y : Depth(dir)[x] < Depth(dir)[y])

\* The department of a record is found by its id there, or made; and moved to the department
\* of its parent, or to the company.
Place(w, x, dir, fresh) ==
    LET Of(y) == {d \in Live(w) : w[d].ext = y}
        p == IF dir[x] # Root /\ Of(dir[x]) # {} THEN CHOOSE d \in Of(dir[x]) : TRUE ELSE Root
        new == CHOOSE d \in fresh : w[d].live = "none"
    IN  IF Of(x) = {} THEN [w EXCEPT ![new] = Child(w, p, new, ExtName[x], x)]
        ELSE [d \in Dept |-> IF d \notin Of(x) THEN w[d]
              ELSE [w[d] EXCEPT !.name = ExtName[x], !.parent = p, !.level = w[p].level + 1,
                                !.path = Append(w[p].path, d)]]

\* sync_external_directory: the directory is listed, with no transaction open,
list_departments(r) ==
    /\ req[r].pc = "idle" /\ External # {}
    /\ req' = [req EXCEPT ![r].pc = "fetched", ![r].sync = TRUE,
                        ![r].seen = directory]
    /\ Same

\* and its departments are placed.
sync_external_directory(r) ==
    LET dir == req[r].seen fresh == Fresh(node)
        made == {x \in Records(dir) : \A d \in Live(node) : node[d].ext # x}
    IN  /\ req[r].pc = "fetched" /\ Cardinality(made) <= Cardinality(fresh)
        /\ Ready(r, FoldLeft(LAMBDA w, x : Place(w, x, dir, fresh), node,
                             sort_external_departments(dir)))
        /\ Same

-----------------------------------------------------------------------------
Written(r) == [d \in Dept |-> IF d \notin DOMAIN req[r].batch THEN node[d]
    ELSE [f \in DOMAIN node[d] |-> IF f \in DOMAIN req[r].batch[d] THEN req[r].batch[d][f]
                                                                   ELSE node[d][f]]]

\* The unique indexes, of rows that are not deleted, and the length of a path.
Accepted(w) ==
    /\ \A c, d \in Live(w) \ {Root} : c # d =>
           /\ w[c].parent # w[d].parent \/ w[c].name # w[d].name
           /\ w[c].ext = Outside \/ w[c].ext # w[d].ext
           /\ ~(w[c].coded /\ w[d].coded)
    /\ \A d \in Live(w) : Len(w[d].path) <= PathLimit

\* The unit of work commits, or rolls back and the request fails.
commit(r) ==
    /\ req[r].pc = "ready" /\ req[r].hire = <<>>
    /\ \/ Accepted(Written(r)) /\ node' = Written(r)
       \/ ~Accepted(Written(r)) /\ UNCHANGED node
    /\ req' = [req EXCEPT ![r] = Idle]
    /\ UNCHANGED <<expert, directory, moves>>

commit_expert(r) ==
    /\ req[r].pc = "ready" /\ req[r].hire # <<>>
    /\ expert' = [expert EXCEPT ![req[r].hire[1]] = req[r].hire[2]]
    /\ req' = [req EXCEPT ![r] = Idle]
    /\ UNCHANGED <<node, directory, moves>>

\* Somebody reorganizes the company in Feishu: x moves below p, or is gone.
MoveOutside(x, p) ==
    /\ moves < Moves /\ directory[x] # p /\ p # x
    /\ p \in External => /\ directory[p] # Outside
                         /\ \A y \in External : directory[y] # x
    /\ p = Outside => \A y \in External : directory[y] # x
    /\ directory' = [directory EXCEPT ![x] = p] /\ moves' = moves + 1
    /\ UNCHANGED <<node, expert, req>>

Next == \/ \E r \in Req, d \in Dept, n \in Name :
               create_department(r, d, n) \/ update_department(r, d, n)
        \/ \E r \in Req, d \in Dept : \/ delete_department(r, d)
                                      \/ \E e \in Expert : place_expert(r, e, d)
        \/ \E e \in Expert : delete_department_expert(e)
        \/ \E r \in Req : \/ seed_template(r) \/ list_departments(r)
                          \/ sync_external_directory(r) \/ commit(r) \/ commit_expert(r)
        \/ \E x \in External, p \in External \cup {Root, Outside} : MoveOutside(x, p)

Spec == Init /\ [][Next]_vars

-----------------------------------------------------------------------------
TypeOK == /\ \A d \in Live(node) : /\ node[d].parent \in Dept /\ Last(node[d].path) = d
                                   /\ node[d].ext = Outside => node[d].level <= 2 \/ External # {}
          /\ \A c, d \in Live(node) \ {Root} : c # d =>
                 node[c].parent # node[d].parent \/ node[c].name # node[d].name

\* docs/13: the path of a node leads from the company to it.
PathsTrue == \A d \in Live(node) \ {Root} : node[d].parent \in Live(node) =>
    /\ node[d].path = Append(node[node[d].parent].path, d)
    /\ node[d].level = node[node[d].parent].level + 1

Syncs(r) == req[r].sync /\ req[r].pc = "ready" /\ req'[r].pc = "idle"

\* docs/18: after a sync each record has one department, below that of its parent.
SyncPlaces == \A r \in Req : Syncs(r) /\ node' # node =>
    \A x \in Records(req[r].seen) : \E d \in Live(node') :
        /\ node'[d].ext = x
        /\ IF req[r].seen[x] = Root THEN node'[d].parent = Root
           ELSE node'[node'[d].parent].ext = req[r].seen[x]

-----------------------------------------------------------------------------
(* What the documents promise and the code does not keep (see README). *)

\* test_org.py: a department with departments is not deleted: the tree has one root.
NoOrphans == \A d \in Live(node) \ {Root} : node[d].parent \in Live(node)

\* And neither is one with employees.
NoHomeless == \A e \in Expert : expert[e] # Outside => expert[e] \in Live(node)

\* and there is no department of a record that is gone;
SyncMirrors == [][\A r \in Req : Syncs(r) /\ node' # node =>
    \A d \in Live(node') : node'[d].ext = Outside \/ node'[d].ext \in Records(req[r].seen)]_vars

\* and it goes through, whatever the names and the depth are.
SyncGoesThrough == [][\A r \in Req : Syncs(r) => node' = Written(r)]_vars
=============================================================================
