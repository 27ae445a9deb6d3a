----------------------------- MODULE WorkDesktop -----------------------------
(***************************************************************************)
(* The work desktop: what waits for a person, put together from the        *)
(* sources at each request, and the marks a person leaves on it.           *)
(*                                                                         *)
(* A desktop is read kind by kind, each in a statement of its own that     *)
(* sees what is committed by then; the tasks, proposals and resolutions    *)
(* are limited to the newest.  The items are ranked by a score of four     *)
(* factors, with the marks of the person it is for.                        *)
(*                                                                         *)
(* A request marks a list of items in one transaction.  Each is looked up  *)
(* and then inserted or updated; an update writes the flags that differ    *)
(* from those that were loaded.  The table has one row of a person and     *)
(* item; a write of a row that another transaction wrote waits for its     *)
(* end, and of two that wait for each other the database aborts one.       *)
(*                                                                         *)
(* Days stand for times; scores are in thousandths.  What becomes of a     *)
(* source (TaskCards, Proposals, Meetings, Collaboration) is external.     *)
(***************************************************************************)
EXTENDS Integers, FiniteSets, Sequences, SequencesExt, TLC

CONSTANTS Person, Role,       \* person |-> "admin", "executive" or "staff"
          Item, Kind,         \* item |-> "task", "proposal", "resolution" or "collab"
          Urgency,            \* item |-> "high", "normal" or "low"
          Created,            \* item |-> the day it was created
          Holder,             \* item |-> its creator and assignee, or its reviewers
          Limit, FirstDay, LastDay,
          Load,               \* the requests for a desktop
          Mark, Asked, Flags, \* the requests to mark: what they may ask, what they set
          Marked              \* items that may have rows of earlier requests

WorkDesktopAssumption ==
    /\ Limit \in Nat \ {0} /\ FirstDay \in Nat /\ LastDay \in Nat
    /\ \A i, j \in Item : i # j => Created[i] # Created[j]
    /\ \A f \in Flags : f # <<>> /\ DOMAIN f \subseteq {"is_read", "is_processed"}

VARIABLES now,
          status,  \* item |-> "draft", "open" or "closed"
          row,     \* person |-> the rows of inbox_item_state: item |-> flags
          desk,    \* the requests for a desktop
          mark     \* the requests to mark
deskVars == <<now, status, row, desk, mark>>

Kinds == <<"task", "proposal", "resolution", "collab">>
Unread == [is_read |-> FALSE, is_processed |-> FALSE]
NoDesk == [stage |-> "new", for |-> "none", left |-> <<>>, found |-> {}, shown |-> <<>>,
           at |-> 0, ever |-> {}, always |-> {}]
NoMark == [stage |-> "new", by |-> "none", asked |-> <<>>, left |-> <<>>, flags |-> <<>>,
           looked |-> FALSE, loaded |-> {}, wrote |-> <<>>]

TypeOK ==
    /\ now \in FirstDay..LastDay /\ status \in [Item -> {"draft", "open", "closed"}]
    /\ \A p \in Person : DOMAIN row[p] \subseteq Item
    /\ \A d \in Load : /\ desk[d].stage \in {"new", "reading", "done"}
                       /\ desk[d].found \subseteq Item /\ desk[d].always \subseteq desk[d].ever
    /\ \A q \in Mark : mark[q].stage \in {"new", "marking", "done", "failed"}

\* There may be rows of earlier requests, whose flags were taken back.
Init ==
    /\ now = FirstDay /\ status \in [Item -> {"draft", "open"}]
    /\ row \in [Person -> {[i \in s |-> Unread] : s \in SUBSET Marked}]
    /\ desk = [d \in Load |-> NoDesk] /\ mark = [q \in Mark |-> NoMark]

-----------------------------------------------------------------------------
is_admin(p) == Role[p] = "admin"
is_manager(p) == Role[p] \in {"admin", "executive"}

\* What a person may find on the desktop.
Sees(p, i) ==
    IF Kind[i] \in {"task", "collab"} THEN is_admin(p) \/ p \in Holder[i] ELSE is_manager(p)

Open == {i \in Item : status[i] = "open"}

\* The newest of a set of items, as many as the limit.
Newest(s) == {i \in s : Cardinality({j \in s : Created[j] > Created[i]}) < Limit}

\* One query of the desktop; the queue of collaborations has no limit.
Queried(p, k) ==
    LET s == {i \in Open : Kind[i] = k /\ Sees(p, i)}
    IN  IF k = "collab" THEN s ELSE Newest(s)

\* The four factors: urgency, importance, attention, and the days up to two it waits.
priority_score(i, day) ==
    LET age == day - Created[i]
    IN  (CASE Urgency[i] = "high" -> 400 [] Urgency[i] = "low" -> 80 [] OTHER -> 200)
        + (CASE Kind[i] = "collab" -> 175 [] Kind[i] = "task" -> 125 [] OTHER -> 250)
        + (IF Kind[i] \in {"proposal", "resolution"} THEN 200 ELSE 0)
        + 75 * (IF age < 0 THEN 0 ELSE IF age > 2 THEN 2 ELSE age)

\* Variant of Before: what is older comes later.
BeforeByAge(i, j, day) == Created[i] > Created[j]

\* The order of the desktop: by score, then the newer first.
Before(i, j, day) ==
    \/ priority_score(i, day) > priority_score(j, day)
    \/ priority_score(i, day) = priority_score(j, day) /\ Created[i] > Created[j]

Marks(p, i) == IF i \in DOMAIN row[p] THEN row[p][i] ELSE Unread

-----------------------------------------------------------------------------
\* A person asks for the own desktop, or an admin for that of another.
Ask(d, by, for) ==
    /\ desk[d].stage = "new" /\ (by = for \/ is_admin(by))
    /\ desk' = [desk EXCEPT ![d] = [NoDesk EXCEPT !.stage = "reading", !.for = for, !.left = Kinds,
                                                  !.ever = Open, !.always = Open]]
    /\ UNCHANGED <<now, status, row, mark>>

\* The next kind is read.
Read(d) ==
    /\ desk[d].stage = "reading" /\ desk[d].left # <<>>
    /\ desk' = [desk EXCEPT ![d].left = Tail(@),
                            ![d].found = @ \cup Queried(desk[d].for, Head(desk[d].left))]
    /\ UNCHANGED <<now, status, row, mark>>

\* The marks are read, and what was found is ranked.
_rank_inbox(d) ==
    /\ desk[d].stage = "reading" /\ desk[d].left = <<>>
    /\ LET order == SortSeq(SetToSeq(desk[d].found), LAMBDA i, j : Before(i, j, now))
       IN  desk' = [desk EXCEPT ![d].stage = "done", ![d].at = now,
                                ![d].shown = [n \in DOMAIN order |->
                                    [item |-> order[n], marks |-> Marks(desk[d].for, order[n])]]]
    /\ UNCHANGED <<now, status, row, mark>>

\* A source moves on: a draft is handed in, or what waited is decided.
Move(i) ==
    /\ status[i] # "closed"
    /\ status' = [status EXCEPT ![i] = IF @ = "draft" THEN "open" ELSE "closed"]
    /\ desk' = [d \in Load |->
          IF desk[d].stage # "reading" THEN desk[d]
          ELSE [desk[d] EXCEPT !.ever = IF status[i] = "draft" THEN @ \cup {i} ELSE @,
                               !.always = @ \ {i}]]
    /\ UNCHANGED <<now, row, mark>>

NextDay == /\ now < LastDay /\ now' = now + 1 /\ UNCHANGED <<status, row, desk, mark>>

-----------------------------------------------------------------------------
\* A person marks a list of items.
Begin(q, p, asked, flags) ==
    /\ mark[q].stage = "new"
    /\ mark' = [mark EXCEPT ![q] = [NoMark EXCEPT !.stage = "marking", !.by = p, !.asked = asked,
                                                  !.left = asked, !.flags = flags]]
    /\ UNCHANGED <<now, status, row, desk>>

Marking(q) == mark[q].stage = "marking" /\ mark[q].left # <<>>
item(q) == Head(mark[q].left)

\* The row of an item, as the transaction of a request sees it: none, or one.
Seen(q) ==
    IF item(q) \in DOMAIN mark[q].wrote THEN {mark[q].wrote[item(q)]}
    ELSE IF item(q) \in DOMAIN row[mark[q].by] THEN {row[mark[q].by][item(q)]} ELSE {}

Look(q) ==
    /\ Marking(q) /\ ~mark[q].looked
    /\ mark' = [mark EXCEPT ![q].looked = TRUE, ![q].loaded = Seen(q)]
    /\ UNCHANGED <<now, status, row, desk>>

\* Variant of Updated: every flag of the row that was loaded is written.
UpdatedWhole(flags, loaded, current) == flags @@ loaded

\* What an update leaves: a flag is written when it is not the one that was loaded.
Updated(flags, loaded, current) ==
    [f \in DOMAIN current |-> IF f \in DOMAIN flags /\ flags[f] # loaded[f] THEN flags[f] ELSE current[f]]

Held(q) == \E r \in Mark \ {q} : /\ mark[r].stage = "marking" /\ mark[r].by = mark[q].by
                                 /\ item(q) \in DOMAIN mark[r].wrote

\* Whether the row that was loaded has the flags already: then nothing is written.
Unneeded(q) == \E r \in mark[q].loaded : \A f \in DOMAIN mark[q].flags : mark[q].flags[f] = r[f]

Failed(q) == [mark[q] EXCEPT !.stage = "failed", !.wrote = <<>>, !.left = <<>>]
Next1(q) == [mark[q] EXCEPT !.left = Tail(@), !.looked = FALSE, !.loaded = {}]

Pass(q) ==
    /\ Marking(q) /\ mark[q].looked /\ Unneeded(q)
    /\ mark' = [mark EXCEPT ![q] = Next1(q)]
    /\ UNCHANGED <<now, status, row, desk>>

\* The row is inserted or updated; one that was inserted meanwhile fails the request.
Put(q) ==
    /\ Marking(q) /\ mark[q].looked /\ ~Unneeded(q) /\ ~Held(q)
    /\ mark' = [mark EXCEPT ![q] =
          IF mark[q].loaded = {} /\ Seen(q) # {} THEN Failed(q)
          ELSE [Next1(q) EXCEPT !.wrote = (item(q) :>
                   IF mark[q].loaded = {} THEN mark[q].flags @@ Unread
                   ELSE LET loaded == CHOOSE r \in mark[q].loaded : TRUE
                            current == CHOOSE r \in Seen(q) : TRUE
                        IN  Updated(mark[q].flags, loaded, current)) @@ @]]
    /\ UNCHANGED <<now, status, row, desk>>

\* Two requests wait for each other: one is aborted.
Deadlocked(q) ==
    /\ Marking(q) /\ mark[q].looked /\ ~Unneeded(q) /\ Held(q)
    /\ \E r \in Mark \ {q} : /\ Marking(r) /\ mark[r].looked /\ ~Unneeded(r)
                             /\ mark[r].by = mark[q].by
                             /\ item(q) \in DOMAIN mark[r].wrote /\ item(r) \in DOMAIN mark[q].wrote
    /\ mark' = [mark EXCEPT ![q] = Failed(q)]
    /\ UNCHANGED <<now, status, row, desk>>

Commit(q) ==
    /\ mark[q].stage = "marking" /\ mark[q].left = <<>>
    /\ row' = [row EXCEPT ![mark[q].by] = mark[q].wrote @@ @]
    /\ mark' = [mark EXCEPT ![q].stage = "done", ![q].wrote = <<>>]
    /\ UNCHANGED <<now, status, desk>>

Next ==
    \/ \E d \in Load, by, for \in Person : Ask(d, by, for)
    \/ \E d \in Load : Read(d) \/ _rank_inbox(d)
    \/ \E i \in Item : Move(i)
    \/ NextDay
    \/ \E q \in Mark, p \in Person, a \in Asked, f \in Flags : Begin(q, p, a, f)
    \/ \E q \in Mark : Look(q) \/ Pass(q) \/ Put(q) \/ Deadlocked(q) \/ Commit(q)

-----------------------------------------------------------------------------
Shown(d) == {desk[d].shown[n].item : n \in DOMAIN desk[d].shown}
Asks(q, p, i) == mark[q].stage = "done" /\ mark[q].by = p /\ \E n \in DOMAIN mark[q].asked : mark[q].asked[n] = i

\* A desktop shows what waited at some time of the request and its person may see, and
\* leaves out what waited all the time only behind as many newer ones as the limit.
DesksAreWhole ==
    \A d \in Load : desk[d].stage = "done" =>
       /\ \A i \in Shown(d) : i \in desk[d].ever /\ Sees(desk[d].for, i)
       /\ \A i \in desk[d].always \ Shown(d) :
             Sees(desk[d].for, i) => Cardinality({j \in Shown(d) : Kind[j] = Kind[i] /\ Created[j] > Created[i]}) >= Limit

\* Of two items of one kind and urgency the one that waits longer is shown first, unless
\* both waited as long as counts.
LongerWaitsFirst ==
    \A d \in Load : \A m, n \in DOMAIN desk[d].shown :
       LET i == desk[d].shown[m].item   j == desk[d].shown[n].item
       IN  Kind[i] = Kind[j] /\ Urgency[i] = Urgency[j] /\ Created[i] < Created[j]
           /\ desk[d].at - Created[j] < 2 => m < n

\* A request that marked its items marked all of them, and a flag it set holds until
\* another request of the person sets it otherwise; nobody else's rows have a flag.
MarksHold ==
    /\ \A p \in Person : \A i \in DOMAIN row[p] : \A f \in DOMAIN row[p][i] :
          row[p][i][f] => \E q \in Mark : Asks(q, p, i) /\ f \in DOMAIN mark[q].flags /\ mark[q].flags[f]
    /\ \A q \in Mark, p \in Person, i \in Item : Asks(q, p, i) =>
          /\ i \in DOMAIN row[p]
          /\ \A f \in DOMAIN mark[q].flags : row[p][i][f] # mark[q].flags[f] =>
                \E r \in Mark : /\ Asks(r, p, i) /\ f \in DOMAIN mark[r].flags
                                /\ mark[r].flags[f] = row[p][i][f]

(* What the documents promise and the code does not keep (see README). *)

\* What waits longest of its kind is on the desktop: the limit keeps the newest.
LongestIsShown ==
    \A d \in Load : desk[d].stage = "done" =>
       \A i \in desk[d].always : Sees(desk[d].for, i)
             /\ (\A j \in desk[d].always : Kind[j] = Kind[i] => Created[i] <= Created[j]) => i \in Shown(d)

\* A task of a resolution waits on the desktop as soon as it is drafted.
DraftsAreShown ==
    \A d \in Load : desk[d].stage = "done" =>
       \A i \in Item : Kind[i] = "task" /\ status[i] = "draft" /\ Sees(desk[d].for, i) => i \in Shown(d)
=============================================================================
