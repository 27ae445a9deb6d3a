--------------------------- MODULE TimeManagement ---------------------------
(***************************************************************************)
(* The diary of one user: schedules (made by hand, or suggested for tasks  *)
(* and then confirmed), focus sessions and the hours that were logged.     *)
(* Every request reads, decides and commits: what it read may be old when  *)
(* it commits.  Time is a number of slots, a date a number of days from a  *)
(* Monday.  Every read is by owner, so that two users share nothing.       *)
(*                                                                         *)
(*   request: idle -Look-> looked -commit-> idle                           *)
(***************************************************************************)
EXTENDS Integers, FiniteSets, SequencesExt

CONSTANTS
    Request,    \* requests that may be under way at once
    Id,         \* ids of schedules, in the order they are given: bound of the table
    Slots,      \* last slot of time
    ItemList,   \* what a user may ask to be planned: [dur, priority, due], due 0 is none
    Window,     \* windows that may be planned: <<start, end>>
    Limit,      \* list_for_owner reads this many
    Focus,      \* ids of focus sessions
    Date, Minutes, MaxLogs  \* what is logged, and how often: bound

DiaryAssumption == Slots \in Nat /\ Limit \in Nat /\ MaxLogs \in Nat

VARIABLES
    schedule,  \* [Id -> schedule or none]
    focus,     \* status of each focus session
    log,       \* sequence of what was logged
    request,   \* what each request read
    planned    \* the last suggestions: what they saw, the items and the slots

vars == <<schedule, focus, log, request, planned>>

-----------------------------------------------------------------------------
NoSchedule == [status |-> "none", start |-> 0, end |-> 0]
Idle == [pc |-> "idle"]
At(r, pc) == request[r].pc = pc
Unused == {i \in Id : schedule[i].status = "none"}
Confirmed == {i \in Id : schedule[i].status = "confirmed"}
Overlap(a, b) == a.start < b.end /\ b.start < a.end
Greater(a, b) == IF a > b THEN a ELSE b
Smaller(a, b) == IF a < b THEN a ELSE b

Starts(i, j) == schedule[i].start * Cardinality(Id) + i < schedule[j].start * Cardinality(Id) + j

\* What list_for_owner returns: the first Limit of them by their start.
list_for_owner(ids) ==
    LET rows == SetToSortSeq(ids, Starts)
    IN  [k \in 1..Smaller(Limit, Len(rows)) |->
            [start |-> schedule[rows[k]].start, end |-> schedule[rows[k]].end]]

-----------------------------------------------------------------------------
\* Variant of _free_gaps: the cursor goes to the end of the last busy time.
GapsBehindLast(busy, ws, we) ==
    LET clipped == SelectSeq([k \in DOMAIN busy |-> [start |-> Greater(busy[k].start, ws),
                                                      end |-> Smaller(busy[k].end, we)]],
                             LAMBDA b : b.end > b.start)
        Add(acc, b) == [gaps |-> IF b.start > acc.cursor
                                 THEN Append(acc.gaps, [start |-> acc.cursor, end |-> b.start])
                                 ELSE acc.gaps,
                        cursor |-> b.end]
        done == FoldLeft(Add, [gaps |-> <<>>, cursor |-> ws], clipped)
    IN  IF done.cursor < we THEN Append(done.gaps, [start |-> done.cursor, end |-> we])
        ELSE done.gaps

\* The times of a window that no busy time covers; busy is sorted by its start.
_free_gaps(busy, ws, we) ==
    LET clipped == SelectSeq([k \in DOMAIN busy |-> [start |-> Greater(busy[k].start, ws),
                                                      end |-> Smaller(busy[k].end, we)]],
                             LAMBDA b : b.end > b.start)
        Add(acc, b) == [gaps |-> IF b.start > acc.cursor
                                 THEN Append(acc.gaps, [start |-> acc.cursor, end |-> b.start])
                                 ELSE acc.gaps,
                        cursor |-> Greater(acc.cursor, b.end)]
        done == FoldLeft(Add, [gaps |-> <<>>, cursor |-> ws], clipped)
    IN  IF done.cursor < we THEN Append(done.gaps, [start |-> done.cursor, end |-> we])
        ELSE done.gaps

\* By due date, those without one last; then the more urgent, then as they were given.
Earlier(a, b) == \/ a.due # 0 /\ b.due = 0
                 \/ a.due # 0 /\ a.due < b.due
                 \/ a.due = b.due /\ a.priority > b.priority
Ordered(items) ==
    LET order == SetToSortSeq(DOMAIN items, LAMBDA i, j :
                     \/ Earlier(items[i], items[j])
                     \/ ~Earlier(items[j], items[i]) /\ i < j)
    IN  [k \in DOMAIN order |-> items[order[k]]]

\* Greedy: each item gets the first gap it fits in, and shortens it.
plan_suggestions(items, busy, ws, we) ==
    LET Fit(acc, item) ==
            LET fits == {k \in DOMAIN acc.gaps :
                            acc.gaps[k].end - acc.gaps[k].start >= item.dur}
                k == CHOOSE m \in fits : \A n \in fits : m <= n
                end == acc.gaps[k].start + item.dur
            IN  IF fits = {} THEN acc
                ELSE [gaps |-> [acc.gaps EXCEPT ![k].start = end],
                      slots |-> Append(acc.slots, [start |-> acc.gaps[k].start, end |-> end])]
    IN  FoldLeft(Fit, [gaps |-> _free_gaps(busy, ws, we), slots |-> <<>>], Ordered(items)).slots

-----------------------------------------------------------------------------
NoPlan == [items |-> <<>>, ws |-> 0, we |-> 0, slots |-> <<>>, saw |-> {}]

Init == /\ schedule = [i \in Id |-> NoSchedule]
        /\ focus = [f \in Focus |-> "none"]
        /\ log = <<>>
        /\ request = [r \in Request |-> Idle]
        /\ planned = NoPlan

\* A schedule made by hand is confirmed, whatever else is there.
create_schedule(start, end) ==
    \E i \in Unused :
        /\ \A j \in Unused : i <= j
        /\ start < end
        /\ schedule' = [schedule EXCEPT ![i] = [status |-> "confirmed", start |-> start,
                                                end |-> end]]
        /\ UNCHANGED <<focus, log, request, planned>>

\* The confirmed schedules are busy; what is planned is stored as a suggestion.
suggest_schedules(items, ws, we) ==
    LET slots == plan_suggestions(items, list_for_owner(Confirmed), ws, we)
        new == SetToSortSeq(Unused, <)
    IN  /\ Len(slots) <= Len(new)
        /\ schedule' = [i \in Id |->
             IF \E k \in DOMAIN slots : new[k] = i
             THEN LET k == CHOOSE n \in DOMAIN slots : new[n] = i
                  IN  [status |-> "suggested", start |-> slots[k].start, end |-> slots[k].end]
             ELSE schedule[i]]
        /\ planned' = [items |-> items, ws |-> ws, we |-> we, slots |-> slots,
                       saw |-> {schedule[i] : i \in Confirmed}]
        /\ UNCHANGED <<focus, log, request>>

confirm_schedule(i) ==
    /\ schedule[i].status = "suggested"
    /\ schedule' = [schedule EXCEPT ![i].status = "confirmed"]
    /\ UNCHANGED <<focus, log, request, planned>>

-----------------------------------------------------------------------------
Active == {f \in Focus : focus[f] = "active"}

\* start_focus: no session is active, as far as the request saw ...
LookActive(r) ==
    /\ At(r, "idle") /\ Active = {}
    /\ request' = [request EXCEPT ![r] = [pc |-> "start"]]
    /\ UNCHANGED <<schedule, focus, log, planned>>

\* ... and a new one is.
start_focus(r, f) ==
    /\ At(r, "start") /\ focus[f] = "none"
    /\ focus' = [focus EXCEPT ![f] = "active"]
    /\ request' = [request EXCEPT ![r] = Idle]
    /\ UNCHANGED <<schedule, log, planned>>

\* _end_focus: the session is active, as far as the request saw ...
LookFocus(r, f) ==
    /\ At(r, "idle") /\ focus[f] = "active"
    /\ request' = [request EXCEPT ![r] = [pc |-> "end", f |-> f]]
    /\ UNCHANGED <<schedule, focus, log, planned>>

\* ... and is completed or aborted.
_end_focus(r, status) ==
    /\ At(r, "end")
    /\ focus' = [focus EXCEPT ![request[r].f] = status]
    /\ request' = [request EXCEPT ![r] = Idle]
    /\ UNCHANGED <<schedule, log, planned>>

-----------------------------------------------------------------------------
log_time(date, minutes) ==
    /\ Len(log) < MaxLogs
    /\ log' = Append(log, [date |-> date, minutes |-> minutes])
    /\ UNCHANGED <<schedule, focus, request, planned>>

Total(rows) == FoldLeft(LAMBDA sum, row : sum + row.minutes, 0, rows)

\* What was logged from the Monday to the Sunday of the week of a date.
weekly_review(date) ==
    LET monday == date - (date % 7)
    IN  Total(SelectSeq(log, LAMBDA row : row.date \in monday..(monday + 6)))

Next == \/ \E s, e \in 0..Slots : create_schedule(s, e)
        \/ \E items \in ItemList, w \in Window : suggest_schedules(items, w[1], w[2])
        \/ \E i \in Id : confirm_schedule(i)
        \/ \E r \in Request : LookActive(r)
        \/ \E r \in Request, f \in Focus : start_focus(r, f) \/ LookFocus(r, f)
        \/ \E r \in Request, s \in {"completed", "aborted"} : _end_focus(r, s)
        \/ \E d \in Date, m \in Minutes : log_time(d, m)

Spec == Init /\ [][Next]_vars

-----------------------------------------------------------------------------
\* A schedule that is stored has a time and ends after it begins.
TypeOK == /\ \A i \in Id : /\ schedule[i].status \in {"none", "suggested", "confirmed"}
                           /\ schedule[i].status # "none" =>
                                0 <= schedule[i].start /\ schedule[i].start < schedule[i].end
          /\ \A f \in Focus : focus[f] \in {"none", "active", "completed", "aborted"}

\* What is suggested at once lies in the window, and no two suggestions overlap.
SuggestionsFit ==
    LET s == planned.slots IN
    \A j \in DOMAIN s : /\ planned.ws <= s[j].start /\ s[j].end <= planned.we
                        /\ \A k \in DOMAIN s : j # k => ~Overlap(s[j], s[k])

\* What is suggested does not overlap a schedule that was confirmed when it was planned.
SuggestionsAreFree ==
    \A k \in DOMAIN planned.slots, b \in planned.saw : ~Overlap(planned.slots[k], b)

\* No room is left over: when an item got no suggestion, no free time of the window, next
\* to the confirmed schedules and the other suggestions, is as long as the item.
NoRoomLeft ==
    LET s == planned.slots
        taken == planned.saw \cup Range(s)
        Free(t) == \A b \in taken : ~(b.start <= t /\ t < b.end)
        Room(d) == \E t \in planned.ws..(planned.we - d) : \A u \in t..(t + d - 1) : Free(u)
        Got(d) == Cardinality({k \in DOMAIN s : s[k].end - s[k].start = d})
        Asked(d) == Cardinality({k \in DOMAIN planned.items : planned.items[k].dur = d})
    IN  \A d \in {planned.items[k].dur : k \in DOMAIN planned.items} :
            Got(d) < Asked(d) => ~Room(d)

\* Whatever day of a week is asked for, its review is the same; and every log is in the
\* review of one week.
WeeksPartition ==
    /\ \A d, e \in Date : d \div 7 = e \div 7 => weekly_review(d) = weekly_review(e)
    /\ \A d \in Date : weekly_review(d) <= Total(log)

\* A session that has ended stays as it ended.
FocusEndsOnce == \A f \in Focus : focus[f] \in {"completed", "aborted"} =>
                                        focus'[f] = focus[f]

\* start_focus: a guard against two sessions at once.
OneFocus == Cardinality(Active) <= 1
=============================================================================
