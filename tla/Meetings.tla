------------------------------ MODULE Meetings ------------------------------
(***************************************************************************)
(* A decision meeting: its status, speeches, votes, minutes, and the       *)
(* resolution that people confirm and turn into a task.                    *)
(*                                                                         *)
(* A use case reads in one transaction, may ask a model, and writes in     *)
(* another one.  save_meeting and save_resolution write every column from  *)
(* the record that was read; only a conversion locks its row.              *)
(***************************************************************************)
EXTENDS Naturals, FiniteSets

CONSTANTS
    Person, Department, NoDepartment,
    Speech, Ballot,  \* ids of what is said and voted, each used once
    Request,         \* requests under way at once
    MaxTasks,        \* bound: conversions
    MaxFaults        \* bound: requests that end half way

MeetingBoundAssumption == MaxTasks \in Nat /\ MaxFaults \in Nat
MeetingDepartmentAssumption == NoDepartment \notin Department

VARIABLES
    meeting,     \* meeting_info: status, minutes (the speeches its summary is about)
    owner,       \* its creator and department
    talks,       \* meeting_discuss
    votes,       \* meeting_vote; how people voted is left out
    resolution,  \* meeting_resolution: known, confirmed, task
    tasks,       \* task cards created from it
    request,     \* what each request knows
    overwritten, \* history: a confirmation was written over a conversion
    faults

vars == <<meeting, owner, talks, votes, resolution, tasks, request, overwritten, faults>>

-----------------------------------------------------------------------------
Status == {"scheduled", "in_progress", "closed"}
NoTask == 0
Principal == [id : Person, privileged : BOOLEAN, department : Department \cup {NoDepartment}]

transition_to(from, to) == \/ from = "scheduled" /\ to \in {"in_progress", "closed"}
                           \/ from = "in_progress" /\ to = "closed"

Idle == [pc |-> "idle"]
At(r, pc) == request[r].pc = pc
Enter(r, state) == request' = [request EXCEPT ![r] = state]
Leave(r) == Enter(r, Idle)

\* create: some callers start the meeting at once.
Init == /\ meeting \in [status : {"scheduled", "in_progress"}, minutes : {{}}]
        /\ owner \in [creator : Person, department : Department \cup {NoDepartment}]
        /\ talks = {} /\ votes = {}
        /\ resolution = [known |-> FALSE, confirmed |-> FALSE, task |-> NoTask]
        /\ tasks = 0 /\ overwritten = FALSE /\ faults = 0
        /\ request = [r \in Request |-> Idle]

-----------------------------------------------------------------------------
(* Status and minutes.                                                     *)

OpenStatus(r, to) ==
    /\ At(r, "idle") /\ transition_to(meeting.status, to)
    /\ Enter(r, [pc |-> "status", seen |-> meeting, to |-> to])
    /\ UNCHANGED <<meeting, owner, talks, votes, resolution, tasks, overwritten, faults>>

\* set_status: a closed meeting gets its minutes in the same request.
SaveStatus(r) ==
    /\ At(r, "status")
    /\ meeting' = [request[r].seen EXCEPT !.status = request[r].to]
    /\ IF request[r].to = "closed" THEN Enter(r, [pc |-> "closed"]) ELSE Leave(r)
    /\ UNCHANGED <<owner, talks, votes, resolution, tasks, overwritten, faults>>

\* generate_minutes: the meeting and what was said are read ...
OpenMinutes(r) ==
    /\ At(r, "idle") \/ At(r, "closed")
    /\ talks # {}
    /\ Enter(r, [pc |-> "minutes", seen |-> meeting, heard |-> talks])
    /\ UNCHANGED <<meeting, owner, talks, votes, resolution, tasks, overwritten, faults>>

\* ... nothing was said ...
SkipMinutes(r) ==
    /\ At(r, "closed") /\ talks = {} /\ Leave(r)
    /\ UNCHANGED <<meeting, owner, talks, votes, resolution, tasks, overwritten, faults>>

\* ... and the meeting is saved when the model has answered.
SaveMinutes(r) ==
    /\ At(r, "minutes")
    /\ meeting' = [request[r].seen EXCEPT !.minutes = request[r].heard]
    /\ Leave(r)
    /\ UNCHANGED <<owner, talks, votes, resolution, tasks, overwritten, faults>>

-----------------------------------------------------------------------------
(* Speeches and votes, of people (a short transaction) and of the expert   *)
(* (a model call between the check and the insert).                        *)

require_in_progress == meeting.status = "in_progress"

OpenTalk(r) ==
    /\ At(r, "idle") /\ require_in_progress /\ Enter(r, [pc |-> "talk"])
    /\ UNCHANGED <<meeting, owner, talks, votes, resolution, tasks, overwritten, faults>>

SaveTalk(r, s) ==
    /\ At(r, "talk") /\ s \notin talks
    /\ talks' = talks \cup {s} /\ Leave(r)
    /\ UNCHANGED <<meeting, owner, votes, resolution, tasks, overwritten, faults>>

OpenVote(r) ==
    /\ At(r, "idle") /\ require_in_progress /\ Enter(r, [pc |-> "vote"])
    /\ UNCHANGED <<meeting, owner, talks, votes, resolution, tasks, overwritten, faults>>

SaveVote(r, b) ==
    /\ At(r, "vote") /\ b \notin votes
    /\ votes' = votes \cup {b} /\ Leave(r)
    /\ UNCHANGED <<meeting, owner, talks, resolution, tasks, overwritten, faults>>

-----------------------------------------------------------------------------
(* The resolution.                                                         *)

create_resolution ==
    /\ ~resolution.known
    /\ resolution' = [resolution EXCEPT !.known = TRUE]
    /\ UNCHANGED <<meeting, owner, talks, votes, tasks, request, overwritten, faults>>

OpenConfirm(r) ==
    /\ At(r, "idle") /\ resolution.known
    /\ Enter(r, [pc |-> "confirm", seen |-> resolution])
    /\ UNCHANGED <<meeting, owner, talks, votes, resolution, tasks, overwritten, faults>>

\* with_for_update
Locked == \E r \in Request : At(r, "convert")

SaveConfirm(r) ==
    /\ At(r, "confirm") /\ ~Locked
    /\ resolution' = [request[r].seen EXCEPT !.confirmed = TRUE]
    /\ overwritten' = (overwritten \/ resolution.task # request[r].seen.task)
    /\ Leave(r)
    /\ UNCHANGED <<meeting, owner, talks, votes, tasks, faults>>

\* create_task_in_transaction
NewTask == tasks + 1

assert_convertible == resolution.confirmed /\ resolution.task = NoTask

OpenConvert(r) ==
    /\ At(r, "idle") /\ resolution.known /\ ~Locked /\ assert_convertible
    /\ Enter(r, [pc |-> "convert", seen |-> resolution])
    /\ UNCHANGED <<meeting, owner, talks, votes, resolution, tasks, overwritten, faults>>

\* The task and the mark are committed together.
FinishConvert(r) ==
    /\ At(r, "convert") /\ tasks < MaxTasks
    /\ tasks' = tasks + 1
    /\ resolution' = [request[r].seen EXCEPT !.task = NewTask]
    /\ Leave(r)
    /\ UNCHANGED <<meeting, owner, talks, votes, overwritten, faults>>

\* A model or a task that fails, a caller that goes away: what was not committed is lost.
Abort(r) ==
    /\ ~At(r, "idle") /\ faults < MaxFaults /\ faults' = faults + 1
    /\ Leave(r)
    /\ UNCHANGED <<meeting, owner, talks, votes, resolution, tasks, overwritten>>

Holds(r) == \/ \E to \in Status : OpenStatus(r, to)
            \/ SaveStatus(r) \/ OpenMinutes(r) \/ SkipMinutes(r) \/ SaveMinutes(r)
            \/ OpenTalk(r) \/ \E s \in Speech : SaveTalk(r, s)
            \/ OpenVote(r) \/ \E b \in Ballot : SaveVote(r, b)
Resolves(r) == OpenConfirm(r) \/ SaveConfirm(r) \/ OpenConvert(r) \/ FinishConvert(r)
Next == create_resolution \/ \E r \in Request : Holds(r) \/ Resolves(r) \/ Abort(r)

Spec == Init /\ [][Next]_vars

-----------------------------------------------------------------------------
(* Who sees a meeting, asked of one meeting and of the list.               *)

Visible(p) == \/ p.privileged
              \/ owner.creator = p.id
              \/ owner.department # NoDepartment /\ owner.department = p.department

\* The conditions of the query; one with a department is added when the person has one.
Listed(p) == \/ p.privileged
             \/ owner.creator = p.id
             \/ p.department # NoDepartment /\ owner.department = p.department

-----------------------------------------------------------------------------
TypeOK == /\ meeting \in [status : Status, minutes : SUBSET Speech]
          /\ talks \subseteq Speech
          /\ votes \subseteq Ballot
          /\ resolution \in [known : BOOLEAN, confirmed : BOOLEAN, task : 0..MaxTasks]
          /\ tasks \in 0..MaxTasks /\ overwritten \in BOOLEAN /\ faults \in 0..MaxFaults

\* The list shows a meeting to exactly the people who can open it.
ListedIsVisible == \A p \in Principal : Listed(p) <=> Visible(p)

\* Two conversions at once make one task, unless a confirmation wipes out the mark.
OneTaskUnlessOverwritten == tasks > 1 => overwritten

\* Nothing becomes a task that a person has not confirmed, however saves overlap.
TasksAreConfirmed == tasks > 0 => resolution.confirmed

-----------------------------------------------------------------------------
(* What the documents promise and the code does not keep (see README). *)

\* A closed meeting has no way out (_MEETING_TRANSITIONS).
ClosedIsFinal == [][meeting.status = "closed" => meeting'.status = "closed"]_vars

\* A resolution is converted at most once.
ConvertedOnce == tasks <= 1

\* A meeting is spoken and voted in while it is in progress.
HeldInProgress == [][talks' # talks \/ votes' # votes => require_in_progress]_vars
=============================================================================
