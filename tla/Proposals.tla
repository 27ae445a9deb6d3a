----------------------------- MODULE Proposals ------------------------------
(***************************************************************************)
(* The life of a proposal: draft, research by an expert, review by people, *)
(* conversion into a task.                                                 *)
(*                                                                         *)
(* A use case reads the row, checks the aggregate and saves; the row it    *)
(* read stays with its unit of work, so that a save writes the columns     *)
(* that changed since the read and no others.  Nothing is locked.          *)
(*                                                                         *)
(*   draft -> researching -> reviewed -> approved (-> task) | rejected     *)
(***************************************************************************)
EXTENDS Naturals, FiniteSets

CONSTANTS
    Request,    \* requests under way at once
    MaxEdits,   \* bound: edits of the text
    MaxReviews, \* bound: reviews of a proposal
    MaxTasks,   \* bound: conversions
    MaxFaults   \* bound: requests that end half way

ProposalBoundAssumption ==
    /\ MaxEdits \in Nat /\ MaxReviews \in Nat /\ MaxTasks \in Nat /\ MaxFaults \in Nat

VARIABLES
    row,      \* proposal_card: status, deleted, text, task
    reviews,  \* proposal_review: type, decision, and the text that was looked at
    tasks,    \* task cards created from it
    audit,    \* actions in the audit trail
    request,  \* what each request knows
    faults

vars == <<row, reviews, tasks, audit, request, faults>>

-----------------------------------------------------------------------------
Status == {"none", "draft", "researching", "reviewed", "approved", "rejected"}
ProposalDecision == {"approve", "reject"}
Terminal == {"approved", "rejected"}
NoTask == 0

Review == [n : 1..MaxReviews, type : {"ai_research"}, text : 0..MaxEdits]
          \cup [n : 1..MaxReviews, type : {"human"}, decision : ProposalDecision]
NextReview == Cardinality(reviews) + 1
CanReview == NextReview <= MaxReviews

Idle == [pc |-> "idle"]
At(r, pc) == request[r].pc = pc
Enter(r, state) == request' = [request EXCEPT ![r] = state]
Leave(r) == Enter(r, Idle)
Found == row.status # "none" /\ ~row.deleted

\* A request reads the row and keeps it while its transaction lasts.
Read(r, pc) == At(r, "idle") /\ Found /\ Enter(r, [pc |-> pc, seen |-> row])

Init == /\ row = [status |-> "none", deleted |-> FALSE, text |-> 0, task |-> NoTask]
        /\ reviews = {} /\ tasks = 0 /\ audit = {} /\ faults = 0
        /\ request = [r \in Request |-> Idle]

-----------------------------------------------------------------------------
(* Drafts.                                                                 *)

\* create: a message that was promoted before gets the proposal it made then; a second
\* insert of one id fails on the primary key.
create(r) ==
    /\ At(r, "idle") /\ row.status = "none"
    /\ row' = [row EXCEPT !.status = "draft"]
    /\ UNCHANGED <<reviews, tasks, audit, request, faults>>

OpenEdit(r) ==
    /\ Read(r, "edit") /\ row.status = "draft"
    /\ UNCHANGED <<row, reviews, tasks, audit, faults>>

SaveEdit(r) ==
    /\ At(r, "edit") /\ row.text < MaxEdits
    /\ row' = [row EXCEPT !.text = @ + 1] /\ Leave(r)
    /\ UNCHANGED <<reviews, tasks, audit, faults>>

OpenDelete(r) ==
    /\ Read(r, "delete") /\ row.status = "draft"
    /\ UNCHANGED <<row, reviews, tasks, audit, faults>>

SaveDelete(r) ==
    /\ At(r, "delete")
    /\ row' = [row EXCEPT !.deleted = TRUE] /\ Leave(r)
    /\ UNCHANGED <<reviews, tasks, audit, faults>>

-----------------------------------------------------------------------------
(* Research: marked, asked for, recorded.                                  *)

\* start_research
OpenResearch(r) ==
    /\ Read(r, "start") /\ row.status \notin Terminal
    /\ UNCHANGED <<row, reviews, tasks, audit, faults>>

SaveResearching(r) ==
    /\ At(r, "start")
    /\ row' = [row EXCEPT !.status = "researching"]
    /\ Enter(r, [pc |-> "asking", seen |-> request[r].seen])
    /\ UNCHANGED <<reviews, tasks, audit, faults>>

\* The expert has answered: the row is read again.
Reread(r) ==
    /\ At(r, "asking")
    /\ IF Found /\ row.status = "researching"
         THEN Enter(r, [request[r] EXCEPT !.pc = "record"]) ELSE Leave(r)
    /\ UNCHANGED <<row, reviews, tasks, audit, faults>>

Researched == "reviewed"

\* complete_research
SaveResearch(r) ==
    /\ At(r, "record") /\ CanReview
    /\ reviews' = reviews \cup {[n |-> NextReview, type |-> "ai_research",
                                 text |-> request[r].seen.text]}
    /\ row' = [row EXCEPT !.status = Researched] /\ Leave(r)
    /\ UNCHANGED <<tasks, audit, faults>>

-----------------------------------------------------------------------------
(* Review and conversion.                                                  *)

Reviewable == row.status = "reviewed"

OpenReview(r) ==
    /\ Read(r, "review") /\ Reviewable
    /\ UNCHANGED <<row, reviews, tasks, audit, faults>>

\* record_human_review
SaveReview(r, decision) ==
    /\ At(r, "review") /\ CanReview
    /\ reviews' = reviews \cup {[n |-> NextReview, type |-> "human", decision |-> decision]}
    /\ row' = [row EXCEPT !.status = IF decision = "approve" THEN "approved" ELSE "rejected"]
    /\ Enter(r, [pc |-> "audit", action |-> decision])
    /\ UNCHANGED <<tasks, audit, faults>>

\* Variant of assert_convertible: a proposal that was reviewed either way.
assert_convertibleReviewed == row.status \in Terminal \cup {"reviewed"} /\ row.task = NoTask

assert_convertible == row.status = "approved" /\ row.task = NoTask

OpenConvert(r) ==
    /\ Read(r, "convert") /\ assert_convertible
    /\ UNCHANGED <<row, reviews, tasks, audit, faults>>

NewTask == tasks + 1

\* The task and record_conversion are committed together.
SaveConvert(r) ==
    /\ At(r, "convert") /\ tasks < MaxTasks
    /\ tasks' = tasks + 1
    /\ row' = [row EXCEPT !.task = NewTask]
    /\ Enter(r, [pc |-> "audit", action |-> "convert"])
    /\ UNCHANGED <<reviews, audit, faults>>

\* The audit record is a transaction of its own, after the one it is about.
Audit(r) ==
    /\ At(r, "audit")
    /\ audit' = audit \cup {request[r].action} /\ Leave(r)
    /\ UNCHANGED <<row, reviews, tasks, faults>>

Abort(r) ==
    /\ ~At(r, "idle") /\ faults < MaxFaults /\ faults' = faults + 1
    /\ Leave(r)
    /\ UNCHANGED <<row, reviews, tasks, audit>>

Drafts(r) == create(r) \/ OpenEdit(r) \/ SaveEdit(r) \/ OpenDelete(r) \/ SaveDelete(r)
Researches(r) == OpenResearch(r) \/ SaveResearching(r) \/ Reread(r) \/ SaveResearch(r)
Decides(r) == \/ OpenReview(r) \/ \E d \in ProposalDecision : SaveReview(r, d)
              \/ OpenConvert(r) \/ SaveConvert(r) \/ Audit(r)
Next == \E r \in Request : Drafts(r) \/ Researches(r) \/ Decides(r) \/ Abort(r)

Spec == Init /\ [][Next]_vars

-----------------------------------------------------------------------------
TypeOK == /\ row \in [status : Status, deleted : BOOLEAN, text : 0..MaxEdits,
                      task : 0..MaxTasks]
          /\ reviews \subseteq Review
          /\ tasks \in 0..MaxTasks
          /\ audit \subseteq ProposalDecision \cup {"convert"}
          /\ faults \in 0..MaxFaults

HumanSaid(d) == \E v \in reviews : v.type = "human" /\ v.decision = d
Looked == \E v \in reviews : v.type = "ai_research"

\* The red line: however requests overlap, a proposal that says approved was approved by
\* a person.
ApprovedByPeople == row.status = "approved" => HumanSaid("approve")

\* People decide after an expert has looked at the proposal.
DecisionsFollowResearch == \A d \in ProposalDecision : HumanSaid(d) => Looked

\* A task is made of a proposal that a person approved.
TasksAreApproved == tasks > 0 => HumanSaid("approve")

-----------------------------------------------------------------------------
(* What the documents promise and the code does not keep (see README). *)

\* A human decision is final (test_only_human_review_creates_terminal_decision).
DecisionIsFinal == [][row.status \in Terminal => row'.status = row.status]_vars

\* A proposal is converted at most once.
ConvertedOnce == tasks <= 1

\* The text is amended while the proposal is a draft (edit_draft).
OnlyDraftsChange == [][row'.text # row.text => row.status = "draft"]_vars
=============================================================================
