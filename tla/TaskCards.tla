------------------------------ MODULE TaskCards ------------------------------
(***************************************************************************)
(* Task cards beside a durable run (business/task_management).             *)
(*                                                                         *)
(* The runtime's transactions project their progress on the cards before   *)
(* they commit; people move the same cards through the HTTP API, run one   *)
(* by hand, and decide on it.  An acceptance that the runtime declines     *)
(* falls back to the card-only workflow of before the runtime, which       *)
(* executes every ready card inside the request.                           *)
(*                                                                         *)
(* Abstracted: the run's leases and retries (WorkflowRuntime) and the      *)
(* statements within a transaction (RunTransactions).                      *)
(***************************************************************************)
EXTENDS Naturals, FiniteSets

CONSTANTS
    Step, Parent,   \* the cards: one per step, and the run's own
    Dep, RedLine,
    MaxFaults,      \* bound: failed or exhausted steps
    MaxManual       \* bound: card moves other than deciding on a reported card

CardsParentAssumption == Parent \notin Step
CardsDepAssumption == Dep \in [Step -> SUBSET Step]
CardsRedLineAssumption == RedLine \subseteq Step
CardsBoundAssumption == MaxFaults \in Nat /\ MaxManual \in Nat

Card == Step \cup {Parent}

VARIABLES
    row,       \* the durable steps: status and version
    run,       \* the run's status
    advance,   \* a workflow.advance event is outstanding
    queue,     \* the steps with an outstanding execute event
    card,      \* the cards' statuses
    seen,      \* workflow_step_version in the payload of a step's card
    decisions, \* task decision events not yet handled
    request,   \* requests that are executing ready cards (legacy_workflow.advance)
    hands,     \* cards being run by hand
    approved,  \* history: the cards a person accepted
    inRequest, \* history: the steps whose work was done in a request
    faults, manual

vars == <<row, run, advance, queue, card, seen, decisions, request, hands,
          approved, inRequest, faults, manual>>

runtime == <<row, run, advance, queue>>

-----------------------------------------------------------------------------
StepStatus == {"queued", "running", "waiting_human", "succeeded", "failed"}
CardStatus == {"created", "dispatched", "executing", "reported", "accepted", "rejected", "cancelled"}
Decision == [step : Step, to : {"accepted", "rejected"}, version : Nat]

\* TRANSITIONS of the card's state machine.
CanTransition(from, to) ==
    \/ to = "dispatched" /\ from \in {"created", "rejected"}
    \/ to = "executing"  /\ from = "dispatched"
    \/ to = "reported"   /\ from = "executing"
    \/ to \in {"accepted", "rejected"} /\ from = "reported"
    \/ to = "cancelled"  /\ from \in {"created", "dispatched", "executing", "rejected"}

\* Variant of Driven: one move at a time.
DrivenOnce(c) == IF c \in {"created", "rejected"} THEN "dispatched"
                 ELSE IF c = "dispatched" THEN "executing" ELSE c

\* _drive to dispatched, then to executing.
Driven(c) == IF c \in {"created", "rejected", "dispatched"} THEN "executing" ELSE c

\* step.completed and step.waiting_human: reported, and accepted without a human.
OnCompleted(s, status, c) ==
    LET done == IF Driven(c) = "executing" THEN "reported" ELSE Driven(c)
    IN  IF status = "succeeded" /\ s \notin RedLine /\ done = "reported" THEN "accepted" ELSE done

\* _apply_parent_status.
OnRunStatus(status, c) ==
    LET driven == IF status = "queued" THEN c ELSE Driven(c)
        ended  == IF status \in {"succeeded", "failed"} /\ driven = "executing"
                  THEN "reported" ELSE driven
    IN  IF status = "succeeded" /\ ended = "reported" THEN "accepted" ELSE ended

DeriveRunStatus(st) ==
    LET statuses == {st[s].status : s \in Step}
    IN  IF statuses = {"succeeded"}                        THEN "succeeded"
        ELSE IF "failed" \in statuses                      THEN "failed"
        ELSE IF "waiting_human" \in statuses               THEN "waiting_human"
        ELSE IF statuses \cap {"running", "succeeded"} # {} THEN "running"
        ELSE "queued"

ReadySteps == {s \in Step : /\ row[s].status = "queued"
                            /\ \A d \in Dep[s] : row[d].status = "succeeded"}

\* The cards the fallback would execute: not started, their dependencies' cards accepted.
ReadyCards == {s \in Step : /\ card[s] \in {"created", "dispatched"}
                            /\ \A d \in Dep[s] : card[d] = "accepted"}

-----------------------------------------------------------------------------
(* create_workflow projects the run and its steps at version 0. *)
Init == /\ row = [s \in Step |-> [status |-> "queued", version |-> 0]]
        /\ run = "queued" /\ advance = TRUE /\ queue = {}
        /\ card = [c \in Card |-> "created"] /\ seen = [s \in Step |-> 0]
        /\ decisions = {} /\ request = FALSE /\ hands = {}
        /\ approved = {} /\ inRequest = {} /\ faults = 0 /\ manual = 0

Moved(s, status) == [row EXCEPT ![s] = [status |-> status, version |-> @.version + 1]]

\* refresh_run_status with its projection on the parent card; `cards` has the step's.
Refreshed(st, cards) ==
    /\ run' = DeriveRunStatus(st)
    /\ card' = IF run' = run THEN cards
               ELSE [cards EXCEPT ![Parent] = OnRunStatus(run', @)]

\* payload["workflow_step_version"] after a step's progress.
Recorded(old, version) == version

Advance ==
    /\ advance /\ advance' = FALSE
    /\ Refreshed(row, card)
    /\ queue' = IF run' \in {"succeeded", "failed", "waiting_human"} THEN queue
                ELSE queue \cup ReadySteps
    /\ UNCHANGED <<row, seen, decisions, request, hands, approved, inRequest, faults, manual>>

Claim(s) ==
    /\ s \in queue /\ queue' = queue \ {s}
    /\ row[s].status = "queued"
    /\ row' = Moved(s, "running")
    /\ seen' = [seen EXCEPT ![s] = Recorded(@, row'[s].version)]
    /\ run' = IF run = "queued" THEN "running" ELSE run
    /\ card' = [card EXCEPT ![s] = Driven(@),
                            ![Parent] = IF run' # run THEN OnRunStatus(run', @) ELSE @]
    /\ UNCHANGED <<advance, decisions, request, hands, approved, inRequest, faults, manual>>

CompletionStatus(s, ok) == IF ~ok THEN "failed"
                           ELSE IF s \in RedLine THEN "waiting_human" ELSE "succeeded"

Complete(s, ok) ==
    LET status == CompletionStatus(s, ok)
    IN  /\ row[s].status = "running"
        /\ IF ok THEN UNCHANGED faults ELSE faults < MaxFaults /\ faults' = faults + 1
        /\ row' = Moved(s, status)
        /\ seen' = [seen EXCEPT ![s] = Recorded(@, row'[s].version)]
        /\ Refreshed(row', [card EXCEPT ![s] = OnCompleted(s, status, @)])
        /\ advance' = (advance \/ status = "succeeded")
        /\ UNCHANGED <<queue, decisions, request, hands, approved, inRequest, manual>>

\* fail_from_outbox: the step's card is told nothing.
Exhaust(s) ==
    /\ row[s].status = "running"
    /\ faults < MaxFaults /\ faults' = faults + 1
    /\ row' = Moved(s, "failed")
    /\ Refreshed(row', card)
    /\ UNCHANGED <<advance, queue, seen, decisions, request, hands, approved, inRequest, manual>>

\* apply_task_decision on a decision event.
ApplyDecision(d) ==
    /\ d \in decisions /\ decisions' = decisions \ {d}
    /\ IF row[d.step] = [status |-> "waiting_human", version |-> d.version]
       THEN /\ row' = Moved(d.step, IF d.to = "accepted" THEN "succeeded" ELSE "failed")
            /\ Refreshed(row', card)
            /\ advance' = (advance \/ d.to = "accepted")
       ELSE UNCHANGED <<row, run, card, advance>>
    /\ UNCHANGED <<queue, seen, request, hands, approved, inRequest, faults, manual>>

-----------------------------------------------------------------------------
\* publish_transition: only a card with a step in its payload publishes.
Decided(c, to) ==
    IF c = Parent THEN {} ELSE {[step |-> c, to |-> to, version |-> seen[c]]}

Manual(c, to) ==
    IF card[c] = "reported" /\ to \in {"accepted", "rejected"} THEN UNCHANGED manual
    ELSE manual < MaxManual /\ manual' = manual + 1

\* POST /tasks/{id}/transition to anything but accepted.
Transition(c, to) ==
    /\ to # "accepted" /\ CanTransition(card[c], to) /\ Manual(c, to)
    /\ card' = [card EXCEPT ![c] = to]
    /\ decisions' = decisions \cup (IF to = "rejected" THEN Decided(c, to) ELSE {})
    /\ UNCHANGED <<runtime, seen, request, hands, approved, inRequest, faults>>

\* To accepted: the runtime's waiting step succeeds and resumes with the same commit;
\* for any other step's card the fallback starts; the parent's is only committed.
Accept(c) ==
    /\ CanTransition(card[c], "accepted") /\ Manual(c, "accepted")
    /\ decisions' = decisions \cup Decided(c, "accepted")
    /\ approved' = approved \cup {c}
    /\ \/ /\ c \in Step /\ row[c].status = "waiting_human"
          /\ row' = Moved(c, "succeeded")
          /\ Refreshed(row', [card EXCEPT ![c] = "accepted"])
          /\ advance' = TRUE
          /\ UNCHANGED request
       \/ /\ c \in Step /\ row[c].status # "waiting_human"
          /\ card' = [card EXCEPT ![c] = "accepted",
                                  ![Parent] = IF @ = "created" THEN "executing" ELSE @]
          /\ request' = TRUE
          /\ UNCHANGED <<row, run, advance>>
       \/ /\ c = Parent
          /\ card' = [card EXCEPT ![c] = "accepted"]
          /\ UNCHANGED <<row, run, advance, request>>
    /\ UNCHANGED <<queue, seen, hands, inRequest, faults>>

\* One card of legacy_workflow.advance: run_step, and the acceptance of what is not red-line.
RequestRuns(s, ok) ==
    LET accepts == ok /\ s \notin RedLine
    IN  /\ request /\ s \in ReadyCards
        /\ card' = [card EXCEPT ![s] = IF accepts THEN "accepted" ELSE "reported"]
        /\ decisions' = decisions \cup (IF accepts THEN Decided(s, "accepted") ELSE {})
        /\ inRequest' = inRequest \cup {s}
        /\ UNCHANGED <<runtime, seen, request, hands, approved, faults, manual>>

RequestEnds ==
    /\ request /\ ReadyCards = {} /\ request' = FALSE
    /\ UNCHANGED <<runtime, card, seen, decisions, hands, approved, inRequest, faults, manual>>

\* POST /tasks/{id}/run: dispatched and executing, the agent, reported.
RunByHand(c) ==
    /\ card[c] \in {"created", "dispatched"}
    /\ manual < MaxManual /\ manual' = manual + 1
    /\ card' = [card EXCEPT ![c] = "executing"]
    /\ hands' = hands \cup {c}
    /\ UNCHANGED <<runtime, seen, decisions, request, approved, inRequest, faults>>

ReportByHand(c) ==
    /\ c \in hands /\ hands' = hands \ {c}
    /\ card' = IF CanTransition(card[c], "reported") THEN [card EXCEPT ![c] = "reported"] ELSE card
    /\ UNCHANGED <<runtime, seen, decisions, request, approved, inRequest, faults, manual>>

-----------------------------------------------------------------------------
Runtime == \/ Advance
           \/ \E s \in Step : Claim(s) \/ Exhaust(s) \/ \E ok \in BOOLEAN : Complete(s, ok)
           \/ \E d \in decisions : ApplyDecision(d)

People == \E c \in Card : \/ Accept(c) \/ RunByHand(c) \/ ReportByHand(c)
                          \/ \E to \in CardStatus : Transition(c, to)

Next == \/ Runtime \/ People \/ RequestEnds
        \/ \E s \in Step, ok \in BOOLEAN : RequestRuns(s, ok)

\* Events and requests are served and claimed steps end; nobody has to decide.
Fairness == /\ WF_vars(Advance) /\ WF_vars(RequestEnds)
            /\ WF_vars(\E d \in decisions : ApplyDecision(d))
            /\ \A s \in Step : WF_vars(Claim(s)) /\ WF_vars(Complete(s, TRUE))
            /\ \A s \in Step : WF_vars(RequestRuns(s, TRUE))

Spec == Init /\ [][Next]_vars
FairSpec == Spec /\ Fairness

-----------------------------------------------------------------------------
(* Properties. *)

TypeOK ==
    /\ row \in [Step -> [status : StepStatus, version : Nat]]
    /\ run \in StepStatus /\ advance \in BOOLEAN /\ queue \subseteq Step
    /\ card \in [Card -> CardStatus] /\ seen \in [Step -> Nat]
    /\ decisions \subseteq Decision /\ request \in BOOLEAN
    /\ hands \subseteq Card /\ approved \subseteq Card /\ inRequest \subseteq Step
    /\ faults \in 0..MaxFaults /\ manual \in 0..MaxManual

\* However people move the cards, a red-line step is done only after one of them accepted
\* its card: acceptances made by the projection or the fallback never reach it.
RedLineNeedsHuman ==
    \A s \in RedLine : row[s].status = "succeeded" => s \in approved

\* What a person decides on is what the step is: the card of a waiting step carries
\* the step's own version, whatever moves the card made meanwhile.
DecisionsOnCurrent ==
    \A s \in Step : row[s].status = "waiting_human" => seen[s] = row[s].version

\* A card is accepted only for a finished step, by a person, or by the fallback.
AcceptedForAReason ==
    \A s \in Step : card[s] = "accepted" =>
        row[s].status = "succeeded" \/ s \in approved \/ s \in inRequest

\* As long as people only decide and no step fails, the cards tell the steps.
CardsMirrorSteps ==
    \A s \in Step :
        /\ row[s].status = "running" => card[s] = "executing"
        /\ row[s].status = "waiting_human" =>
             card[s] = "reported" \/ \E d \in decisions : d.step = s
        /\ row[s].status = "succeeded" => card[s] = "accepted"

\* "When every workflow step reaches succeeded its parent card leaves executing".
ParentLeavesExecuting ==
    (\A s \in Step : row[s].status = "succeeded") ~> card[Parent] = "accepted"

-----------------------------------------------------------------------------
(* What the documents promise and the code does not keep (see README). *)

\* "When a human accepts the linked card the step becomes succeeded" (spec), at the
\* latest when every event is handled.
AcceptanceTakesEffect ==
    \A s \in RedLine :
        s \in approved /\ decisions = {} => row[s].status # "waiting_human"

\* "... without executing downstream work inside the HTTP request".
NoWorkInRequest == inRequest = {}
=============================================================================
