--------------------------- MODULE WorkflowRuntime ---------------------------
(***************************************************************************)
(* The durable execution of ONE workflow run: its steps, its outbox        *)
(* events, and the worker processes that lease and execute them            *)
(* (app/contexts/foundations/execution/workflow_runtime and                *)
(* app/bootstrap/workflow_worker.py).                                      *)
(*                                                                         *)
(* One action is one committed database transaction, or one stretch of     *)
(* work between two transactions.  A worker handles one event at a time:   *)
(*                                                                         *)
(*   idle -ClaimEvent-> handling -HandleAdvance/HandleDecision-> idle      *)
(*   handling -ClaimStep-> claimed -Prepare-> prepared -Execute-> worked   *)
(*            -Finalize-> settling -Settle-> idle                          *)
(*   any of these, on an exception -> raised -FailEvent-> idle             *)
(*                                                                         *)
(* and everything it remembers between two transactions is its record in   *)
(* `worker`; every guard on the tables is evaluated when it writes.        *)
(***************************************************************************)
EXTENDS OutboxTable, FiniteSets

CONSTANTS
    Step,        \* the steps of the run
    NoStep,      \* "no workflow_step_id in the payload"
    Dep,         \* Dep[s]: the steps s depends on (depends_on)
    RedLine,     \* the steps with red_line = TRUE
    MaxFaults,   \* bound: crashes, exceptions and missed heartbeats of a behaviour
    MaxReplays   \* bound: dead-letter replays of a behaviour

ASSUME NoStepAssumption == NoStep \notin Step
ASSUME StepAssumption == Step # {}     \* "must contain at least one step"
ASSUME DepAssumption == Dep \in [Step -> SUBSET Step]
ASSUME RedLineAssumption == RedLine \subseteq Step
ASSUME BoundsAssumption == MaxFaults \in Nat /\ MaxReplays \in Nat

VARIABLES
    step,      \* the WorkflowStep rows
    run,       \* WorkflowRun.status
    outbox,    \* the OutboxEvent rows, by dedupe key
    worker,    \* what each worker process holds in memory
    accepted,  \* history: the steps a human accepted
    effects,   \* history: how often the work of a step was done
    faults,    \* how many faults have happened
    replays    \* how many replays have happened

vars == <<step, run, outbox, worker, accepted, effects, faults, replays>>

-----------------------------------------------------------------------------
(* Data. *)

\* "cancelled" is a declared status that no code ever writes.
StepStatus == {"queued", "running", "waiting_human", "succeeded", "failed"}
RunStatus == StepStatus

StepRow == [status  : StepStatus,
            version : Nat,
            attempt : Nat,
            owner   : Worker \cup {NoWorker},
            lease   : Lease]

NewStep == [status |-> "queued", version |-> 0, attempt |-> 0,
            owner |-> NoWorker, lease |-> "none"]

AdvanceKinds  == {"advance", "resume"}     \* event_type workflow.advance
StepKinds     == {"execute", "recover"}    \* event_type workflow.step.execute
DecisionKinds == {"accept", "reject"}      \* event_type task decision, aggregate "task"
Kind == AdvanceKinds \cup StepKinds \cup DecisionKinds

\* Dedupe keys.
Key == [kind : Kind, step : Step \cup {NoStep}, n : Nat]

StartKey         == [kind |-> "advance", step |-> NoStep, n |-> 0]
AdvanceKey(s, n) == [kind |-> "advance", step |-> s, n |-> n]
ResumeKey(s, n)  == [kind |-> "resume",  step |-> s, n |-> n]
ExecuteKey(s, n) == [kind |-> "execute", step |-> s, n |-> n]
RecoverKey(s, n) == [kind |-> "recover", step |-> s, n |-> n]
DecisionKey(d, s, n) == [kind |-> d, step |-> s, n |-> n]

PC == {"idle", "handling", "claimed", "prepared", "worked", "settling", "raised", "dead"}
Outcome == {"none", "succeeded", "failed", "complete", "defer"}

\* The event in hand, the claim (attempt and version) it obtained, and what
\* came of it.
WorkerState == [pc : PC, event : Key, attempt : Nat, version : Nat, outcome : Outcome]

Idle == [pc |-> "idle", event |-> StartKey, attempt |-> 0, version |-> 0, outcome |-> "none"]
Dead == [Idle EXCEPT !.pc = "dead"]
Handling(k) == [Idle EXCEPT !.pc = "handling", !.event = k]
Holding(k, row) ==
    [pc |-> "claimed", event |-> k, attempt |-> row.attempt, version |-> row.version,
     outcome |-> "none"]
Moved(state, pc, outcome) == [state EXCEPT !.pc = pc, !.outcome = outcome]

Busy(w) == worker[w].pc \notin {"idle", "dead"}
Live(w) == worker[w].pc # "dead"

-----------------------------------------------------------------------------
(* Reading the step rows. *)

Succeeded(st) == {s \in Step : st[s].status = "succeeded"}

\* Variant of DeriveRunStatus: a waiting step hides a failed one.
DeriveWaitingFirst(st) ==
    LET statuses == {st[s].status : s \in Step}
    IN  IF statuses = {"succeeded"}                        THEN "succeeded"
        ELSE IF "waiting_human" \in statuses               THEN "waiting_human"
        ELSE IF "failed" \in statuses                      THEN "failed"
        ELSE IF statuses \cap {"running", "succeeded"} # {} THEN "running"
        ELSE "queued"

\* The precedence of derive_run_status.
DeriveRunStatus(st) ==
    LET statuses == {st[s].status : s \in Step}
    IN  IF statuses = {"succeeded"}                        THEN "succeeded"
        ELSE IF "failed" \in statuses                      THEN "failed"
        ELSE IF "waiting_human" \in statuses               THEN "waiting_human"
        ELSE IF statuses \cap {"running", "succeeded"} # {} THEN "running"
        ELSE "queued"

DepsSucceeded(st, s) == Dep[s] \subseteq Succeeded(st)

ExpiredStep(row) == row.status = "running" /\ row.lease = "expired"

\* Variants of ClaimableStep: the lease is not looked at; only queued steps.
ClaimableLeasedStep(row) == row.status \in {"queued", "running"}
ClaimableQueuedStep(row) == row.status = "queued"

ClaimableStep(row) == row.status = "queued" \/ ExpiredStep(row)

\* Variant of ReadySteps: the dependencies need only have started.
ReadyOnceStarted(st) ==
    {s \in Step : ClaimableStep(st[s]) /\ \A d \in Dep[s] : st[d].status # "queued"}

ReadySteps(st) == {s \in Step : ClaimableStep(st[s]) /\ DepsSucceeded(st, s)}

\* The UPDATEs of claim_step_result and of complete_step.
Claimed(row, w) ==
    [status |-> "running", version |-> row.version + 1, attempt |-> row.attempt + 1,
     owner |-> w, lease |-> "live"]

Finished(row, status) ==
    [row EXCEPT !.status = status, !.version = row.version + 1,
                !.owner = NoWorker, !.lease = "none"]

\* Variant of TerminalStatuses: a waiting step is touched.
TerminalWithoutWaiting == {"succeeded", "failed"}

\* The steps fail_from_outbox does not touch.
TerminalStatuses == {"succeeded", "waiting_human", "failed"}

\* Variant of ClaimCurrent: whose attempt is running is not looked at.
ClaimRunning(w) == step[worker[w].event.step].status = "running"

\* The fence of prepare and complete_step: the claim in hand is the row's.
ClaimCurrent(w) ==
    LET row == step[worker[w].event.step]
    IN  /\ row.status = "running"
        /\ row.owner = w
        /\ row.attempt = worker[w].attempt
        /\ row.version = worker[w].version

-----------------------------------------------------------------------------
(* A worker: leasing an event, the one-transaction handlers. *)

Init ==
    /\ step = [s \in Step |-> NewStep]
    /\ run = "queued"
    /\ outbox = [k \in {StartKey} |-> NewRow]
    /\ worker = [w \in Worker |-> Idle]
    /\ accepted = {}
    /\ effects = [s \in Step |-> 0]
    /\ faults = 0
    /\ replays = 0

ClaimEvent(w, k) ==
    /\ worker[w].pc = "idle"
    /\ Claimable(outbox[k])
    /\ outbox' = [outbox EXCEPT ![k] = ClaimRow(@, w)]
    /\ worker' = [worker EXCEPT ![w] = Handling(k)]
    /\ UNCHANGED <<step, run, accepted, effects, faults, replays>>

\* Nothing is scheduled for a finished or a waiting run.
ReadyKeys(status) ==
    IF status \in {"succeeded", "failed", "waiting_human"}
    THEN {}
    ELSE {ExecuteKey(s, step[s].version) : s \in ReadySteps(step)}

\* workflow.advance: refresh the run, enqueue the ready steps and complete the
\* event, all in one transaction.
HandleAdvance(w) ==
    LET k == worker[w].event
    IN  /\ worker[w].pc = "handling"
        /\ k.kind \in AdvanceKinds
        /\ run' = DeriveRunStatus(step)
        /\ outbox' = [EnqueueAll(outbox, ReadyKeys(run')) EXCEPT ![k] = CompleteRow(@, w)]
        /\ worker' = [worker EXCEPT ![w] = Idle]
        /\ UNCHANGED <<step, accepted, effects, faults, replays>>

\* Variant of Decidable: the version after the one the human saw.
DecidableNext(s, n) == step[s].status = "waiting_human" /\ step[s].version = n + 1

\* A decision applies to the version of the step the human saw, and only once.
Decidable(s, n) == step[s].status = "waiting_human" /\ step[s].version = n

DecisionTarget(d) == IF d = "accept" THEN "succeeded" ELSE "failed"

Decided(row, d) == [row EXCEPT !.status = DecisionTarget(d), !.version = row.version + 1]

\* Variant of DecidedKeys: the resume event is forgotten.
DecidedSilently(d, s, n) == {}

\* apply_task_decision: the step, the run and the new event of a decision d on
\* version n of s; nothing when the decision no longer applies.
DecidedStep(d, s, n) ==
    IF Decidable(s, n)
    THEN [step EXCEPT ![s] = Decided(@, d)]
    ELSE step
DecidedRun(d, s, n) ==
    IF Decidable(s, n) THEN DeriveRunStatus(DecidedStep(d, s, n)) ELSE run
DecidedKeys(d, s, n) ==
    IF Decidable(s, n) /\ d = "accept" THEN {ResumeKey(s, n)} ELSE {}

\* The decision event of the task card, delivered by the worker.
HandleDecision(w) ==
    LET k == worker[w].event
    IN  /\ worker[w].pc = "handling"
        /\ k.kind \in DecisionKinds
        /\ step' = DecidedStep(k.kind, k.step, k.n)
        /\ run' = DecidedRun(k.kind, k.step, k.n)
        /\ outbox' = [EnqueueAll(outbox, DecidedKeys(k.kind, k.step, k.n))
                         EXCEPT ![k] = CompleteRow(@, w)]
        /\ worker' = [worker EXCEPT ![w] = Idle]
        /\ UNCHANGED <<accepted, effects, faults, replays>>

-----------------------------------------------------------------------------
(* A worker: executing a step (WorkflowStepExecutionApplication.run). *)

\* Variant of Disposition: an event that finds its step leased is completed.
DispositionComplete(row) == "complete"

\* What the event does after the handler: "complete" or "defer".
Disposition(row) ==
    IF row.status = "running" THEN "defer" ELSE "complete"

\* Claim the step, or find it leased by another worker (defer the event) or
\* past execution (complete the event).
ClaimStep(w) ==
    LET s == worker[w].event.step
    IN  /\ worker[w].pc = "handling"
        /\ worker[w].event.kind \in StepKinds
        /\ IF ClaimableStep(step[s])
           THEN /\ step' = [step EXCEPT ![s] = Claimed(@, w)]
                /\ run' = IF run = "queued" THEN "running" ELSE run
                /\ worker' = [worker EXCEPT ![w] = Holding(@.event, Claimed(step[s], w))]
           ELSE /\ worker' = [worker EXCEPT ![w] = Moved(@, "settling", Disposition(step[s]))]
                /\ UNCHANGED <<step, run>>
        /\ UNCHANGED <<outbox, accepted, effects, faults, replays>>

\* Read the inputs of the step, unless the claim was lost meanwhile.
Prepare(w) ==
    /\ worker[w].pc = "claimed"
    /\ worker' = [worker EXCEPT ![w] =
                   Moved(@, IF ClaimCurrent(w) THEN "prepared" ELSE "raised", "none")]
    /\ UNCHANGED <<step, run, outbox, accepted, effects, faults, replays>>

\* The agent or capability runs outside any transaction.
Execute(w) ==
    /\ worker[w].pc = "prepared"
    /\ \E result \in {"succeeded", "failed"} :
          worker' = [worker EXCEPT ![w] = Moved(@, "worked", result)]
    /\ effects' = [effects EXCEPT ![worker[w].event.step] = @ + 1]
    /\ UNCHANGED <<step, run, outbox, accepted, faults, replays>>

\* Variant of CompletionTarget: the red line is not looked at.
CompletionUnattended(s, result) == IF result = "failed" THEN "failed" ELSE "succeeded"

CompletionTarget(s, result) ==
    IF result = "failed" THEN "failed"
    ELSE IF s \in RedLine THEN "waiting_human"
    ELSE "succeeded"

\* Variant of AdvanceKeys: the advance event is forgotten.
AdvanceSilently(s, target, attempt) == {}

\* Only a step that succeeded by itself advances the run; a red-line step waits.
AdvanceKeys(s, target, attempt) ==
    IF target = "succeeded" THEN {AdvanceKey(s, attempt)} ELSE {}

\* Record the result under the fence, refresh the run and enqueue the advance.
Finalize(w) ==
    LET s == worker[w].event.step
        target == CompletionTarget(s, worker[w].outcome)
    IN  /\ worker[w].pc = "worked"
        /\ IF ClaimCurrent(w)
           THEN /\ step' = [step EXCEPT ![s] = Finished(@, target)]
                /\ run' = DeriveRunStatus(step')
                /\ outbox' = EnqueueAll(outbox, AdvanceKeys(s, target, step[s].attempt))
                /\ worker' = [worker EXCEPT ![w] = Moved(@, "settling", "complete")]
           ELSE /\ worker' = [worker EXCEPT ![w] = Moved(@, "raised", "none")]
                /\ UNCHANGED <<step, run, outbox>>
        /\ UNCHANGED <<accepted, effects, faults, replays>>

\* The last transaction of process_one; a lost event lease is not noticed.
Settle(w) ==
    LET k == worker[w].event
    IN  /\ worker[w].pc = "settling"
        /\ outbox' = [outbox EXCEPT ![k] = IF worker[w].outcome = "defer"
                                           THEN DeferRow(@, w) ELSE CompleteRow(@, w)]
        /\ worker' = [worker EXCEPT ![w] = Idle]
        /\ UNCHANGED <<step, run, accepted, effects, faults, replays>>

-----------------------------------------------------------------------------
(* A worker: the except branch of process_one. *)

\* Variant of StepToFail: the status of the step is not looked at.
StepToFailAlways(k) == k.kind \in StepKinds

\* fail_from_outbox: the step of the event fails, unless the event has none or
\* its step is past execution, in which case the run itself is failed.
StepToFail(k) == k.kind \in StepKinds /\ step[k.step].status \notin TerminalStatuses

FailFromOutbox(k) ==
    IF StepToFail(k)
    THEN /\ step' = [step EXCEPT ![k.step] = Finished(@, "failed")]
         /\ run' = DeriveRunStatus(step')
    ELSE /\ run' = "failed"
         /\ UNCHANGED step

\* Whether the attempts are used up is read without the fence that `fail` has;
\* events of task cards have no terminal handler.
FailEvent(w) ==
    LET k == worker[w].event
    IN  /\ worker[w].pc = "raised"
        /\ outbox' = [outbox EXCEPT ![k] = FailRow(@, w)]
        /\ IF Exhausted(outbox[k]) /\ k.kind \notin DecisionKinds
           THEN FailFromOutbox(k)
           ELSE UNCHANGED <<step, run>>
        /\ worker' = [worker EXCEPT ![w] = Idle]
        /\ UNCHANGED <<accepted, effects, faults, replays>>

-----------------------------------------------------------------------------
(* Faults, counted against MaxFaults. *)

Fault == faults < MaxFaults /\ faults' = faults + 1

\* An exception of the agent, of a capability or of the database, before or
\* after the work was done.
Raise(w) ==
    /\ worker[w].pc \in {"handling", "claimed", "prepared", "worked", "settling"}
    /\ Fault
    /\ worker' = [worker EXCEPT ![w] = Moved(@, "raised", "none")]
    /\ UNCHANGED <<step, run, outbox, accepted, effects, replays>>

\* The transaction of the except branch fails too: run_forever logs it and
\* goes on, the event stays leased.
Abandon(w) ==
    /\ worker[w].pc = "raised"
    /\ Fault
    /\ worker' = [worker EXCEPT ![w] = Idle]
    /\ UNCHANGED <<step, run, outbox, accepted, effects, replays>>

\* The process dies (or its task is cancelled); a restarted process has a new
\* worker_id, so it is another, so far idle, member of Worker.
Crash(w) ==
    /\ Live(w)
    /\ \E other \in Worker \ {w} : Live(other)
    /\ Fault
    /\ worker' = [worker EXCEPT ![w] = Dead]
    /\ UNCHANGED <<step, run, outbox, accepted, effects, replays>>

-----------------------------------------------------------------------------
(* Leases: time passes, heartbeats renew. *)

\* The worker whose heartbeat keeps the lease of event k alive, if any.
EventTended(k) == \E w \in Worker : Busy(w) /\ worker[w].event = k /\ outbox[k].owner = w

ExpireEvent(k) ==
    /\ outbox[k].status = "processing"
    /\ outbox[k].lease = "live"
    /\ outbox' = [outbox EXCEPT ![k].lease = "expired"]
    /\ UNCHANGED <<step, run, worker, accepted, effects, replays>>

EventLeaseRunsOut(k) == ~EventTended(k) /\ ExpireEvent(k) /\ UNCHANGED faults
EventLeaseLapses(k)  == EventTended(k) /\ ExpireEvent(k) /\ Fault

\* outbox_lease_heartbeat: also revives a lease that had run out, as long as no
\* other worker took the event.
RenewEvent(w) ==
    /\ Busy(w)
    /\ outbox[worker[w].event].lease = "expired"
    /\ Holds(outbox[worker[w].event], w)
    /\ outbox' = [outbox EXCEPT ![worker[w].event] = RenewRow(@, w)]
    /\ UNCHANGED <<step, run, worker, accepted, effects, faults, replays>>

StepTended(s) ==
    \E w \in Worker : /\ worker[w].pc \in {"claimed", "prepared", "worked"}
                      /\ worker[w].event.step = s
                      /\ ClaimCurrent(w)

ExpireStep(s) ==
    /\ step[s].status = "running"
    /\ step[s].lease = "live"
    /\ step' = [step EXCEPT ![s].lease = "expired"]
    /\ UNCHANGED <<run, outbox, worker, accepted, effects, replays>>

\* renew_step_lease asks for an unexpired lease: an expired one never revives.
StepLeaseRunsOut(s) == ~StepTended(s) /\ ExpireStep(s) /\ UNCHANGED faults
StepLeaseLapses(s)  == StepTended(s) /\ ExpireStep(s) /\ Fault

-----------------------------------------------------------------------------
(* The recovery scan, the humans and the operator. *)

\* Variant of RecoverKeys: every unfinished step is recovered.
RecoverUnfinished ==
    {RecoverKey(s, step[s].version) : s \in {r \in Step : ClaimableStep(step[r])}}

\* The steps whose lease ran out, once per version.
RecoverKeys == {RecoverKey(s, step[s].version) : s \in {r \in Step : ExpiredStep(step[r])}}

\* requeue_expired_steps runs in the loop of an idle worker.
Recover ==
    /\ \E w \in Worker : worker[w].pc = "idle"
    /\ ~(RecoverKeys \subseteq DOMAIN outbox)
    /\ outbox' = EnqueueAll(outbox, RecoverKeys)
    /\ UNCHANGED <<step, run, worker, accepted, effects, faults, replays>>

\* Accepting the task card: the decision event, the decision itself and the
\* continuation of the run commit together.
HumanAccept(s) ==
    LET n == step[s].version
    IN  /\ step[s].status = "waiting_human"
        /\ step' = DecidedStep("accept", s, n)
        /\ run' = DecidedRun("accept", s, n)
        /\ outbox' = EnqueueAll(outbox, {DecisionKey("accept", s, n)}
                                          \cup DecidedKeys("accept", s, n))
        /\ accepted' = accepted \cup {s}
        /\ UNCHANGED <<worker, effects, faults, replays>>

\* Rejecting it only records the decision event.
HumanReject(s) ==
    LET k == DecisionKey("reject", s, step[s].version)
    IN  /\ step[s].status = "waiting_human"
        /\ k \notin DOMAIN outbox
        /\ outbox' = EnqueueAll(outbox, {k})
        /\ UNCHANGED <<step, run, worker, accepted, effects, faults, replays>>

ReplayEvent(k) ==
    /\ Replayable(outbox[k])
    /\ replays < MaxReplays
    /\ replays' = replays + 1
    /\ outbox' = [outbox EXCEPT ![k] = ReplayRow(@)]
    /\ UNCHANGED <<step, run, worker, accepted, effects, faults>>

-----------------------------------------------------------------------------
\* One step of a worker that has an event in hand.
Work(w) ==
    \/ HandleAdvance(w)
    \/ HandleDecision(w)
    \/ ClaimStep(w)
    \/ Prepare(w)
    \/ Execute(w)
    \/ Finalize(w)
    \/ Settle(w)
    \/ FailEvent(w)

Next ==
    \/ \E w \in Worker : Work(w) \/ Raise(w) \/ Abandon(w) \/ Crash(w) \/ RenewEvent(w)
    \/ \E w \in Worker, k \in DOMAIN outbox : ClaimEvent(w, k)
    \/ \E k \in DOMAIN outbox : EventLeaseRunsOut(k) \/ EventLeaseLapses(k) \/ ReplayEvent(k)
    \/ \E s \in Step : StepLeaseRunsOut(s) \/ StepLeaseLapses(s)
    \/ \E s \in Step : HumanAccept(s) \/ HumanReject(s)
    \/ Recover

Spec == Init /\ [][Next]_vars

-----------------------------------------------------------------------------
(* Fairness: what the scheduling of the code gives. *)

\* The events about step s, or about the whole run.
ClaimEventOf(s) == \E w \in Worker, k \in DOMAIN outbox : k.step = s /\ ClaimEvent(w, k)

\* A human looks at a waiting step and decides; nothing makes a human decide
\* again when the first decision is still on its way or was dead-lettered.
Decide(s) ==
    /\ DecisionKey("reject", s, step[s].version) \notin DOMAIN outbox
    /\ HumanAccept(s) \/ HumanReject(s)

\* A process that is not dead goes on with what it does.  claim_next orders by
\* available_at, so an event that stays claimable gets its turn.
Fairness ==
    /\ \A w \in Worker : WF_vars(Work(w))
    /\ \A s \in Step \cup {NoStep} : SF_vars(ClaimEventOf(s))
    /\ WF_vars(\E k \in DOMAIN outbox : EventLeaseRunsOut(k))
    /\ \A s \in Step : WF_vars(StepLeaseRunsOut(s))
    /\ \A s \in Step : WF_vars(Decide(s))
    /\ WF_vars(Recover)

FairSpec == Spec /\ Fairness

-----------------------------------------------------------------------------
(* Properties. *)

\* The types of the tables and of the workers.
TypeOK ==
    /\ step \in [Step -> StepRow]
    /\ run \in RunStatus
    /\ DOMAIN outbox \subseteq Key
    /\ \A k \in DOMAIN outbox : outbox[k] \in Row
    /\ worker \in [Worker -> WorkerState]
    /\ \A w \in Worker : Busy(w) => worker[w].event \in DOMAIN outbox
    /\ accepted \subseteq Step
    /\ effects \in [Step -> Nat]
    /\ faults \in 0..MaxFaults
    /\ replays \in 0..MaxReplays

\* Why the properties below hold: the events in the table and the claims in the
\* workers' hands carry the evidence that the code itself no longer checks.
EventsJustified ==
    \A k \in DOMAIN outbox :
        /\ k.kind \in StepKinds \cup DecisionKinds => k.step \in Step
        /\ k.kind \in StepKinds => DepsSucceeded(step, k.step)
        /\ k.kind = "accept" => k.step \in accepted
        /\ outbox[k].status = "processing" => outbox[k].attempts > 0

ClaimsJustified ==
    \A w \in Worker :
        /\ worker[w].pc \in {"claimed", "prepared", "worked", "settling"} =>
              worker[w].event.kind \in StepKinds
        /\ worker[w].pc \in {"claimed", "prepared", "worked"} =>
              step[worker[w].event.step].status # "queued"

StepsJustified ==
    \A s \in Step :
        /\ step[s].status # "queued" => DepsSucceeded(step, s)
        /\ effects[s] > 0 => step[s].status # "queued"
        /\ step[s].status = "succeeded" /\ s \in RedLine => s \in accepted

Justified == EventsJustified /\ ClaimsJustified /\ StepsJustified

\* No step is claimed, worked on, finished or even failed before every step it
\* depends on has succeeded, although claim_step_result itself never looks at
\* depends_on: only enqueue_ready_steps does.
DependenciesBeforeStart ==
    \A s \in Step : step[s].status # "queued" \/ effects[s] > 0 => DepsSucceeded(step, s)

\* The red line: work behind a red-line step is done only after a human accepted
\* that step, whatever was retried, recovered, replayed or delivered twice.
HumanGate ==
    \A s \in RedLine, t \in Step : s \in Dep[t] /\ effects[t] > 0 => s \in accepted

\* The status of a run that was not failed by an exhausted event says what its
\* steps say.
RunReflectsSteps ==
    LET With(status) == {s \in Step : step[s].status = status}
    IN  run # "failed" =>
          /\ With("failed") = {}
          /\ (run = "succeeded") <=> (With("succeeded") = Step)
          /\ (run = "waiting_human") <=> (With("waiting_human") # {})
          /\ (run = "queued") <=> (With("queued") = Step)

\* A ready step of a run that is going on never lacks an event that will start it
\* or a human decision that will enqueue one.
NoLostTrigger ==
    \A s \in ReadySteps(step) :
        \/ run = "failed"
        \/ \E t \in Step : step[t].status = "waiting_human"
        \/ \E k \in DOMAIN outbox :
              /\ Unsettled(outbox[k])
              /\ k.kind \in AdvanceKinds \/ (k.kind \in StepKinds /\ k.step = s)

\* Doing the work of a step once more takes a fault: retries, deferred events,
\* recovery scans and replays alone never repeat it.
RepetitionNeedsFault == \A s \in Step : effects[s] <= 1 + faults

\* Only the execution of the latest attempt completes a step: a worker that lost
\* its claim cannot, even when its own work succeeded.
FencedCompletion ==
    [][\A s \in Step :
         step[s].status = "running" /\ step'[s].status \in {"succeeded", "waiting_human"}
           => \E w \in Worker : /\ worker[w].pc = "worked"
                                /\ worker[w].event.step = s
                                /\ worker[w].attempt = step[s].attempt
                                /\ worker[w].outcome = "succeeded"]_vars

\* The outbox loses no event and settles none behind the back of its owner: events are
\* never removed, a done one is final, a dead-lettered one comes back only by a replay
\* with a fresh budget, an event dies only once its attempts are used up, a rival takes
\* it over only after its lease ran out, and only the owner, busy with it, ends it.
EventsHonoured ==
    [][\A k \in DOMAIN outbox :
         LET before == outbox[k]
             after  == outbox'[k]
         IN  /\ k \in DOMAIN outbox'
             /\ before.status = "done" => after = before
             /\ before.status = "failed" => after \in {before, NewRow}
             /\ before.status # "failed" /\ after.status = "failed" =>
                   before.attempts >= MaxAttempts
             /\ before.status = "processing" /\ after.status = "processing"
                   /\ after.owner # before.owner => before.lease = "expired"
             /\ before.status = "processing" /\ after.status # "processing" =>
                   Busy(before.owner) /\ worker[before.owner].event = k]_vars

\* The runtime keeps the contract of its steps.
Contract == INSTANCE WorkflowContract WITH
                status <- [s \in Step |-> step[s].status],
                worked <- {s \in Step : effects[s] > 0}
KeepsContract == Contract!Spec

\* What finished stays finished: a succeeded or failed step never changes again, and
\* a waiting step changes only into what a human decided.
FinishedStepsStay ==
    [][\A s \in Step :
         /\ step[s].status \in {"succeeded", "failed"} => step'[s] = step[s]
         /\ step[s].status = "waiting_human" /\ step'[s] # step[s] =>
              \/ step'[s].status = "succeeded" /\ s \in accepted'
              \/ /\ step'[s].status = "failed"
                 /\ DecisionKey("reject", s, step[s].version) \in DOMAIN outbox]_vars

\* A rejection that ran out of attempts: nothing but a replay brings it back.
RejectionLost ==
    \E s \in Step : LET k == DecisionKey("reject", s, step[s].version)
                    IN  /\ step[s].status = "waiting_human"
                        /\ k \in DOMAIN outbox
                        /\ outbox[k].status = "failed"

\* An expired lease is always taken over, or its step ends otherwise.
ExpiredStepsTakenOver ==
    \A s \in Step : ExpiredStep(step[s]) ~> ~ExpiredStep(step[s])

\* A recorded rejection takes effect although the worker that delivers it may crash,
\* unless its event was dead-lettered.
RejectionsTakeEffect ==
    \A s \in Step :
        /\ step[s].status = "waiting_human"
        /\ DecisionKey("reject", s, step[s].version) \in DOMAIN outbox
        ~> step[s].status # "waiting_human" \/ RejectionLost

\* Every run ends, and stays ended, unless the rejection of a step was lost.
RunSettles == <>[](run \in {"succeeded", "failed"} \/ RejectionLost)

\* "WHEN every workflow step reaches succeeded THEN the workflow run becomes
\* succeeded": once all the events are settled too, at the latest.
AllSucceededRunSucceeded ==
    /\ Succeeded(step) = Step
    /\ \A k \in DOMAIN outbox : ~Unsettled(outbox[k])
    => run = "succeeded"

\* "final failure after a configured retry limit": no event is taken up more often than
\* its max_attempts allow.
AttemptsBounded == \A k \in DOMAIN outbox : outbox[k].attempts <= MaxAttempts
=============================================================================
