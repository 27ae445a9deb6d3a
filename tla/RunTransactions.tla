--------------------------- MODULE RunTransactions ---------------------------
(***************************************************************************)
(* The transactions of the workflow runtime, statement by statement.       *)
(*                                                                         *)
(* WorkflowRuntime takes each transaction as one step.  Here one is what   *)
(* PostgreSQL runs at READ COMMITTED: it fences its step with a guarded    *)
(* UPDATE (which locks the row until the commit), reads the run, reads the *)
(* steps, writes the run, reads the inputs of the downstream steps, and    *)
(* commits; between any two of these another transaction may commit.       *)
(*                                                                         *)
(*   idle -Open*-> open -Derive-> derived -WriteRun-> written              *)
(*                                  [-Pipe-> piped] -Commit*-> idle        *)
(*                                                                         *)
(* No statement reads what another transaction has not committed, and a    *)
(* row written is locked until the commit: writes are applied there.       *)
(***************************************************************************)
EXTENDS Naturals, FiniteSets

CONSTANTS
    Txn,         \* the transactions that may be open at once
    Step, NoStep,
    Dep,         \* Dep[s]: the steps s depends on
    RedLine,     \* the steps with red_line = TRUE
    MaxFaults    \* bound: failed steps, takeovers and exhausted events of a behaviour

TxnNoStepAssumption == NoStep \notin Step
TxnStepAssumption == Step # {}
TxnDepAssumption == Dep \in [Step -> SUBSET Step]
TxnBoundAssumption == MaxFaults \in Nat

VARIABLES
    row,        \* the WorkflowStep rows: status and version
    input,      \* input_data: the steps whose datasets and artifacts it holds
    run,        \* the WorkflowRun row: status and version
    txn,        \* what each open transaction has read
    pending,    \* outbox events not yet handled
    claims,     \* the attempts some worker is (or believes to be) executing
    exhausted,  \* the steps with an event whose attempts are used up
    retired,    \* history: the steps such an event failed
    card,       \* the parent card: the last run progress it took
    faults

vars == <<row, input, run, txn, pending, claims, exhausted, retired, card, faults>>

-----------------------------------------------------------------------------
Status == {"queued", "running", "waiting_human", "succeeded", "failed"}
Versioned == [status : Status, version : Nat]
Claim == [step : Step, version : Nat]
Event == [kind : {"advance", "execute"}, step : Step \cup {NoStep}, version : Nat]
TxnKind == {"none", "claim", "finalize", "decide", "fail", "advance"}

\* `to` is the status the transaction gives its step, `version` the one it read.
TxnState == [pc : {"idle", "open", "derived", "written", "piped"}, kind : TxnKind,
             step : Step \cup {NoStep}, version : Nat, to : Status,
             seen : Versioned, status : Status, inputs : [Step -> SUBSET Step]]

Closed == [pc |-> "idle", kind |-> "none", step |-> NoStep, version |-> 0, to |-> "queued",
           seen |-> [status |-> "queued", version |-> 0], status |-> "queued",
           inputs |-> [s \in Step |-> {}]]

Opened(kind, s, version, to) ==
    [pc |-> "open", kind |-> kind, step |-> s, version |-> version, to |-> to,
     seen |-> run, status |-> "queued", inputs |-> [d \in Step |-> {}]]

\* derive_run_status: what the statuses of the steps say of the run.
DeriveRunStatus(st) ==
    LET statuses == {st[s].status : s \in Step}
    IN  IF statuses = {"succeeded"}                        THEN "succeeded"
        ELSE IF "failed" \in statuses                      THEN "failed"
        ELSE IF "waiting_human" \in statuses               THEN "waiting_human"
        ELSE IF statuses \cap {"running", "succeeded"} # {} THEN "running"
        ELSE "queued"

Downstream(s) == {d \in Step : s \in Dep[d]}

Ready(st) == {s \in Step : /\ st[s].status = "queued"
                           /\ \A d \in Dep[s] : st[d].status = "succeeded"}

Untouchable == {"succeeded", "waiting_human", "failed"}

\* fail_from_outbox reads the step and gives up on it; of a finished step it fails the run.
WritesStep(x) == x.kind \in {"claim", "finalize", "decide"} \/ (x.kind = "fail" /\ x.to = "failed")

\* Variant of LocksStep: the step is read and then written without a guard.
LocksNothing(x, s) == FALSE

\* The guarded UPDATE locks at once, the unguarded one of fail_from_outbox at its flush.
LocksStep(x, s) == /\ x.step = s /\ WritesStep(x)
                   /\ x.pc # "idle" /\ (x.kind = "fail" => x.pc # "open")
StepFree(t, s) == \A u \in Txn \ {t} : ~LocksStep(txn[u], s)

\* What list_steps returns to t: committed rows, and its own write.
View(t) == LET x == txn[t]
           IN  IF WritesStep(x) THEN [row EXCEPT ![x.step].status = x.to] ELSE row

\* "if changed: run.version += 1"; the terminal branch of fail_from_outbox always writes.
FailsRun(x) == x.kind = "fail" /\ ~WritesStep(x)
ChangesRun(x) == x.status # x.seen.status \/ FailsRun(x)
LocksRun(x) == x.pc \in {"written", "piped"} /\ ChangesRun(x)

-----------------------------------------------------------------------------
Init == /\ row = [s \in Step |-> [status |-> "queued", version |-> 0]]
        /\ input = [s \in Step |-> {}]
        /\ run = [status |-> "queued", version |-> 0]
        /\ txn = [t \in Txn |-> Closed]
        /\ pending = {[kind |-> "advance", step |-> NoStep, version |-> 0]}
        /\ claims = {} /\ exhausted = {} /\ retired = {}
        /\ card = [status |-> "queued", version |-> 0]
        /\ faults = 0

Idle(t) == txn[t].pc = "idle"
Open(t, x) == Idle(t) /\ txn' = [txn EXCEPT ![t] = x]
Fault == faults < MaxFaults /\ faults' = faults + 1
NotHandled(kind, s, v) == \A t \in Txn : ~(txn[t].kind = kind /\ txn[t].step = s
                                           /\ txn[t].version = v)

\* claim_step_result on an execute event: the step is queued, or its lease expired.
OpenClaim(t, s) ==
    /\ StepFree(t, s)
    /\ \/ /\ [kind |-> "execute", step |-> s, version |-> row[s].version] \in pending
          /\ row[s].status = "queued"
          /\ UNCHANGED faults
       \/ row[s].status = "running" /\ Fault
    /\ Open(t, Opened("claim", s, row[s].version, "running"))
    /\ UNCHANGED <<row, input, run, pending, claims, exhausted, retired, card>>

Fenced(c) == row[c.step] = [status |-> "running", version |-> c.version]

\* complete_step: the UPDATE matches only the attempt that is the latest.
OpenFinalize(t, c, ok) ==
    /\ c \in claims /\ StepFree(t, c.step) /\ NotHandled("finalize", c.step, c.version)
    /\ Fenced(c)
    /\ IF ok THEN UNCHANGED faults ELSE Fault
    /\ Open(t, Opened("finalize", c.step, c.version,
                      IF ~ok THEN "failed"
                      ELSE IF c.step \in RedLine THEN "waiting_human" ELSE "succeeded"))
    /\ UNCHANGED <<row, input, run, pending, claims, exhausted, retired, card>>

\* The UPDATE matched nothing, or the work raised: the event's last attempt is used up.
GiveUp(c) ==
    /\ c \in claims /\ NotHandled("finalize", c.step, c.version)
    /\ \/ ~Fenced(c) /\ UNCHANGED faults
       \/ Fault
    /\ claims' = claims \ {c}
    /\ exhausted' = exhausted \cup {c.step}
    /\ UNCHANGED <<row, input, run, txn, pending, retired, card>>

\* apply_task_decision: the UPDATE matches the version the human saw.
OpenDecide(t, s, to) ==
    /\ row[s].status = "waiting_human" /\ StepFree(t, s)
    /\ IF to = "failed" THEN Fault ELSE UNCHANGED faults
    /\ Open(t, Opened("decide", s, row[s].version, to))
    /\ UNCHANGED <<row, input, run, pending, claims, exhausted, retired, card>>

\* fail_from_outbox: run and step are read, and the step's status is looked at.
OpenFail(t, s) ==
    /\ s \in exhausted
    /\ \A u \in Txn : ~(txn[u].kind = "fail" /\ txn[u].step = s)
    /\ Open(t, Opened("fail", s, row[s].version,
                      IF row[s].status \in Untouchable THEN row[s].status ELSE "failed"))
    /\ UNCHANGED <<row, input, run, pending, claims, exhausted, retired, card, faults>>

\* enqueue_ready_steps on workflow.advance.
OpenAdvance(t, e) ==
    /\ e \in pending /\ e.kind = "advance" /\ NotHandled("advance", e.step, e.version)
    /\ Open(t, Opened("advance", e.step, e.version, "queued"))
    /\ UNCHANGED <<row, input, run, pending, claims, exhausted, retired, card, faults>>

-----------------------------------------------------------------------------
\* The status refresh_run_status derives, or claim_step_result and the terminal
\* branch of fail_from_outbox set.
StatusFor(t) ==
    LET x == txn[t]
    IN  IF FailsRun(x) THEN "failed"
        ELSE IF x.kind = "claim" THEN IF x.seen.status = "queued" THEN "running"
                                                                  ELSE x.seen.status
        ELSE DeriveRunStatus(View(t))

\* A fail flushes its step (and so waits for its lock) before it lists the steps.
Derive(t) ==
    /\ txn[t].pc = "open"
    /\ txn[t].kind = "fail" /\ WritesStep(txn[t]) => StepFree(t, txn[t].step)
    /\ txn' = [txn EXCEPT ![t].pc = "derived", ![t].status = StatusFor(t)]
    /\ UNCHANGED <<row, input, run, pending, claims, exhausted, retired, card, faults>>

WriteRun(t) ==
    /\ txn[t].pc = "derived"
    /\ ChangesRun(txn[t]) => \A u \in Txn \ {t} : ~LocksRun(txn[u])
    /\ txn' = [txn EXCEPT ![t].pc = "written"]
    /\ UNCHANGED <<row, input, run, pending, claims, exhausted, retired, card, faults>>

Pipes(x) == x.kind = "finalize" /\ x.to # "failed"

\* pipe_outputs reads the downstream inputs it is about to write.
Pipe(t) ==
    /\ txn[t].pc = "written" /\ Pipes(txn[t])
    /\ txn' = [txn EXCEPT ![t].pc = "piped", ![t].inputs = input]
    /\ UNCHANGED <<row, input, run, pending, claims, exhausted, retired, card, faults>>

\* Variant of Enqueued: the advance is left to the transaction that sees every step done.
EnqueuedByLast(x) ==
    IF x.kind = "advance"
    THEN IF x.status \in {"succeeded", "failed", "waiting_human"} THEN {}
         ELSE {[kind |-> "execute", step |-> s, version |-> row[s].version] : s \in Ready(row)}
    ELSE IF x.to = "succeeded" /\ x.status = "succeeded"
    THEN {[kind |-> "advance", step |-> x.step, version |-> x.version]}
    ELSE {}

\* (A changed status is projected on the parent card in the same transaction, behind the
\* run's row lock; the card ignores a version it has recorded.)
\*
\* The events the transaction inserts: an advance for a step that is done, the
\* resume of an accepted one, an execute for every step ready in a second reading.
Enqueued(x) ==
    IF x.kind = "advance"
    THEN IF x.status \in {"succeeded", "failed", "waiting_human"} THEN {}
         ELSE {[kind |-> "execute", step |-> s, version |-> row[s].version] : s \in Ready(row)}
    ELSE IF x.kind \in {"finalize", "decide"} /\ x.to = "succeeded"
    THEN {[kind |-> "advance", step |-> x.step, version |-> x.version]}
    ELSE {}

Consumed(x) ==
    CASE x.kind = "claim"   -> {[kind |-> "execute", step |-> x.step, version |-> x.version]}
      [] x.kind = "advance" -> {[kind |-> "advance", step |-> x.step, version |-> x.version]}
      [] OTHER              -> {}

Commit(t) ==
    LET x == txn[t]
    IN  /\ x.pc = IF Pipes(x) THEN "piped" ELSE "written"
        /\ row' = IF WritesStep(x)
                  THEN [row EXCEPT ![x.step] = [status |-> x.to, version |-> x.version + 1]]
                  ELSE row
        /\ input' = IF Pipes(x)
                    THEN [s \in Step |-> IF s \in Downstream(x.step)
                                         THEN x.inputs[s] \cup {x.step} ELSE input[s]]
                    ELSE input
        /\ run' = IF ChangesRun(x)
                  THEN [status |-> x.status, version |-> x.seen.version + 1] ELSE run
        /\ card' = IF ChangesRun(x) /\ card.version < run'.version THEN run' ELSE card
        /\ pending' = (pending \cup Enqueued(x)) \ Consumed(x)
        /\ claims' = CASE x.kind = "claim" ->
                            claims \cup {[step |-> x.step, version |-> x.version + 1]}
                       [] x.kind = "finalize" ->
                            claims \ {[step |-> x.step, version |-> x.version]}
                       [] OTHER -> claims
        /\ exhausted' = IF x.kind = "fail" THEN exhausted \ {x.step} ELSE exhausted
        /\ retired' = IF x.kind = "fail" THEN retired \cup {x.step} ELSE retired
        /\ txn' = [txn EXCEPT ![t] = Closed]
        /\ UNCHANGED faults

Proceed(t) == Derive(t) \/ WriteRun(t) \/ Pipe(t) \/ Commit(t)

Next == \/ \E t \in Txn, s \in Step : \/ OpenClaim(t, s) \/ OpenFail(t, s)
                                      \/ \E to \in {"succeeded", "failed"} : OpenDecide(t, s, to)
        \/ \E t \in Txn, c \in claims, ok \in BOOLEAN : OpenFinalize(t, c, ok)
        \/ \E t \in Txn, e \in pending : OpenAdvance(t, e)
        \/ \E t \in Txn : Proceed(t)
        \/ \E c \in claims : GiveUp(c)

\* A transaction runs to its commit, an event finds a worker and a claim is finished.
Fairness ==
    /\ \A t \in Txn : WF_vars(Proceed(t))
    /\ WF_vars(\E t \in Txn, e \in pending : OpenAdvance(t, e))
    /\ \A s \in Step : /\ WF_vars(\E t \in Txn : OpenClaim(t, s) /\ faults' = faults)
                       /\ WF_vars(\E t \in Txn : OpenFail(t, s))
                       /\ WF_vars(\E t \in Txn, c \in claims : c.step = s /\ OpenFinalize(t, c, TRUE))
                       /\ WF_vars(\E c \in claims : c.step = s /\ ~Fenced(c) /\ GiveUp(c))

Spec == Init /\ [][Next]_vars
FairSpec == Spec /\ Fairness
-----------------------------------------------------------------------------
(* Properties. *)

TypeOK ==
    /\ row \in [Step -> Versioned] /\ input \in [Step -> SUBSET Step]
    /\ run \in Versioned /\ card \in Versioned /\ txn \in [Txn -> TxnState]
    /\ pending \subseteq Event /\ claims \subseteq Claim
    /\ exhausted \subseteq Step /\ retired \subseteq Step
    /\ faults \in 0..MaxFaults

Quiet == /\ \A t \in Txn : Idle(t)
         /\ pending = {} /\ claims = {} /\ exhausted = {}

\* No step is started on the strength of a dependency that another transaction has
\* not committed: enqueue_ready_steps lists the steps a second time (event_handler.py:63).
DependenciesBeforeStart ==
    \A s \in Step : row[s].status # "queued" =>
        \A d \in Dep[s] : row[d].status = "succeeded"

\* However the statements of parallel completions interleave, when nothing is left to
\* do the run's status is the one its steps give: what one transaction missed, the
\* advance another one enqueued repairs.
QuietRunTells == Quiet => run.status = DeriveRunStatus(row)

\* No run is failed but for a step that failed or an event that was given up, whatever
\* a transaction had read when it wrote the status.
FailedForAReason ==
    run.status = "failed" => retired # {} \/ \E s \in Step : row[s].status = "failed"

\* A run whose steps never fail completes, whatever its transactions overlook.
RunCompletes == <>[](run.status = "succeeded")

\* A step's row is written only by a transaction that read its present version, so
\* no version is given out twice and no completed attempt is replaced by another.
NoLostUpdate ==
    \A s \in Step : row'[s] # row[s] =>
        \E t \in Txn : /\ txn[t].step = s /\ txn[t].version = row[s].version
                       /\ row'[s].version = row[s].version + 1

-----------------------------------------------------------------------------
(* What the documents promise and the code does not keep (see README). *)

\* "No run stays stuck for ever" (docs/24): when nothing is left to do and no step waits
\* for a human, the run is done or failed.
NoRunStuck ==
    Quiet /\ (\A s \in Step : row[s].status # "waiting_human") =>
        run.status \in {"succeeded", "failed"}

\* "When one or more red-line steps are waiting_human the workflow is reported as
\* waiting_human" (workflow-traceability spec).
WaitingReported ==
    Quiet /\ (\E s \in Step : row[s].status = "waiting_human") => run.status = "waiting_human"

\* "completed and waiting_human steps remain unchanged" (durable-workflow-runtime
\* spec), but for the human's decision: fail_from_outbox checks without a fence.
CompletedStepsStay ==
    [][\A s \in Step : row[s].status \in {"succeeded", "waiting_human"} =>
        \/ row'[s] = row[s]
        \/ \E t \in Txn : txn[t].kind = "decide" /\ txn[t].step = s]_vars

\* "datasets/artifacts of upstream steps reach the direct downstream step through
\* input_data" (docs/14): a step starts with the outputs of all its dependencies.
OutputsArrive == \A s \in Step : row[s].status = "running" => input[s] = Dep[s]

\* "When an event reaches its retry limit the workflow exposes a failed state"
\* (workflow-traceability spec), once the transactions that were open have ended.
ExhaustionExposed == Quiet /\ retired # {} => run.status = "failed"

\* "When every step reaches succeeded the parent card leaves executing": the last run
\* status the run was given gets through the card's version check.
CardTells == Quiet /\ run.status = "succeeded" => card.status = "succeeded"
=============================================================================
