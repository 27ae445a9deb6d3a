----------------------------- MODULE RemoteStep -----------------------------
(***************************************************************************)
(* Workflow steps executed by the Expert service.                          *)
(*                                                                         *)
(* enqueue_ready_steps parks a step whose skill is on the allowlist: it    *)
(* claims it for the sentinel owner under a long lease and enqueues        *)
(* workflow.step.ready.v1.  The relay posts that event to the peer, which  *)
(* executes and posts expert.execution.completed.v1 to our inbox, where    *)
(* the projection finalizes the parked step.  Meanwhile the lease may run  *)
(* out and a worker of ours take the step over, the relay may use up its   *)
(* attempts, and every request may be lost after it took effect, repeated  *)
(* or late.                                                                *)
(*                                                                         *)
(* An event of the step is named by the step and the version of the claim  *)
(* it was made for, as its dedupe_key and event_id are.                    *)
(***************************************************************************)
EXTENDS Naturals, FiniteSetTheorems, TLAPS

CONSTANTS
    Step,
    RedLine,       \* the steps with red_line = TRUE
    Request,       \* POST /internal/events requests that may be open at once
    MaxAttempts,   \* max_attempts of an outbox event
    MaxFaults      \* bound: executions that fail and workers that stop

RemoteRedLineAssumption == RedLine \subseteq Step
RemoteBoundAssumption == MaxAttempts \in Nat \ {0} /\ MaxFaults \in Nat

VARIABLES
    row,        \* WorkflowStep: status, lease_owner, lease, version
    ready,      \* the workflow.step.ready.v1 rows: attempts and status, by event
    answers,    \* the answers the peer has posted, any number of times
    inbox,      \* the event_ids of the committed InboxEvent rows
    request,    \* what each open POST /internal/events has read
    executes,   \* workflow.step.execute rows not yet done
    advances,   \* workflow.advance rows: the steps whose success enqueued them
    handled,    \* the advances whose handler has run
    working,    \* the claims our workers execute
    blamed,     \* history: the steps of which an execution reported a failure
    faults

vars == <<row, ready, answers, inbox, request, executes, advances, handled, working, blamed, faults>>

-----------------------------------------------------------------------------
Owner == {"none", "remote-expert", "worker"}
Terminal == {"waiting_human", "succeeded", "failed"}
StepRow == [status : {"queued", "running"} \cup Terminal, owner : Owner,
            lease : {"none", "live", "expired"}, version : Nat]
Event == [step : Step, version : Nat]
Answer == [step : Step, version : Nat, succeeded : BOOLEAN]
Idle == [pc |-> "idle"]

\* The advance of the run's creation, and one for every success.
Start == [kind |-> "start"]
AdvanceOf(s, version) == [kind |-> "step", step |-> s, version |-> version]

\* ready_steps and the WHERE clause of claim_step_result: queued, or expired.
Claimable(r) == r.status = "queued" \/ (r.status = "running" /\ r.lease = "expired")

Claimed(r, owner) ==
    [status |-> "running", owner |-> owner, lease |-> "live", version |-> r.version + 1]

\* complete_step: its fence, and what it writes.
Holds(r, owner, version) == r.status = "running" /\ r.owner = owner /\ r.version = version
Completed(s, succeeded) ==
    [status |-> IF ~succeeded THEN "failed" ELSE IF s \in RedLine THEN "waiting_human" ELSE "succeeded",
     owner |-> "none", lease |-> "none", version |-> row[s].version + 1]

\* Variant of EnqueuesAdvance: every finished step drives the run on.
EnqueuesAdvanceAlways(s, succeeded) == TRUE

\* finalize: neither a waiting nor a failed step drives the run on.
EnqueuesAdvance(s, succeeded) == succeeded /\ s \notin RedLine

Finalize(s, succeeded) ==
    /\ row' = [row EXCEPT ![s] = Completed(s, succeeded)]
    /\ advances' = IF EnqueuesAdvance(s, succeeded)
                   THEN advances \cup {AdvanceOf(s, row[s].version)} ELSE advances
    /\ blamed' = IF succeeded THEN blamed ELSE blamed \cup {s}

-----------------------------------------------------------------------------
Init == /\ row = [s \in Step |-> [status |-> "queued", owner |-> "none", lease |-> "none", version |-> 0]]
        /\ ready = [e \in {} |-> [attempts |-> 0, status |-> "pending"]]
        /\ answers = {} /\ inbox = {} /\ executes = {} /\ working = {} /\ blamed = {}
        /\ request = [q \in Request |-> Idle]
        /\ advances = {Start} /\ handled = {}
        /\ faults = 0

\* The handler of workflow.advance: every ready step is parked, the expired ones
\* again, and its ready event enqueued.
Fork(a) ==
    LET parked == {s \in Step : Claimable(row[s])}
        new == {[step |-> s, version |-> Claimed(row[s], "remote-expert").version] : s \in parked}
    IN  /\ a \in advances \ handled
        /\ handled' = handled \cup {a}
        /\ row' = [s \in Step |-> IF s \in parked THEN Claimed(row[s], "remote-expert") ELSE row[s]]
        /\ ready' = [e \in DOMAIN ready \cup new |->
                       IF e \in DOMAIN ready THEN ready[e] ELSE [attempts |-> 0, status |-> "pending"]]
        /\ UNCHANGED <<answers, inbox, request, executes, advances, working, blamed, faults>>

\* The relay's post reaches the peer, which executes once and posts its answer;
\* it keeps the answer and posts it again when the event comes again.
PeerAnswers(e, succeeded) ==
    /\ ready[e].status = "pending"
    /\ \/ \E b \in answers : b = [step |-> e.step, version |-> e.version, succeeded |-> succeeded]
       \/ \A b \in answers : b.step # e.step \/ b.version # e.version
    /\ succeeded \/ faults < MaxFaults
    /\ faults' = IF succeeded THEN faults ELSE faults + 1
    /\ answers' = answers \cup {[step |-> e.step, version |-> e.version, succeeded |-> succeeded]}
    /\ UNCHANGED <<row, ready, inbox, request, executes, advances, handled, working, blamed>>

\* The peer answers 202 once our inbox has taken its answer.
Relayed(e) ==
    /\ ready[e].status = "pending" /\ e \in inbox
    /\ ready' = [ready EXCEPT ![e].status = "done"]
    /\ UNCHANGED <<row, answers, inbox, request, executes, advances, handled, working, blamed, faults>>

\* Anything but a 2xx, or none in time: the event is retried.
RelayFails(e) ==
    /\ ready[e].status = "pending" /\ ready[e].attempts + 1 < MaxAttempts
    /\ ready' = [ready EXCEPT ![e].attempts = @ + 1]
    /\ UNCHANGED <<row, answers, inbox, request, executes, advances, handled, working, blamed, faults>>

\* fail_from_outbox: a step that is not over fails, whoever holds it by now.
FailFromOutbox(s) ==
    IF row[s].status \in Terminal THEN row[s]
    ELSE [status |-> "failed", owner |-> "none", lease |-> "none", version |-> row[s].version + 1]

RelayExhausted(e) ==
    /\ ready[e].status = "pending" /\ ready[e].attempts + 1 = MaxAttempts
    /\ ready' = [ready EXCEPT ![e] = [attempts |-> MaxAttempts, status |-> "failed"]]
    /\ row' = [row EXCEPT ![e.step] = FailFromOutbox(e.step)]
    /\ UNCHANGED <<answers, inbox, request, executes, advances, handled, working, blamed, faults>>

-----------------------------------------------------------------------------
\* receive_event: a known event_id is accepted again without effect; a second
\* insert of one waits for the first to commit or to roll back.
Known(a) == [step |-> a.step, version |-> a.version] \in inbox
Inserting(a) == \E q \in Request : /\ request[q] # Idle
                                   /\ request[q].answer.step = a.step
                                   /\ request[q].answer.version = a.version

\* apply_completed: the answer is for the claim the step is parked under.
Parked(a) == row[a.step].owner = "remote-expert" /\ row[a.step].version = a.version

Receive(q, a) ==
    /\ request[q] = Idle /\ ~Known(a) /\ ~Inserting(a)
    /\ request' = [request EXCEPT ![q] = [pc |-> "open", answer |-> a, parked |-> Parked(a)]]
    /\ UNCHANGED <<row, ready, answers, inbox, executes, advances, handled, working, blamed, faults>>

\* The projection, fenced again, and the commit of both.
Project(q) ==
    LET a == request[q].answer
        held == request[q].parked /\ Holds(row[a.step], "remote-expert", row[a.step].version) /\ Parked(a)
    IN  /\ request[q] # Idle
        /\ request' = [request EXCEPT ![q] = Idle]
        /\ inbox' = inbox \cup {[step |-> a.step, version |-> a.version]}
        /\ IF held THEN Finalize(a.step, a.succeeded) ELSE UNCHANGED <<row, advances, blamed>>
        /\ UNCHANGED <<ready, answers, executes, handled, working, faults>>

\* What stays in the inbox of a request whose projection raised.
RolledBack(q) == {}

\* The projection raises, or the process dies: neither stays.
ProjectFails(q) ==
    /\ request[q] # Idle
    /\ request' = [request EXCEPT ![q] = Idle]
    /\ inbox' = inbox \cup RolledBack(q)
    /\ UNCHANGED <<row, ready, answers, executes, advances, handled, working, blamed, faults>>

-----------------------------------------------------------------------------
\* Time passes the lease of a parked step, or of a worker that no longer renews it.
LeaseExpires(s) ==
    /\ row[s].status = "running" /\ row[s].lease = "live"
    /\ row[s].owner = "remote-expert" \/ ~\E c \in working : c.step = s /\ c.version = row[s].version
    /\ row' = [row EXCEPT ![s].lease = "expired"]
    /\ UNCHANGED <<ready, answers, inbox, request, executes, advances, handled, working, blamed, faults>>

Recoverable(s) == row[s].status = "running" /\ row[s].lease = "expired"

\* requeue_expired_steps: an execute event per version.
Recover(s) ==
    /\ Recoverable(s) /\ [step |-> s, version |-> row[s].version] \notin executes
    /\ executes' = executes \cup {[step |-> s, version |-> row[s].version]}
    /\ UNCHANGED <<row, ready, answers, inbox, request, advances, handled, working, blamed, faults>>

\* execute_step: a claimed step is executed here; a busy one is deferred, which
\* changes nothing, and the event of one that is over is done.
ExecuteLocally(x) ==
    /\ x \in executes
    /\ Claimable(row[x.step])
    /\ row' = [row EXCEPT ![x.step] = Claimed(@, "worker")]
    /\ working' = working \cup {[step |-> x.step, version |-> row'[x.step].version]}
    /\ executes' = executes \ {x}
    /\ UNCHANGED <<ready, answers, inbox, request, advances, handled, blamed, faults>>
ExecuteOver(x) ==
    /\ x \in executes
    /\ row[x.step].status \in Terminal
    /\ executes' = executes \ {x}
    /\ UNCHANGED <<row, ready, answers, inbox, request, advances, handled, working, blamed, faults>>

FinishLocally(c, succeeded) ==
    /\ c \in working
    /\ succeeded \/ faults < MaxFaults
    /\ faults' = IF succeeded THEN faults ELSE faults + 1
    /\ working' = working \ {c}
    /\ IF Holds(row[c.step], "worker", c.version)
       THEN Finalize(c.step, succeeded) ELSE UNCHANGED <<row, advances, blamed>>
    /\ UNCHANGED <<ready, answers, inbox, request, executes, handled>>

WorkerStops(c) ==
    /\ c \in working /\ faults < MaxFaults
    /\ faults' = faults + 1
    /\ working' = working \ {c}
    /\ UNCHANGED <<row, ready, answers, inbox, request, executes, advances, handled, blamed>>

-----------------------------------------------------------------------------
Runtime == \/ \E a \in advances : Fork(a)
           \/ \E s \in Step : LeaseExpires(s) \/ Recover(s)
           \/ \E x \in executes : ExecuteLocally(x) \/ ExecuteOver(x)
           \/ \E c \in working, ok \in BOOLEAN : FinishLocally(c, ok)
Relay == \E e \in DOMAIN ready : Relayed(e) \/ RelayFails(e) \/ RelayExhausted(e)
Inbox == \E q \in Request : Project(q) \/ ProjectFails(q) \/ \E a \in answers : Receive(q, a)
Peer == \E e \in DOMAIN ready, ok \in BOOLEAN : PeerAnswers(e, ok)

Next == Runtime \/ Relay \/ Inbox \/ Peer \/ \E c \in working : WorkerStops(c)

\* Workers and the recovery scan run; nothing is asked of the relay or the peer.
Spec == Init /\ [][Next]_vars /\ WF_vars(Runtime)

-----------------------------------------------------------------------------
TypeOK == /\ row \in [Step -> StepRow]
          /\ DOMAIN ready \subseteq Event
          /\ answers \subseteq Answer /\ inbox \subseteq Event /\ executes \subseteq Event
          /\ working \subseteq Event /\ blamed \subseteq Step /\ handled \subseteq advances
          /\ faults \in 0..MaxFaults

\* An answer the inbox keeps is never dropped while its step still waits for it: the
\* deduplication would hide every later copy (receive_internal_event, one transaction).
AnswerNotSwallowed ==
    \A e \in inbox : ~Holds(row[e.step], "remote-expert", e.version)

\* However often its answer comes and whoever takes it over, a step drives the run on
\* exactly when it succeeds, once (apply_completed, finalize).
OneAdvance ==
    \A s \in Step : Cardinality({a \in advances : a # Start /\ a.step = s})
                       = IF row[s].status = "succeeded" THEN 1 ELSE 0

\* What a step ends with was said by an executor of the attempt that held it last, and a
\* step that is over stays so (the fences of complete_step, fail_from_outbox).
EndsByItsLastAttempt ==
    \A s \in Step : row'[s] # row[s] =>
        /\ row[s].status \notin Terminal
        /\ row'[s].status \in {"succeeded", "waiting_human"} =>
             \/ [step |-> s, version |-> row[s].version] \in working
             \/ [step |-> s, version |-> row[s].version, succeeded |-> TRUE] \in answers

\* Whatever the peer does, a parked step is over some day (the long lease, the recovery scan).
ParkedStepSettles ==
    \A s \in Step : row[s].owner = "remote-expert" ~> row[s].status \in Terminal

-----------------------------------------------------------------------------
(* What the documents promise and the code does not keep (see README). *)

\* A peer that never answers costs time only: a step fails when an execution of it failed.
FailsOnlyExecuted == \A s \in Step : row[s].status = "failed" => s \in blamed

\* A step whose lease ran out is executed here, not parked again.
ExpiredRunsHere ==
    [][\A s \in Step : row[s].lease = "expired" /\ row'[s] # row[s] => row'[s].owner # "remote-expert"]_vars

-----------------------------------------------------------------------------
(* Proofs: the invariant of the parked steps.                              *)

EventOf(a) == [step |-> a.step, version |-> a.version]

\* TypeOK, and the shape of what it leaves open.
Shapes ==
    /\ TypeOK
    /\ advances \subseteq {Start} \cup {AdvanceOf(s, n) : s \in Step, n \in Nat}
    /\ request \in [Request -> {Idle} \cup [pc : {"open"}, answer : answers, parked : BOOLEAN]]

\* An event was made for a claim of its step, and an answer, or a row of the inbox, is of
\* an event.
Comes ==
    /\ \A e \in DOMAIN ready : e.version <= row[e.step].version
    /\ \A a \in answers : EventOf(a) \in DOMAIN ready
    /\ inbox \subseteq DOMAIN ready

\* A request that found its step held otherwise is right for ever.
Outrun == \A q \in Request : request[q] # Idle /\ ~request[q].parked => ~Parked(request[q].answer)

\* The advances that the success of a step enqueued: one if it succeeded, else none.
Drives(s) == {a \in advances : a # Start /\ a.step = s}
Driven ==
    \A s \in Step : IF row[s].status = "succeeded" THEN \E a \in advances : Drives(s) = {a}
                                                   ELSE Drives(s) = {}

ParkedInvariant == Shapes /\ Comes /\ Outrun /\ AnswerNotSwallowed /\ Driven

\* A step keeps its row, or only its lease lapses, or its version grows by one and what
\* was over stays as it was.
Moved(s) ==
    \/ row'[s] = row[s]
    \/ /\ row'[s].version = row[s].version /\ row'[s].owner = row[s].owner
       /\ row'[s].status = row[s].status /\ row[s].status = "running"
    \/ /\ row'[s].version = row[s].version + 1 /\ row[s].status \notin Terminal

\* What complete_step, a claim and fail_from_outbox write is a row of a later version.
LEMMA RowsWritten ==
    ASSUME Shapes, NEW s \in Step
    PROVE  /\ row[s] \in StepRow /\ row[s].version + 1 \in Nat
           /\ \A ok \in BOOLEAN : /\ Completed(s, ok) \in StepRow
                                  /\ Completed(s, ok).version = row[s].version + 1
           /\ \A o \in Owner : /\ Claimed(row[s], o) \in StepRow
                               /\ Claimed(row[s], o).version = row[s].version + 1
           /\ FailFromOutbox(s) \in StepRow
           /\ FailFromOutbox(s) = row[s] \/ FailFromOutbox(s).version = row[s].version + 1
BY DEF Shapes, TypeOK, StepRow, Completed, Claimed, FailFromOutbox, Terminal, Owner

\* A finalized step keeps the shape of the rows, the advances and the blame.
LEMMA FinalizeShapes ==
    ASSUME Shapes, NEW s \in Step, NEW ok \in BOOLEAN, Finalize(s, ok)
    PROVE  /\ row' \in [Step -> StepRow] /\ blamed' \subseteq Step
           /\ advances \subseteq advances'
           /\ advances' \subseteq {Start} \cup {AdvanceOf(t, n) : t \in Step, n \in Nat}
<1>1. row' \in [Step -> StepRow]
    BY RowsWritten DEF Shapes, TypeOK, Finalize
<1>2. blamed' \subseteq Step
    BY DEF Shapes, TypeOK, Finalize
<1>3. advances \subseteq advances' /\ advances' \subseteq advances \cup {AdvanceOf(s, row[s].version)}
    BY DEF Finalize
<1>4. row[s].version \in Nat
    BY DEF Shapes, TypeOK, StepRow
<1> QED
    BY <1>1, <1>2, <1>3, <1>4 DEF Shapes

\* The initial states have the invariant.
LEMMA InitParked ==
    ASSUME RemoteBoundAssumption, Init
    PROVE  ParkedInvariant
<1>1. Shapes
    BY DEF RemoteBoundAssumption, Init, Shapes, TypeOK, StepRow, Owner, Terminal, Event, Answer
<1>2. Comes /\ Outrun /\ AnswerNotSwallowed
    BY DEF Init, Comes, Outrun, AnswerNotSwallowed
<1>3. Driven
    BY DEF Init, Driven, Drives
<1> QED
    BY <1>1, <1>2, <1>3 DEF ParkedInvariant

\* Every step keeps the shapes.
LEMMA ShapesKept ==
    ASSUME Shapes, RemoteBoundAssumption, Next
    PROVE  Shapes'
<1> USE DEF Shapes, TypeOK
<1>0. faults \in Nat /\ MaxFaults \in Nat
    BY DEF RemoteBoundAssumption
<1>F. ASSUME NEW a \in advances, Fork(a) PROVE Shapes'
  <2> DEFINE parked == {s \in Step : Claimable(row[s])}
             new == {[step |-> s, version |-> Claimed(row[s], "remote-expert").version] : s \in parked}
  <2>1. row' \in [Step -> StepRow]
      BY <1>F, RowsWritten DEF Fork, Owner
  <2>2. DOMAIN ready' = DOMAIN ready \cup new
      BY <1>F DEF Fork
  <2>3. new \subseteq Event
      BY RowsWritten DEF Event, Owner
  <2> QED
      BY <1>F, <2>1, <2>2, <2>3 DEF Fork
<1>1. ASSUME NEW s \in Step, LeaseExpires(s) PROVE Shapes'
  <2>1. [row[s] EXCEPT !.lease = "expired"] \in StepRow
      BY DEF StepRow
  <2> QED
      BY <1>1, <2>1 DEF LeaseExpires
<1>2. ASSUME NEW s \in Step, Recover(s) PROVE Shapes'
  <2>1. [step |-> s, version |-> row[s].version] \in Event
      BY DEF Event, StepRow
  <2> QED
      BY <1>2, <2>1 DEF Recover
<1>3. ASSUME NEW x \in executes, ExecuteLocally(x) PROVE Shapes'
  <2>1. x.step \in Step
      BY DEF Event
  <2>2. row' \in [Step -> StepRow]
      BY <1>3, <2>1, RowsWritten DEF ExecuteLocally, Owner
  <2>3. [step |-> x.step, version |-> row'[x.step].version] \in Event
      BY <2>1, <2>2 DEF Event, StepRow
  <2> QED
      BY <1>3, <2>2, <2>3 DEF ExecuteLocally
<1>4. ASSUME NEW x \in executes, ExecuteOver(x) PROVE Shapes'
    BY <1>4 DEF ExecuteOver
<1>5. ASSUME NEW c \in working, NEW ok \in BOOLEAN, FinishLocally(c, ok) PROVE Shapes'
  <2>1. c.step \in Step
      BY DEF Event
  <2>2. faults' \in 0..MaxFaults /\ working' \subseteq Event
      BY <1>0, <1>5 DEF FinishLocally
  <2>3. CASE Holds(row[c.step], "worker", c.version)
    <3>1. Finalize(c.step, ok)
        BY <1>5, <2>3 DEF FinishLocally
    <3> QED
        BY <1>5, <2>1, <2>2, <3>1, FinalizeShapes DEF FinishLocally
  <2>4. CASE ~Holds(row[c.step], "worker", c.version)
      BY <1>5, <2>2, <2>4 DEF FinishLocally
  <2> QED
      BY <2>3, <2>4
<1>6. ASSUME NEW e \in DOMAIN ready, Relayed(e) \/ RelayFails(e) PROVE Shapes'
    BY <1>6 DEF Relayed, RelayFails
<1>7. ASSUME NEW e \in DOMAIN ready, RelayExhausted(e) PROVE Shapes'
  <2>1. e.step \in Step
      BY DEF Event
  <2>2. FailFromOutbox(e.step) \in StepRow
      BY <2>1, RowsWritten
  <2>3. DOMAIN ready' = DOMAIN ready /\ row' \in [Step -> StepRow]
      BY <1>7, <2>1, <2>2 DEF RelayExhausted
  <2> QED
      BY <1>7, <2>3 DEF RelayExhausted
<1>8. ASSUME NEW q \in Request, Project(q) PROVE Shapes'
  <2> DEFINE a == request[q].answer
  <2>1. a \in answers /\ a.step \in Step /\ a.succeeded \in BOOLEAN /\ EventOf(a) \in Event
    <3>1. request[q] \in [pc : {"open"}, answer : answers, parked : BOOLEAN]
        BY <1>8 DEF Project
    <3> QED
        BY <3>1 DEF Answer, EventOf, Event
  <2>2. inbox' = inbox \cup {EventOf(a)} /\ request' = [request EXCEPT ![q] = Idle]
      BY <1>8 DEF Project, EventOf
  <2>3. CASE Finalize(a.step, a.succeeded)
      BY <1>8, <2>1, <2>2, <2>3, FinalizeShapes DEF Project
  <2>4. CASE UNCHANGED <<row, advances, blamed>>
      BY <1>8, <2>1, <2>2, <2>4 DEF Project
  <2> QED
      BY <1>8, <2>3, <2>4 DEF Project
<1>9. ASSUME NEW q \in Request, ProjectFails(q) PROVE Shapes'
    BY <1>9 DEF ProjectFails, RolledBack
<1>10. ASSUME NEW q \in Request, NEW a \in answers, Receive(q, a) PROVE Shapes'
  <2>1. [pc |-> "open", answer |-> a, parked |-> Parked(a)] \in [pc : {"open"}, answer : answers, parked : BOOLEAN]
      BY DEF Parked
  <2> QED
      BY <1>10, <2>1 DEF Receive
<1>11. ASSUME NEW e \in DOMAIN ready, NEW ok \in BOOLEAN, PeerAnswers(e, ok) PROVE Shapes'
  <2>1. [step |-> e.step, version |-> e.version, succeeded |-> ok] \in Answer
      BY DEF Event, Answer
  <2>2. faults' \in 0..MaxFaults
      BY <1>0, <1>11 DEF PeerAnswers
  <2>3. answers \subseteq answers' /\ answers' \subseteq Answer
      BY <1>11, <2>1 DEF PeerAnswers
  <2>4. request' \in [Request -> {Idle} \cup [pc : {"open"}, answer : answers', parked : BOOLEAN]]
      BY <1>11, <2>3 DEF PeerAnswers
  <2> QED
      BY <1>11, <2>2, <2>3, <2>4 DEF PeerAnswers
<1>12. ASSUME NEW c \in working, WorkerStops(c) PROVE Shapes'
    BY <1>0, <1>12 DEF WorkerStops
<1> QED
    BY <1>F, <1>1, <1>2, <1>3, <1>4, <1>5, <1>6, <1>7, <1>8, <1>9, <1>10, <1>11, <1>12
    DEF Next, Runtime, Relay, Inbox, Peer

\* What finalizing a held step writes.
LEMMA FinalizeWrites ==
    ASSUME Shapes, NEW s \in Step, NEW ok \in BOOLEAN, Finalize(s, ok), row[s].status = "running"
    PROVE  /\ \A t \in Step : Moved(t)
           /\ \A t \in Step : t # s => row'[t] = row[t]
           /\ row'[s].status \in Terminal
           /\ row'[s].status # "failed" => ok
<1>1. /\ row'[s] = Completed(s, ok)
      /\ \A t \in Step : t # s => row'[t] = row[t]
    BY DEF Finalize, Shapes, TypeOK
<1> QED
    BY <1>1, RowsWritten DEF Completed, Terminal, Moved

\* Every step moves every row as Moved says.
LEMMA RowsMove ==
    ASSUME Shapes, Next
    PROVE  \A s \in Step : Moved(s)
<1>T. row \in [Step -> StepRow]
    BY DEF Shapes, TypeOK
<1>1. ASSUME NEW a \in advances, Fork(a) PROVE \A s \in Step : Moved(s)
    BY <1>T, <1>1, RowsWritten DEF Fork, Claimable, Terminal, Moved, Owner
<1>2. ASSUME NEW s \in Step, LeaseExpires(s) PROVE \A t \in Step : Moved(t)
  <2>1. \A t \in Step : row'[t] = IF t = s THEN [row[s] EXCEPT !.lease = "expired"] ELSE row[t]
      BY <1>T, <1>2 DEF LeaseExpires
  <2> QED
      BY <1>T, <1>2, <2>1 DEF LeaseExpires, Moved, StepRow
<1>3. ASSUME NEW x \in executes, ExecuteLocally(x) PROVE \A t \in Step : Moved(t)
  <2>1. x.step \in Step
      BY DEF Shapes, TypeOK, Event
  <2>2. \A t \in Step : row'[t] = IF t = x.step THEN Claimed(row[t], "worker") ELSE row[t]
      BY <1>T, <1>3, <2>1 DEF ExecuteLocally
  <2> QED
      BY <1>3, <2>1, <2>2, RowsWritten DEF ExecuteLocally, Claimable, Terminal, Moved, Owner
<1>4. ASSUME NEW c \in working, NEW ok \in BOOLEAN, FinishLocally(c, ok) PROVE \A t \in Step : Moved(t)
  <2>1. c.step \in Step
      BY DEF Shapes, TypeOK, Event
  <2>2. CASE Holds(row[c.step], "worker", c.version)
    <3>1. Finalize(c.step, ok) /\ row[c.step].status = "running"
        BY <1>4, <2>2 DEF FinishLocally, Holds
    <3> QED
        BY <2>1, <3>1, FinalizeWrites
  <2>3. CASE ~Holds(row[c.step], "worker", c.version)
      BY <1>4, <2>3 DEF FinishLocally, Moved
  <2> QED
      BY <2>2, <2>3
<1>5. ASSUME NEW e \in DOMAIN ready, RelayExhausted(e) PROVE \A t \in Step : Moved(t)
  <2>1. e.step \in Step
      BY DEF Shapes, TypeOK, Event
  <2>2. \A t \in Step : row'[t] = IF t = e.step THEN FailFromOutbox(t) ELSE row[t]
      BY <1>T, <1>5, <2>1 DEF RelayExhausted
  <2> QED
      BY <2>1, <2>2, RowsWritten DEF Moved, FailFromOutbox
<1>6. ASSUME NEW q \in Request, Project(q) PROVE \A t \in Step : Moved(t)
  <2> DEFINE a == request[q].answer
  <2>1. a.step \in Step /\ a.succeeded \in BOOLEAN
      BY <1>6 DEF Project, Shapes, TypeOK, Answer
  <2>2. CASE Holds(row[a.step], "remote-expert", row[a.step].version) /\ Finalize(a.step, a.succeeded)
      BY <2>1, <2>2, FinalizeWrites DEF Holds
  <2>3. CASE UNCHANGED row
      BY <2>3 DEF Moved
  <2> QED
      BY <1>6, <2>2, <2>3 DEF Project
<1>7. CASE UNCHANGED row
    BY <1>7 DEF Moved
<1> QED
    BY <1>1, <1>2, <1>3, <1>4, <1>5, <1>6, <1>7
    DEF Next, Runtime, Relay, Inbox, Peer, Recover, ExecuteOver, Relayed, RelayFails, ProjectFails,
        Receive, PeerAnswers, WorkerStops

\* Versions grow, so that an event stays as old as its claim.
LEMMA ComesKept ==
    ASSUME Shapes, Comes, Next
    PROVE  Comes'
<1>T. row \in [Step -> StepRow] /\ DOMAIN ready \subseteq Event
    BY DEF Shapes, TypeOK
<1>G. \A s \in Step : row[s].version \in Nat /\ row'[s].version >= row[s].version
    BY <1>T, RowsMove DEF Moved, StepRow
<1>O. \A e \in DOMAIN ready : e.version <= row'[e.step].version
  <2> SUFFICES ASSUME NEW e \in DOMAIN ready PROVE e.version <= row'[e.step].version
      OBVIOUS
  <2>1. e.step \in Step /\ e.version \in Nat /\ e.version <= row[e.step].version
      BY <1>T DEF Comes, Event
  <2>2. row'[e.step].version = row[e.step].version \/ row'[e.step].version = row[e.step].version + 1
      BY <2>1, RowsMove DEF Moved
  <2> QED
      BY <1>G, <2>1, <2>2
<1>1. ASSUME NEW a \in advances, Fork(a) PROVE Comes'
  <2> DEFINE parked == {s \in Step : Claimable(row[s])}
             new == {[step |-> s, version |-> Claimed(row[s], "remote-expert").version] : s \in parked}
  <2>1. DOMAIN ready' = DOMAIN ready \cup new /\ answers' = answers /\ inbox' = inbox
      BY <1>1 DEF Fork
  <2>2. ASSUME NEW e \in new PROVE e.version <= row'[e.step].version
    <3>1. PICK s \in parked : e = [step |-> s, version |-> Claimed(row[s], "remote-expert").version]
        BY <2>2
    <3>2. row'[s] = Claimed(row[s], "remote-expert")
        BY <1>1, <3>1 DEF Fork
    <3> QED
        BY <3>1, <3>2, RowsWritten DEF Owner
  <2> QED
      BY <1>O, <2>1, <2>2 DEF Comes
<1>2. ASSUME NEW e \in DOMAIN ready, Relayed(e) \/ RelayFails(e) \/ RelayExhausted(e) PROVE Comes'
  <2>1. DOMAIN ready' = DOMAIN ready /\ answers' = answers /\ inbox' = inbox
      BY <1>2 DEF Relayed, RelayFails, RelayExhausted
  <2> QED
      BY <1>O, <2>1 DEF Comes
<1>3. ASSUME NEW q \in Request, Project(q) PROVE Comes'
  <2>1. ready' = ready /\ answers' = answers /\ inbox' = inbox \cup {EventOf(request[q].answer)}
      BY <1>3 DEF Project, EventOf
  <2>2. request[q].answer \in answers
      BY <1>3 DEF Project, Shapes
  <2> QED
      BY <1>O, <2>1, <2>2 DEF Comes
<1>4. ASSUME NEW e \in DOMAIN ready, NEW ok \in BOOLEAN, PeerAnswers(e, ok) PROVE Comes'
  <2>1. ready' = ready /\ inbox' = inbox
      BY <1>4 DEF PeerAnswers
  <2>2. answers' = answers \cup {[step |-> e.step, version |-> e.version, succeeded |-> ok]}
      BY <1>4 DEF PeerAnswers
  <2>3. EventOf([step |-> e.step, version |-> e.version, succeeded |-> ok]) = e
      BY <1>T DEF EventOf, Event
  <2> QED
      BY <1>O, <2>1, <2>2, <2>3 DEF Comes
<1>5. CASE ready' = ready /\ answers' = answers /\ inbox' = inbox
    BY <1>O, <1>5 DEF Comes
<1> QED
    BY <1>1, <1>2, <1>3, <1>4, <1>5
    DEF Next, Runtime, Relay, Inbox, Peer, LeaseExpires, Recover, ExecuteLocally, ExecuteOver,
        FinishLocally, ProjectFails, RolledBack, Receive, WorkerStops

\* A claim that is not the one an event was made for does not become it again.
LEMMA NeverAgain ==
    ASSUME Shapes, Comes, Next, NEW e \in DOMAIN ready
    PROVE  /\ ~(row[e.step].owner = "remote-expert" /\ row[e.step].version = e.version)
                => ~(row'[e.step].owner = "remote-expert" /\ row'[e.step].version = e.version)
           /\ ~Holds(row[e.step], "remote-expert", e.version)
                => ~Holds(row'[e.step], "remote-expert", e.version)
<1>1. /\ e.step \in Step /\ e.version \in Nat /\ e.version <= row[e.step].version
      /\ row[e.step].version \in Nat
    BY DEF Shapes, TypeOK, Comes, Event, StepRow
<1>2. Moved(e.step)
    BY <1>1, RowsMove
<1> QED
    BY <1>1, <1>2 DEF Moved, Holds

LEMMA OutrunKept ==
    ASSUME Shapes, Comes, Outrun, Next
    PROVE  Outrun'
<1> SUFFICES ASSUME NEW q \in Request
             PROVE  (request[q] # Idle /\ ~request[q].parked => ~Parked(request[q].answer))'
    BY DEF Outrun
<1> DEFINE StillParked == /\ row'[request'[q].answer.step].owner = "remote-expert"
                          /\ row'[request'[q].answer.step].version = request'[q].answer.version
<1> SUFFICES ASSUME request'[q] # Idle, ~request'[q].parked
             PROVE  ~StillParked
    BY DEF Parked
<1>1. CASE request'[q] = request[q]
  <2>1. request[q].answer \in answers /\ ~Parked(request[q].answer)
      BY <1>1 DEF Shapes, Outrun
  <2> DEFINE a == request[q].answer
             e == EventOf(a)
  <2>2. e \in DOMAIN ready /\ e.step = a.step /\ e.version = a.version
      BY <2>1 DEF Comes, EventOf
  <2>3. ~(row[e.step].owner = "remote-expert" /\ row[e.step].version = e.version)
      BY <2>1, <2>2 DEF Parked
  <2>4. ~(row'[e.step].owner = "remote-expert" /\ row'[e.step].version = e.version)
      BY <2>2, <2>3, NeverAgain
  <2> QED
      BY <1>1, <2>2, <2>4 DEF Parked
<1>2. ASSUME NEW p \in Request, NEW a \in answers, Receive(p, a) PROVE ~StillParked
  <2>1. CASE q = p
    <3>1. request'[q] = [pc |-> "open", answer |-> a, parked |-> Parked(a)] /\ row' = row
        BY <1>2, <2>1 DEF Receive, Shapes
    <3>2. request'[q].parked = Parked(a) /\ request'[q].answer = a
        BY <3>1
    <3>3. ~Parked(a)
        BY <3>2
    <3> QED
        BY <3>1, <3>2, <3>3 DEF Parked
  <2>2. CASE q # p
      BY <1>1, <1>2, <2>2 DEF Receive, Shapes
  <2> QED
      BY <2>1, <2>2
<1>3. ASSUME NEW p \in Request, Project(p) \/ ProjectFails(p) PROVE ~StillParked
  <2>1. request' = [request EXCEPT ![p] = Idle]
      BY <1>3 DEF Project, ProjectFails
  <2>2. q # p
      BY <2>1 DEF Shapes
  <2> QED
      BY <1>1, <2>1, <2>2 DEF Shapes
<1>4. CASE request' = request
    BY <1>1, <1>4
<1> QED
    BY <1>2, <1>3, <1>4
    DEF Next, Runtime, Relay, Inbox, Peer, Fork, LeaseExpires, Recover, ExecuteLocally, ExecuteOver,
        FinishLocally, Relayed, RelayFails, RelayExhausted, PeerAnswers, WorkerStops

\* An answer enters the inbox when its step was finalized, or was held otherwise already.
LEMMA AnswersKept ==
    ASSUME Shapes, Comes, Outrun, AnswerNotSwallowed, Next
    PROVE  AnswerNotSwallowed'
<1>1. ASSUME NEW e \in inbox PROVE ~Holds(row'[e.step], "remote-expert", e.version)
    BY NeverAgain DEF AnswerNotSwallowed, Comes
<1>2. ASSUME NEW q \in Request, Project(q) PROVE AnswerNotSwallowed'
  <2> DEFINE a == request[q].answer
             e == EventOf(a)
  <2>1. inbox' = inbox \cup {e} /\ e.step = a.step /\ e.version = a.version
      BY <1>2 DEF Project, EventOf
  <2>2. a \in answers /\ a.step \in Step /\ a.succeeded \in BOOLEAN /\ request[q] # Idle
      BY <1>2 DEF Project, Shapes, TypeOK, Answer
  <2>3. CASE ~(request[q].parked /\ Holds(row[a.step], "remote-expert", row[a.step].version) /\ Parked(a))
    <3>1. row' = row
        BY <1>2, <2>3 DEF Project
    <3>2. ~Holds(row[a.step], "remote-expert", a.version)
        BY <2>2, <2>3 DEF Outrun, Holds, Parked
    <3> QED
        BY <1>1, <2>1, <3>1, <3>2 DEF AnswerNotSwallowed
  <2>4. CASE request[q].parked /\ Holds(row[a.step], "remote-expert", row[a.step].version) /\ Parked(a)
    <3>1. Finalize(a.step, a.succeeded) /\ row[a.step].status = "running"
        BY <1>2, <2>4 DEF Project, Holds
    <3>2. row'[a.step].status \in Terminal
        BY <2>2, <3>1, FinalizeWrites
    <3> QED
        BY <1>1, <2>1, <3>2 DEF AnswerNotSwallowed, Holds, Terminal
  <2> QED
      BY <2>3, <2>4
<1>3. CASE inbox' = inbox
    BY <1>1, <1>3 DEF AnswerNotSwallowed
<1> QED
    BY <1>2, <1>3
    DEF Next, Runtime, Relay, Inbox, Peer, Fork, LeaseExpires, Recover, ExecuteLocally, ExecuteOver,
        FinishLocally, Relayed, RelayFails, RelayExhausted, ProjectFails, RolledBack, Receive,
        PeerAnswers, WorkerStops

\* Finalizing a running step enqueues the one advance of a success, and none otherwise.
LEMMA FinalizeDrives ==
    ASSUME Shapes, Driven, NEW s \in Step, NEW ok \in BOOLEAN, Finalize(s, ok),
           row[s].status = "running"
    PROVE  Driven'
<1> SUFFICES ASSUME NEW t \in Step
             PROVE  (IF row[t].status = "succeeded" THEN \E a \in advances : Drives(t) = {a}
                                                    ELSE Drives(t) = {})'
    BY DEF Driven
<1> DEFINE new == AdvanceOf(s, row[s].version)
<1>0. new # Start /\ new.step = s
    BY DEF AdvanceOf, Start
<1>1. Drives(s) = {}
    BY DEF Driven
<1>2. CASE t # s
  <2>1. Drives(t)' = Drives(t)
      BY <1>0, <1>2 DEF Finalize, Drives
  <2>2. row'[t] = row[t] /\ advances \subseteq advances'
      BY <1>2, FinalizeWrites DEF Finalize
  <2> QED
      BY <2>1, <2>2 DEF Driven
<1>3. CASE t = s /\ EnqueuesAdvance(s, ok)
  <2>1. row'[s].status = "succeeded"
      BY <1>3 DEF Finalize, Completed, EnqueuesAdvance, Shapes, TypeOK
  <2>2. advances' = advances \cup {new}
      BY <1>3 DEF Finalize
  <2>3. Drives(s)' = {new}
      BY <1>0, <1>1, <2>2 DEF Drives
  <2> QED
      BY <1>3, <2>1, <2>2, <2>3
<1>4. CASE t = s /\ ~EnqueuesAdvance(s, ok)
  <2>1. row'[s].status # "succeeded"
      BY <1>4 DEF Finalize, Completed, EnqueuesAdvance, Shapes, TypeOK
  <2>2. Drives(s)' = {}
      BY <1>1, <1>4 DEF Finalize, Drives
  <2> QED
      BY <1>4, <2>1, <2>2
<1> QED
    BY <1>2, <1>3, <1>4

\* Only finalizing makes a step succeed, and a step that has stays so.
LEMMA DrivenKept ==
    ASSUME Shapes, Driven, Next
    PROVE  Driven'
<1>T. row \in [Step -> StepRow]
    BY DEF Shapes, TypeOK
<1>S. ASSUME advances' = advances,
             \A s \in Step : row'[s].status = "succeeded" <=> row[s].status = "succeeded"
      PROVE  Driven'
    BY <1>S DEF Driven, Drives
<1>1. ASSUME NEW a \in advances, Fork(a) PROVE Driven'
  <2>1. \A s \in Step : row'[s].status = "succeeded" <=> row[s].status = "succeeded"
      BY <1>T, <1>1 DEF Fork, Claimable, Claimed
  <2> QED
      BY <1>1, <1>S, <2>1 DEF Fork
<1>2. ASSUME NEW s \in Step, LeaseExpires(s) PROVE Driven'
  <2>1. \A t \in Step : row'[t].status = row[t].status
      BY <1>T, <1>2 DEF LeaseExpires, StepRow
  <2> QED
      BY <1>2, <1>S, <2>1 DEF LeaseExpires
<1>3. ASSUME NEW x \in executes, ExecuteLocally(x) PROVE Driven'
  <2>1. \A s \in Step : row'[s].status = "succeeded" <=> row[s].status = "succeeded"
      BY <1>T, <1>3 DEF ExecuteLocally, Claimable, Claimed
  <2> QED
      BY <1>3, <1>S, <2>1 DEF ExecuteLocally
<1>4. ASSUME NEW c \in working, NEW ok \in BOOLEAN, FinishLocally(c, ok) PROVE Driven'
  <2>1. c.step \in Step
      BY DEF Shapes, TypeOK, Event
  <2>2. CASE Holds(row[c.step], "worker", c.version)
    <3>1. Finalize(c.step, ok) /\ row[c.step].status = "running"
        BY <1>4, <2>2 DEF FinishLocally, Holds
    <3> QED
        BY <2>1, <3>1, FinalizeDrives
  <2>3. CASE ~Holds(row[c.step], "worker", c.version)
      BY <1>4, <1>S, <2>3 DEF FinishLocally
  <2> QED
      BY <2>2, <2>3
<1>5. ASSUME NEW e \in DOMAIN ready, RelayExhausted(e) PROVE Driven'
  <2>1. \A s \in Step : row'[s].status = "succeeded" <=> row[s].status = "succeeded"
      BY <1>T, <1>5 DEF RelayExhausted, FailFromOutbox, Terminal
  <2> QED
      BY <1>5, <1>S, <2>1 DEF RelayExhausted
<1>6. ASSUME NEW q \in Request, Project(q) PROVE Driven'
  <2> DEFINE a == request[q].answer
  <2>1. a.step \in Step /\ a.succeeded \in BOOLEAN
      BY <1>6 DEF Project, Shapes, TypeOK, Answer
  <2>2. CASE Finalize(a.step, a.succeeded) /\ row[a.step].status = "running"
      BY <2>1, <2>2, FinalizeDrives
  <2>3. CASE UNCHANGED <<row, advances>>
      BY <1>S, <2>3
  <2> QED
      BY <1>6, <2>2, <2>3 DEF Project, Holds
<1>7. CASE UNCHANGED <<row, advances>>
    BY <1>S, <1>7
<1> QED
    BY <1>1, <1>2, <1>3, <1>4, <1>5, <1>6, <1>7
    DEF Next, Runtime, Relay, Inbox, Peer, Recover, ExecuteOver, Relayed, RelayFails, ProjectFails,
        Receive, PeerAnswers, WorkerStops

\* The invariant says how many advances of its success a step has.
LEMMA DrivenCounts ==
    ASSUME Driven
    PROVE  OneAdvance
<1> SUFFICES ASSUME NEW s \in Step
             PROVE  Cardinality(Drives(s)) = IF row[s].status = "succeeded" THEN 1 ELSE 0
    BY DEF OneAdvance, Drives
<1>1. CASE row[s].status = "succeeded"
  <2>1. PICK a \in advances : Drives(s) = {a}
      BY <1>1 DEF Driven
  <2> QED
      BY <1>1, <2>1, FS_Singleton
<1>2. CASE row[s].status # "succeeded"
    BY <1>2, FS_EmptySet DEF Driven
<1> QED
    BY <1>1, <1>2

\* The parked steps, their answers and their advances keep the invariant, for any steps,
\* requests, attempts and faults.
THEOREM ParkedStepsKept == RemoteBoundAssumption /\ Spec => []ParkedInvariant
<1> SUFFICES ASSUME RemoteBoundAssumption PROVE Spec => []ParkedInvariant
    OBVIOUS
<1>1. Init => ParkedInvariant
    BY InitParked
<1>2. ParkedInvariant /\ [Next]_vars => ParkedInvariant'
  <2> SUFFICES ASSUME ParkedInvariant, [Next]_vars PROVE ParkedInvariant'
      OBVIOUS
  <2>1. CASE Next
      BY <2>1, ShapesKept, ComesKept, OutrunKept, AnswersKept, DrivenKept DEF ParkedInvariant
  <2>2. CASE UNCHANGED vars
      BY <2>2 DEF vars, ParkedInvariant, Shapes, TypeOK, Comes, Outrun, Parked, AnswerNotSwallowed,
                  Holds, Driven, Drives
  <2> QED
      BY <2>1, <2>2
<1> QED
    BY <1>1, <1>2, PTL DEF Spec

\* AnswerNotSwallowed: the inbox never keeps an answer its step still waits for.
THEOREM NoAnswerIsSwallowed == RemoteBoundAssumption /\ Spec => []AnswerNotSwallowed
<1>1. ParkedInvariant => AnswerNotSwallowed
    BY DEF ParkedInvariant
<1> QED
    BY <1>1, ParkedStepsKept, PTL

\* OneAdvance: a step drives its run on once if it succeeded, and not at all otherwise.
THEOREM SuccessDrivesOnce == RemoteBoundAssumption /\ Spec => []OneAdvance
<1>1. ParkedInvariant => OneAdvance
    BY DrivenCounts DEF ParkedInvariant
<1> QED
    BY <1>1, ParkedStepsKept, PTL

\* EndsByItsLastAttempt: what is over stays, and a step succeeds only by the word of an
\* executor of the claim it is held by.
THEOREM LastAttemptEnds == RemoteBoundAssumption /\ Spec => [][EndsByItsLastAttempt]_vars
<1>1. ASSUME ParkedInvariant, Next PROVE EndsByItsLastAttempt
  <2> SUFFICES ASSUME NEW s \in Step, row'[s] # row[s]
               PROVE  /\ row[s].status \notin Terminal
                      /\ row'[s].status \in {"succeeded", "waiting_human"} =>
                           \/ [step |-> s, version |-> row[s].version] \in working
                           \/ [step |-> s, version |-> row[s].version, succeeded |-> TRUE] \in answers
      BY DEF EndsByItsLastAttempt
  <2>T. Shapes /\ row \in [Step -> StepRow]
      BY <1>1 DEF ParkedInvariant, Shapes, TypeOK
  <2>0. row[s].status \notin Terminal
      BY <1>1, <2>T, RowsMove DEF Moved, Terminal
  <2> SUFFICES ASSUME row'[s].status \in {"succeeded", "waiting_human"}
               PROVE  \/ [step |-> s, version |-> row[s].version] \in working
                      \/ [step |-> s, version |-> row[s].version, succeeded |-> TRUE] \in answers
      BY <2>0
  <2>1. ASSUME NEW c \in working, NEW ok \in BOOLEAN, FinishLocally(c, ok)
        PROVE  [step |-> s, version |-> row[s].version] \in working
    <3>1. Holds(row[c.step], "worker", c.version) /\ Finalize(c.step, ok)
        BY <2>1 DEF FinishLocally
    <3>2. c \in Event /\ c.step = s
        BY <2>T, <3>1 DEF Finalize, Shapes, TypeOK
    <3> QED
        BY <3>1, <3>2 DEF Holds, Event
  <2>2. ASSUME NEW q \in Request, Project(q)
        PROVE  [step |-> s, version |-> row[s].version, succeeded |-> TRUE] \in answers
    <3> DEFINE a == request[q].answer
    <3>1. /\ Finalize(a.step, a.succeeded) /\ Parked(a)
          /\ row[a.step].status = "running"
        BY <2>2 DEF Project, Holds
    <3>2. a \in answers /\ a \in Answer
        BY <2>T, <2>2 DEF Project, Shapes, TypeOK
    <3>3. a.step = s
        BY <2>T, <3>1 DEF Finalize
    <3>4. a.succeeded = TRUE
        BY <2>T, <3>1, <3>2, <3>3, FinalizeWrites DEF Answer
    <3> QED
        BY <3>1, <3>2, <3>3, <3>4 DEF Parked, Answer
  <2>3. ASSUME NEW a \in advances, Fork(a) PROVE FALSE
      BY <2>T, <2>3 DEF Fork, Claimed
  <2>4. ASSUME NEW t \in Step, LeaseExpires(t) PROVE FALSE
      BY <2>T, <2>4 DEF LeaseExpires, StepRow
  <2>5. ASSUME NEW x \in executes, ExecuteLocally(x) PROVE FALSE
      BY <2>T, <2>5 DEF ExecuteLocally, Claimed
  <2>6. ASSUME NEW e \in DOMAIN ready, RelayExhausted(e) PROVE FALSE
      BY <2>T, <2>0, <2>6 DEF RelayExhausted, FailFromOutbox
  <2> QED
      BY <1>1, <2>1, <2>2, <2>3, <2>4, <2>5, <2>6
      DEF Next, Runtime, Relay, Inbox, Peer, Recover, ExecuteOver, Relayed, RelayFails, ProjectFails,
          Receive, PeerAnswers, WorkerStops
<1>2. ParkedInvariant /\ [Next]_vars => [EndsByItsLastAttempt]_vars
    BY <1>1
<1> QED
    BY <1>2, ParkedStepsKept, PTL DEF Spec
=============================================================================
