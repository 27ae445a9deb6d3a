----------------------- MODULE WorkflowRuntime_proofs ------------------------
(***************************************************************************)
(* Proofs about WorkflowRuntime: its type invariant, the inductive         *)
(* invariant Justified, and what follows from it for any number of steps,  *)
(* workers, faults and replays and any dependency relation; then how far   *)
(* the runtime gets: the work of a step is repeated at most once per       *)
(* fault, and a step that is ready is never forgotten.                     *)
(***************************************************************************)
EXTENDS WorkflowRuntime, FiniteSetTheorems, TLAPS

RowOK(row) == row \in Row /\ (row.status = "processing" => row.attempts > 0)

TableOK(table) ==
    /\ DOMAIN table \subseteq Key
    /\ \A k \in DOMAIN table : RowOK(table[k])

USE NoWorkerAssumption, MaxAttemptsAssumption, NoStepAssumption, DepAssumption,
    RedLineAssumption, BoundsAssumption

-----------------------------------------------------------------------------
(* The rows and the table. *)

\* Every guarded UPDATE of the repository turns a well-formed row into one.
LEMMA RowUpdates ==
    ASSUME NEW row, RowOK(row), NEW w \in Worker
    PROVE  /\ RowOK(NewRow)
           /\ RowOK(ClaimRow(row, w))
           /\ RowOK(CompleteRow(row, w))
           /\ RowOK(DeferRow(row, w))
           /\ RowOK(FailRow(row, w))
           /\ RowOK(RenewRow(row, w))
           /\ RowOK(ReplayRow(row))
           /\ RowOK([row EXCEPT !.lease = "expired"])
<1>1. RowOK(NewRow)
  BY DEF RowOK, NewRow, Row, OutboxStatus, Lease
<1>2. RowOK(ClaimRow(row, w))
  BY DEF RowOK, ClaimRow, Row, OutboxStatus, Lease
<1>3. RowOK(CompleteRow(row, w)) /\ RowOK(FailRow(row, w))
  BY DEF RowOK, CompleteRow, FailRow, Released, Row, OutboxStatus, Lease
<1>4. RowOK(DeferRow(row, w))
  <2>1. CASE Holds(row, w)
    <3>1. row.attempts - 1 \in Nat
      BY <2>1 DEF Holds, RowOK, Row
    <3>2. QED
      BY <2>1, <3>1 DEF RowOK, DeferRow, Released, Row, OutboxStatus, Lease
  <2>2. CASE ~Holds(row, w)
    BY <2>2 DEF DeferRow
  <2>3. QED
    BY <2>1, <2>2
<1>5. RowOK(RenewRow(row, w)) /\ RowOK([row EXCEPT !.lease = "expired"])
  BY DEF RowOK, RenewRow, Row, OutboxStatus, Lease
<1>6. RowOK(ReplayRow(row))
  BY <1>1 DEF ReplayRow
<1>7. QED
  BY <1>1, <1>2, <1>3, <1>4, <1>5, <1>6

\* Enqueueing keeps every row there is and adds fresh ones.
LEMMA Enqueued ==
    ASSUME NEW table, TableOK(table), NEW keys, keys \subseteq Key
    PROVE  /\ TableOK(EnqueueAll(table, keys))
           /\ DOMAIN EnqueueAll(table, keys) = DOMAIN table \cup keys
  BY DEF TableOK, EnqueueAll, RowOK, NewRow, Row, OutboxStatus, Lease

\* Replacing one row by a well-formed one.
LEMMA Replaced ==
    ASSUME NEW table, TableOK(table), NEW k \in DOMAIN table, NEW row, RowOK(row)
    PROVE  /\ TableOK([table EXCEPT ![k] = row])
           /\ DOMAIN [table EXCEPT ![k] = row] = DOMAIN table
  BY DEF TableOK

-----------------------------------------------------------------------------
(* What one step of the system does to the outbox. *)

Inv == TypeOK /\ Justified

\* The evidence a new event brings along.
KeyJustified(k) ==
    /\ k \in Key
    /\ k.kind \in StepKinds \cup DecisionKinds => k.step \in Step
    /\ k.kind \in StepKinds => DepsSucceeded(step, k.step)
    /\ k.kind = "accept" => k.step \in accepted'

OutboxGrows ==
    /\ TableOK(outbox')
    /\ DOMAIN outbox \subseteq DOMAIN outbox'
    /\ \A k \in DOMAIN outbox' \ DOMAIN outbox : KeyJustified(k)

\* The outbox of an invariant state is in order.
LEMMA TableInv ==
    ASSUME Inv
    PROVE  TableOK(outbox)
  BY DEF Inv, TypeOK, Justified, EventsJustified, TableOK, RowOK

\* Updating the row of an event.
LEMMA UpdateGrows ==
    ASSUME TableOK(outbox), NEW k \in DOMAIN outbox, NEW row, RowOK(row),
           outbox' = [outbox EXCEPT ![k] = row]
    PROVE  OutboxGrows
  BY Replaced DEF OutboxGrows

\* Enqueueing justified events.
LEMMA EnqueueGrows ==
    ASSUME TableOK(outbox), NEW keys, \A k \in keys : KeyJustified(k),
           outbox' = EnqueueAll(outbox, keys)
    PROVE  OutboxGrows
<1>1. keys \subseteq Key
  BY DEF KeyJustified
<1>2. QED
  BY <1>1, Enqueued DEF OutboxGrows

\* Enqueueing justified events and updating the row of the event in hand.
LEMMA EnqueueUpdateGrows ==
    ASSUME TableOK(outbox), NEW keys, \A k \in keys : KeyJustified(k),
           NEW e \in DOMAIN outbox, NEW w \in Worker,
           outbox' = [EnqueueAll(outbox, keys) EXCEPT ![e] = CompleteRow(@, w)]
    PROVE  OutboxGrows
<1> DEFINE table == EnqueueAll(outbox, keys)
<1>1. keys \subseteq Key
  BY DEF KeyJustified
<1>2. TableOK(table) /\ DOMAIN table = DOMAIN outbox \cup keys
  BY <1>1, Enqueued
<1>3. e \in DOMAIN table /\ RowOK(table[e])
  BY <1>2 DEF TableOK
<1>4. RowOK(CompleteRow(table[e], w))
  BY <1>3, RowUpdates
<1>5. /\ TableOK([table EXCEPT ![e] = CompleteRow(table[e], w)])
      /\ DOMAIN [table EXCEPT ![e] = CompleteRow(table[e], w)] = DOMAIN table
  <2> HIDE DEF table
  <2>1. QED
    BY <1>2, <1>3, <1>4, Replaced
<1>6. outbox' = [table EXCEPT ![e] = CompleteRow(table[e], w)]
  OBVIOUS
<1>7. TableOK(outbox') /\ DOMAIN outbox' = DOMAIN outbox \cup keys
  <2> HIDE DEF table
  <2>1. QED
    BY <1>2, <1>5, <1>6
<1>8. QED
  BY <1>7 DEF OutboxGrows

\* The events enqueue_ready_steps adds are for steps whose dependencies succeeded.
LEMMA ReadyKeysJustified ==
    ASSUME TypeOK, NEW status, NEW k \in ReadyKeys(status)
    PROVE  KeyJustified(k)
<1>1. PICK s \in ReadySteps(step) : k = ExecuteKey(s, step[s].version)
  BY DEF ReadyKeys
<1>2. s \in Step /\ DepsSucceeded(step, s) /\ step[s].version \in Nat
  BY <1>1 DEF ReadySteps, TypeOK, StepRow
<1>3. QED
  BY <1>1, <1>2 DEF KeyJustified, ExecuteKey, Key, Kind, StepKinds, AdvanceKinds, DecisionKinds

\* The recovery scan adds events for running steps, whose dependencies succeeded.
LEMMA RecoverKeysJustified ==
    ASSUME Inv, NEW k \in RecoverKeys
    PROVE  KeyJustified(k)
<1>1. PICK s \in Step : ExpiredStep(step[s]) /\ k = RecoverKey(s, step[s].version)
  BY DEF RecoverKeys
<1>2. DepsSucceeded(step, s) /\ step[s].version \in Nat
  BY <1>1 DEF Inv, Justified, StepsJustified, ExpiredStep, TypeOK, StepRow
<1>3. QED
  BY <1>1, <1>2 DEF KeyJustified, RecoverKey, Key, Kind, StepKinds, AdvanceKinds, DecisionKinds

\* A decision adds at most an advance event.
LEMMA DecidedKeysJustified ==
    ASSUME NEW d, NEW s \in Step, NEW n \in Nat, NEW k \in DecidedKeys(d, s, n)
    PROVE  KeyJustified(k)
<1>1. k = ResumeKey(s, n)
  BY DEF DecidedKeys
<1>2. QED
  BY <1>1 DEF KeyJustified, ResumeKey, Key, Kind, StepKinds, AdvanceKinds, DecisionKinds

\* The worker in hand of an event has a row for it.
LEMMA EventInHand ==
    ASSUME Inv, NEW w \in Worker, worker[w].pc \notin {"idle", "dead"}
    PROVE  /\ worker[w].event \in DOMAIN outbox
           /\ worker[w].event \in Key
           /\ RowOK(outbox[worker[w].event])
  BY TableInv DEF Inv, TypeOK, Busy, TableOK

\* Every step of the system keeps the events of the outbox and adds justified ones.
LEMMA OutboxNext ==
    ASSUME Inv, Next
    PROVE  OutboxGrows
<1> USE TableInv
<1>0. ASSUME UNCHANGED outbox PROVE OutboxGrows
  BY <1>0 DEF OutboxGrows, TableOK
<1>1. ASSUME NEW w \in Worker, HandleAdvance(w) PROVE OutboxGrows
  <2>1. worker[w].event \in DOMAIN outbox
    BY <1>1, EventInHand DEF HandleAdvance
  <2>2. \A k \in ReadyKeys(run') : KeyJustified(k)
    BY ReadyKeysJustified DEF Inv
  <2>3. QED
    BY <1>1, <2>1, <2>2, EnqueueUpdateGrows DEF HandleAdvance
<1>2. ASSUME NEW w \in Worker, HandleDecision(w) PROVE OutboxGrows
  <2> DEFINE k == worker[w].event
  <2>1. k \in DOMAIN outbox /\ k \in Key /\ k.kind \in DecisionKinds
    BY <1>2, EventInHand DEF HandleDecision
  <2>2. k.step \in Step /\ k.n \in Nat
    BY <2>1 DEF Inv, Justified, EventsJustified, Key
  <2>3. \A j \in DecidedKeys(k.kind, k.step, k.n) : KeyJustified(j)
    BY <2>2, DecidedKeysJustified
  <2>4. outbox' = [EnqueueAll(outbox, DecidedKeys(k.kind, k.step, k.n))
                     EXCEPT ![k] = CompleteRow(@, w)]
    BY <1>2 DEF HandleDecision
  <2>5. QED
    <3> HIDE DEF k
    <3>1. QED
      BY <2>1, <2>3, <2>4, EnqueueUpdateGrows
<1>3. ASSUME NEW w \in Worker, Finalize(w) PROVE OutboxGrows
  <2> DEFINE s == worker[w].event.step
             keys == AdvanceKeys(s, CompletionTarget(s, worker[w].outcome), step[s].attempt)
  <2>1. outbox' = EnqueueAll(outbox, keys) \/ UNCHANGED outbox
    BY <1>3 DEF Finalize
  <2>2. s \in Step
    BY <1>3, EventInHand
    DEF Finalize, Inv, Justified, EventsJustified, ClaimsJustified
  <2>3. \A j \in keys : j = AdvanceKey(s, step[s].attempt)
    BY DEF AdvanceKeys
  <2>4. step[s].attempt \in Nat
    BY <2>2 DEF Inv, TypeOK, StepRow
  <2>5. \A j \in keys : KeyJustified(j)
    <3> HIDE DEF s, keys
    <3>1. QED
      BY <2>2, <2>3, <2>4
      DEF KeyJustified, AdvanceKey, Key, Kind, StepKinds, AdvanceKinds, DecisionKinds
  <2>6. QED
    <3> HIDE DEF keys
    <3>1. QED
      BY <1>0, <2>1, <2>5, EnqueueGrows
<1>4. ASSUME NEW w \in Worker, Settle(w) PROVE OutboxGrows
  <2>1. worker[w].event \in DOMAIN outbox /\ RowOK(outbox[worker[w].event])
    BY <1>4, EventInHand DEF Settle
  <2>2. QED
    BY <1>4, <2>1, RowUpdates, UpdateGrows DEF Settle
<1>5. ASSUME NEW w \in Worker, FailEvent(w) PROVE OutboxGrows
  <2>1. worker[w].event \in DOMAIN outbox /\ RowOK(outbox[worker[w].event])
    BY <1>5, EventInHand DEF FailEvent
  <2>2. QED
    BY <1>5, <2>1, RowUpdates, UpdateGrows DEF FailEvent
<1>6. ASSUME NEW w \in Worker, RenewEvent(w) PROVE OutboxGrows
  <2>1. worker[w].event \in DOMAIN outbox /\ RowOK(outbox[worker[w].event])
    BY <1>6, EventInHand DEF RenewEvent, Busy
  <2>2. QED
    BY <1>6, <2>1, RowUpdates, UpdateGrows DEF RenewEvent
<1>7. ASSUME NEW w \in Worker, NEW k \in DOMAIN outbox, ClaimEvent(w, k) PROVE OutboxGrows
  BY <1>7, RowUpdates, UpdateGrows DEF ClaimEvent, TableOK
<1>8. ASSUME NEW k \in DOMAIN outbox, ExpireEvent(k) PROVE OutboxGrows
  <2>1. RowOK([outbox[k] EXCEPT !.lease = "expired"])
    BY DEF TableOK, RowOK, Row, Lease
  <2>2. outbox' = [outbox EXCEPT ![k] = [outbox[k] EXCEPT !.lease = "expired"]]
    BY <1>8 DEF ExpireEvent
  <2>3. QED
    BY <2>1, <2>2, UpdateGrows
<1>9. ASSUME NEW k \in DOMAIN outbox, ReplayEvent(k) PROVE OutboxGrows
  <2>1. RowOK(ReplayRow(outbox[k]))
    BY DEF TableOK, ReplayRow, RowOK, NewRow, Row, OutboxStatus, Lease
  <2>2. QED
    BY <1>9, <2>1, UpdateGrows DEF ReplayEvent
<1>10. ASSUME NEW s \in Step, HumanAccept(s) PROVE OutboxGrows
  <2> DEFINE n == step[s].version
             keys == {DecisionKey("accept", s, n)} \cup DecidedKeys("accept", s, n)
  <2>1. n \in Nat
    BY DEF Inv, TypeOK, StepRow
  <2>2. KeyJustified(DecisionKey("accept", s, n))
    BY <1>10, <2>1
    DEF HumanAccept, KeyJustified, DecisionKey, Key, Kind, StepKinds, AdvanceKinds, DecisionKinds
  <2>3. \A j \in keys : KeyJustified(j)
    <3> HIDE DEF n
    <3>1. QED
      BY <2>1, <2>2, DecidedKeysJustified
  <2>4. outbox' = EnqueueAll(outbox, keys)
    BY <1>10 DEF HumanAccept
  <2>5. QED
    <3> HIDE DEF keys
    <3>1. QED
      BY <2>3, <2>4, EnqueueGrows
<1>11. ASSUME NEW s \in Step, HumanReject(s) PROVE OutboxGrows
  <2> DEFINE k == DecisionKey("reject", s, step[s].version)
  <2>1. step[s].version \in Nat
    BY DEF Inv, TypeOK, StepRow
  <2>2. KeyJustified(k)
    BY <2>1 DEF KeyJustified, DecisionKey, Key, Kind, StepKinds, AdvanceKinds, DecisionKinds
  <2>3. outbox' = EnqueueAll(outbox, {k})
    BY <1>11 DEF HumanReject
  <2>4. QED
    <3> HIDE DEF k
    <3>1. QED
      BY <2>2, <2>3, EnqueueGrows
<1>12. ASSUME Recover PROVE OutboxGrows
  BY <1>12, RecoverKeysJustified, EnqueueGrows DEF Recover
<1>13. QED
  BY <1>0, <1>1, <1>2, <1>3, <1>4, <1>5, <1>6, <1>7, <1>8, <1>9, <1>10, <1>11, <1>12
  DEF Next, Work, ClaimStep, Prepare, Execute, Raise, Abandon, Crash,
      EventLeaseRunsOut, EventLeaseLapses, StepLeaseRunsOut, StepLeaseLapses, ExpireStep

-----------------------------------------------------------------------------
(* What one step of the system does to the steps of the run. *)

SameStatus(s) == step'[s].status = step[s].status

\* The status changes of one step.
StatusMove(s) ==
    \/ /\ step[s].status = "queued"
       /\ DepsSucceeded(step, s)
       /\ step'[s].status \in {"running", "failed"}
       /\ accepted' = accepted
    \/ /\ step[s].status = "running"
       /\ step'[s].status \in {"failed", IF s \in RedLine THEN "waiting_human" ELSE "succeeded"}
       /\ accepted' = accepted
    \/ /\ step[s].status = "waiting_human"
       /\ step'[s].status = "succeeded"
       /\ accepted' = accepted \cup {s}
    \/ /\ step[s].status = "waiting_human"
       /\ step'[s].status = "failed"
       /\ accepted' = accepted

StepsMove ==
    /\ step' \in [Step -> StepRow]
    /\ \/ (\A r \in Step : SameStatus(r)) /\ accepted' = accepted
       \/ \E s \in Step : StatusMove(s) /\ \A r \in Step \ {s} : SameStatus(r)

\* The updates of one row.
LEMMA StepRowUpdates ==
    ASSUME NEW row \in StepRow
    PROVE  /\ \A w \in Worker : Claimed(row, w) \in StepRow
           /\ \A st \in StepStatus : Finished(row, st) \in StepRow /\ Finished(row, st).status = st
           /\ \A d \in Kind : /\ Decided(row, d) \in StepRow
                              /\ Decided(row, d).status = DecisionTarget(d)
           /\ [row EXCEPT !.lease = "expired"] \in StepRow
           /\ [row EXCEPT !.lease = "expired"].status = row.status
<1>1. row.version + 1 \in Nat /\ row.attempt + 1 \in Nat
  BY DEF StepRow
<1>2. \A w \in Worker : Claimed(row, w) \in StepRow
  BY <1>1 DEF StepRow, Claimed, StepStatus, Lease
<1>3. ASSUME NEW st \in StepStatus
      PROVE  Finished(row, st) \in StepRow /\ Finished(row, st).status = st
  BY <1>1 DEF StepRow, Finished, Lease
<1>4. ASSUME NEW d \in Kind
      PROVE  Decided(row, d) \in StepRow /\ Decided(row, d).status = DecisionTarget(d)
  <2>1. DecisionTarget(d) \in StepStatus
    BY DEF DecisionTarget, StepStatus
  <2>2. QED
    BY <1>1, <2>1 DEF StepRow, Decided
<1>5. /\ [row EXCEPT !.lease = "expired"] \in StepRow
      /\ [row EXCEPT !.lease = "expired"].status = row.status
  BY DEF StepRow, Lease
<1>6. QED
  BY <1>2, <1>3, <1>4, <1>5

\* Changing one row.
LEMMA OneRowMoves ==
    ASSUME TypeOK, NEW s \in Step, NEW row \in StepRow, step' = [step EXCEPT ![s] = row],
           StatusMove(s) \/ (row.status = step[s].status /\ accepted' = accepted)
    PROVE  StepsMove
<1>1. /\ step' \in [Step -> StepRow]
      /\ step'[s] = row
      /\ \A r \in Step \ {s} : step'[r] = step[r]
  BY DEF TypeOK
<1>2. QED
  BY <1>1 DEF StepsMove, SameStatus

\* A decision on version n of s, delivered or made directly.
LEMMA DecisionMoves ==
    ASSUME Inv, NEW d \in DecisionKinds, NEW s \in Step, NEW n \in Nat,
           step' = DecidedStep(d, s, n),
           IF d = "accept" /\ Decidable(s, n) THEN accepted' = accepted \cup {s}
                                             ELSE accepted' = accepted
    PROVE  StepsMove
<1>1. CASE Decidable(s, n)
  <2>1. /\ Decided(step[s], d) \in StepRow
        /\ Decided(step[s], d).status = DecisionTarget(d)
    BY StepRowUpdates DEF Inv, TypeOK, Kind
  <2>2. step' = [step EXCEPT ![s] = Decided(step[s], d)]
    BY <1>1 DEF DecidedStep
  <2>3. step'[s] = Decided(step[s], d)
    BY <2>2 DEF Inv, TypeOK
  <2>4. StatusMove(s)
    BY <1>1, <2>1, <2>3 DEF StatusMove, Decidable, DecisionTarget, DecisionKinds
  <2>5. QED
    BY <2>1, <2>2, <2>4, OneRowMoves DEF Inv
<1>2. CASE ~Decidable(s, n)
  BY <1>2 DEF DecidedStep, StepsMove, SameStatus, Inv, TypeOK
<1>3. QED
  BY <1>1, <1>2

\* A worker that is executing works on a step of the run.
LEMMA StepInHand ==
    ASSUME Inv, NEW w \in Worker, worker[w].pc \notin {"idle", "dead"},
           worker[w].event.kind \in StepKinds \cup DecisionKinds
    PROVE  /\ worker[w].event.step \in Step
           /\ worker[w].event.kind \in StepKinds => DepsSucceeded(step, worker[w].event.step)
           /\ worker[w].event.kind = "accept" => worker[w].event.step \in accepted
           /\ worker[w].event.n \in Nat
  BY EventInHand DEF Inv, Justified, EventsJustified, Key

\* Every step of the system moves the steps along their life cycle.
LEMMA StepsNext ==
    ASSUME Inv, Next
    PROVE  StepsMove
<1>0. ASSUME UNCHANGED <<step, accepted>> PROVE StepsMove
  BY <1>0 DEF StepsMove, SameStatus, Inv, TypeOK
<1>1. ASSUME NEW w \in Worker, HandleDecision(w) PROVE StepsMove
  <2> DEFINE k == worker[w].event
  <2>1. /\ k.kind \in DecisionKinds /\ k.step \in Step /\ k.n \in Nat
        /\ k.kind = "accept" => k.step \in accepted
    BY <1>1, StepInHand DEF HandleDecision
  <2>2. step' = DecidedStep(k.kind, k.step, k.n) /\ accepted' = accepted
    BY <1>1 DEF HandleDecision
  <2>3. QED
    <3> HIDE DEF k
    <3>1. k.kind = "accept" => accepted' = accepted \cup {k.step}
      BY <2>1, <2>2
    <3>2. QED
      BY <2>1, <2>2, <3>1, DecisionMoves
<1>2. ASSUME NEW w \in Worker, ClaimStep(w) PROVE StepsMove
  <2> DEFINE s == worker[w].event.step
  <2>1. s \in Step /\ DepsSucceeded(step, s)
    BY <1>2, StepInHand DEF ClaimStep
  <2>2. CASE ClaimableStep(step[s])
    <3>1. step' = [step EXCEPT ![s] = Claimed(step[s], w)] /\ accepted' = accepted
      BY <1>2, <2>2 DEF ClaimStep
    <3>2. Claimed(step[s], w) \in StepRow
      BY <2>1, StepRowUpdates DEF Inv, TypeOK
    <3>3. step'[s] = Claimed(step[s], w)
      BY <2>1, <3>1 DEF Inv, TypeOK
    <3>4. StatusMove(s) \/ (Claimed(step[s], w).status = step[s].status /\ accepted' = accepted)
      <4> HIDE DEF s
      <4>1. QED
        BY <2>1, <2>2, <3>1, <3>3 DEF StatusMove, ClaimableStep, ExpiredStep, Claimed
    <3>5. QED
      <4> HIDE DEF s
      <4>1. QED
        BY <2>1, <3>1, <3>2, <3>4, OneRowMoves DEF Inv
  <2>3. CASE ~ClaimableStep(step[s])
    BY <1>0, <1>2, <2>3 DEF ClaimStep
  <2>4. QED
    BY <2>2, <2>3
<1>3. ASSUME NEW w \in Worker, Finalize(w) PROVE StepsMove
  <2> DEFINE s == worker[w].event.step
             target == CompletionTarget(s, worker[w].outcome)
  <2>1. s \in Step
    BY <1>3, StepInHand DEF Finalize, Inv, Justified, ClaimsJustified
  <2>2. target \in {"failed", IF s \in RedLine THEN "waiting_human" ELSE "succeeded"}
    BY DEF CompletionTarget
  <2>3. CASE ClaimCurrent(w)
    <3>1. step' = [step EXCEPT ![s] = Finished(step[s], target)] /\ accepted' = accepted
      BY <1>3, <2>3 DEF Finalize
    <3>2. Finished(step[s], target) \in StepRow /\ Finished(step[s], target).status = target
      <4>1. target \in StepStatus
        BY DEF CompletionTarget, StepStatus
      <4>2. step[s] \in StepRow
        BY <2>1 DEF Inv, TypeOK
      <4> HIDE DEF s, target
      <4>3. QED
        BY <4>1, <4>2, StepRowUpdates
    <3>3. step'[s] = Finished(step[s], target)
      BY <2>1, <3>1 DEF Inv, TypeOK
    <3>4. step[s].status = "running"
      BY <2>3 DEF ClaimCurrent
    <3>5. StatusMove(s)
      <4> HIDE DEF s, target
      <4>1. QED
        BY <2>2, <3>1, <3>2, <3>3, <3>4 DEF StatusMove
    <3>6. QED
      <4> HIDE DEF s, target
      <4>1. QED
        BY <2>1, <3>1, <3>2, <3>5, OneRowMoves DEF Inv
  <2>4. CASE ~ClaimCurrent(w)
    BY <1>0, <1>3, <2>4 DEF Finalize
  <2>5. QED
    BY <2>3, <2>4
<1>4. ASSUME NEW w \in Worker, FailEvent(w) PROVE StepsMove
  <2> DEFINE k == worker[w].event
  <2>1. accepted' = accepted /\ (FailFromOutbox(k) \/ UNCHANGED step)
    BY <1>4 DEF FailEvent
  <2>2. CASE FailFromOutbox(k) /\ StepToFail(k)
    <3>1. /\ k.kind \in StepKinds /\ k.step \in Step /\ DepsSucceeded(step, k.step)
      BY <1>4, <2>2, StepInHand DEF FailEvent, StepToFail
    <3>2. step' = [step EXCEPT ![k.step] = Finished(step[k.step], "failed")]
      BY <2>2 DEF FailFromOutbox
    <3>3. /\ Finished(step[k.step], "failed") \in StepRow
          /\ Finished(step[k.step], "failed").status = "failed"
      BY <3>1, StepRowUpdates DEF Inv, TypeOK, StepStatus
    <3>4. step'[k.step] = Finished(step[k.step], "failed")
      BY <3>1, <3>2 DEF Inv, TypeOK
    <3>5. step[k.step].status \in {"queued", "running"}
      BY <2>2, <3>1 DEF StepToFail, TerminalStatuses, Inv, TypeOK, StepRow, StepStatus
    <3>6. StatusMove(k.step)
      <4> HIDE DEF k
      <4>1. QED
        BY <2>1, <3>1, <3>3, <3>4, <3>5 DEF StatusMove
    <3>7. QED
      <4> HIDE DEF k
      <4>1. QED
        BY <3>1, <3>2, <3>3, <3>6, OneRowMoves DEF Inv
  <2>3. CASE UNCHANGED step
    BY <1>0, <2>1, <2>3
  <2>4. QED
    BY <2>1, <2>2, <2>3 DEF FailFromOutbox
<1>5. ASSUME NEW s \in Step, ExpireStep(s) PROVE StepsMove
  <2>1. step' = [step EXCEPT ![s] = [step[s] EXCEPT !.lease = "expired"]] /\ accepted' = accepted
    BY <1>5 DEF ExpireStep
  <2>2. step[s] \in StepRow
    BY DEF Inv, TypeOK
  <2>3. QED
    BY <2>1, <2>2, StepRowUpdates, OneRowMoves DEF Inv
<1>6. ASSUME NEW s \in Step, HumanAccept(s) PROVE StepsMove
  <2>1. step[s].version \in Nat /\ Decidable(s, step[s].version)
    BY <1>6 DEF HumanAccept, Decidable, Inv, TypeOK, StepRow
  <2>2. /\ step' = DecidedStep("accept", s, step[s].version)
        /\ accepted' = accepted \cup {s}
    BY <1>6 DEF HumanAccept
  <2>3. "accept" \in DecisionKinds
    BY DEF DecisionKinds
  <2>4. QED
    BY <2>1, <2>2, <2>3, DecisionMoves
<1>7. QED
  BY <1>0, <1>1, <1>2, <1>3, <1>4, <1>5, <1>6
  DEF Next, Work, HandleAdvance, Prepare, Execute, Settle, Raise, Abandon, Crash, RenewEvent,
      ClaimEvent, EventLeaseRunsOut, EventLeaseLapses, ExpireEvent, ReplayEvent,
      StepLeaseRunsOut, StepLeaseLapses, HumanReject, Recover

-----------------------------------------------------------------------------
(* What one step of the system does to the workers, and to the rest. *)

\* derive_run_status returns a status.
LEMMA RunTypes ==
    ASSUME NEW st
    PROVE  DeriveRunStatus(st) \in RunStatus
  BY DEF DeriveRunStatus, RunStatus, StepStatus

\* Replacing the state of one worker.  What a claim was justified by stays true.
WorkersMove ==
    /\ worker' \in [Worker -> WorkerState]
    /\ \A w \in Worker :
          worker'[w].pc \notin {"idle", "dead"} =>
             /\ worker'[w].event \in DOMAIN outbox
             /\ worker'[w].pc \in {"claimed", "prepared", "worked", "settling"} =>
                   worker'[w].event.kind \in StepKinds
             /\ worker'[w].pc \in {"claimed", "prepared", "worked"} =>
                   step'[worker'[w].event.step].status # "queued"

\* A step that was started is never queued again.
LEMMA NeverQueuedAgain ==
    ASSUME Inv, StepsMove, NEW s \in Step, step[s].status # "queued"
    PROVE  step'[s].status # "queued"
<1>1. CASE SameStatus(s)
  BY <1>1 DEF SameStatus
<1>2. CASE StatusMove(s)
  BY <1>2 DEF StatusMove
<1>3. QED
  BY <1>1, <1>2 DEF StepsMove

\* One worker changes its state to one that its claim justifies.
LEMMA OneWorkerMoves ==
    ASSUME Inv, StepsMove, NEW w \in Worker, NEW state \in WorkerState,
           worker' = [worker EXCEPT ![w] = state],
           state.pc \notin {"idle", "dead"} => state.event \in DOMAIN outbox,
           state.pc \in {"claimed", "prepared", "worked", "settling"} =>
               state.event.kind \in StepKinds,
           state.pc \in {"claimed", "prepared", "worked"} =>
               step'[state.event.step].status # "queued"
    PROVE  WorkersMove
<1>1. /\ worker' \in [Worker -> WorkerState]
      /\ worker'[w] = state
      /\ \A v \in Worker \ {w} : worker'[v] = worker[v]
  BY DEF Inv, TypeOK
<1>2. ASSUME NEW v \in Worker \ {w}, worker[v].pc \notin {"idle", "dead"}
      PROVE  /\ worker[v].event \in DOMAIN outbox
             /\ worker[v].pc \in {"claimed", "prepared", "worked", "settling"} =>
                   worker[v].event.kind \in StepKinds
             /\ worker[v].pc \in {"claimed", "prepared", "worked"} =>
                   step'[worker[v].event.step].status # "queued"
  <2>1. worker[v].event \in DOMAIN outbox
    BY <1>2, EventInHand
  <2>2. worker[v].pc \in {"claimed", "prepared", "worked", "settling"} =>
           worker[v].event.kind \in StepKinds
    BY DEF Inv, Justified, ClaimsJustified
  <2>3. ASSUME worker[v].pc \in {"claimed", "prepared", "worked"}
        PROVE  step'[worker[v].event.step].status # "queued"
    <3>1. step[worker[v].event.step].status # "queued" /\ worker[v].event.step \in Step
      BY <2>2, <2>3, StepInHand DEF Inv, Justified, ClaimsJustified
    <3>2. QED
      BY <3>1, NeverQueuedAgain
  <2>4. QED
    BY <2>1, <2>2, <2>3
<1>3. QED
  BY <1>1, <1>2 DEF WorkersMove

\* While no worker moves, what its claim was justified by stays true.
LEMMA WorkersStay ==
    ASSUME Inv, StepsMove, UNCHANGED worker
    PROVE  WorkersMove
<1>1. ASSUME NEW v \in Worker, worker[v].pc \notin {"idle", "dead"}
      PROVE  /\ worker[v].event \in DOMAIN outbox
             /\ worker[v].pc \in {"claimed", "prepared", "worked", "settling"} =>
                   worker[v].event.kind \in StepKinds
             /\ worker[v].pc \in {"claimed", "prepared", "worked"} =>
                   step'[worker[v].event.step].status # "queued"
  <2>1. worker[v].event \in DOMAIN outbox
    BY <1>1, EventInHand
  <2>2. worker[v].pc \in {"claimed", "prepared", "worked", "settling"} =>
           worker[v].event.kind \in StepKinds
    BY DEF Inv, Justified, ClaimsJustified
  <2>3. ASSUME worker[v].pc \in {"claimed", "prepared", "worked"}
        PROVE  step'[worker[v].event.step].status # "queued"
    <3>1. step[worker[v].event.step].status # "queued" /\ worker[v].event.step \in Step
      BY <2>2, <2>3, StepInHand DEF Inv, Justified, ClaimsJustified
    <3>2. QED
      BY <3>1, NeverQueuedAgain
  <2>4. QED
    BY <2>1, <2>2, <2>3
<1>2. QED
  BY <1>1 DEF WorkersMove, Inv, TypeOK

\* The types of what a worker remembers.
LEMMA StateUpdates ==
    /\ Idle \in WorkerState /\ Idle.pc = "idle"
    /\ Dead \in WorkerState /\ Dead.pc = "dead"
    /\ \A k \in Key : Handling(k) \in WorkerState /\ Handling(k).pc = "handling"
                      /\ Handling(k).event = k
    /\ \A k \in Key, row \in StepRow :
          Holding(k, row) \in WorkerState /\ Holding(k, row).pc = "claimed"
          /\ Holding(k, row).event = k
    /\ \A state \in WorkerState, pc \in PC, outcome \in Outcome :
          /\ Moved(state, pc, outcome) \in WorkerState
          /\ Moved(state, pc, outcome).pc = pc
          /\ Moved(state, pc, outcome).event = state.event
<1>1. Idle \in WorkerState /\ Idle.pc = "idle"
  BY DEF Idle, WorkerState, PC, Outcome, StartKey, Key, Kind, AdvanceKinds
<1>2. Dead \in WorkerState /\ Dead.pc = "dead"
  BY <1>1 DEF Dead, WorkerState, PC
<1>3. ASSUME NEW k \in Key
      PROVE  Handling(k) \in WorkerState /\ Handling(k).pc = "handling" /\ Handling(k).event = k
  BY DEF Handling, Idle, WorkerState, PC, Outcome
<1>4. ASSUME NEW k \in Key, NEW row \in StepRow
      PROVE  /\ Holding(k, row) \in WorkerState
             /\ Holding(k, row).pc = "claimed"
             /\ Holding(k, row).event = k
  BY DEF Holding, WorkerState, PC, Outcome, StepRow
<1>5. ASSUME NEW state \in WorkerState, NEW pc \in PC, NEW outcome \in Outcome
      PROVE  /\ Moved(state, pc, outcome) \in WorkerState
             /\ Moved(state, pc, outcome).pc = pc
             /\ Moved(state, pc, outcome).event = state.event
  BY DEF Moved, WorkerState
<1>6. QED
  BY <1>1, <1>2, <1>3, <1>4, <1>5

\* Every step of the system leaves the workers with justified claims.
LEMMA WorkersNext ==
    ASSUME Inv, Next, StepsMove
    PROVE  WorkersMove
<1> USE DEF PC, Outcome
<1>0. ASSUME UNCHANGED worker PROVE WorkersMove
  BY <1>0, WorkersStay
<1>1. ASSUME NEW w \in Worker, worker' = [worker EXCEPT ![w] = Idle] PROVE WorkersMove
  BY <1>1, StateUpdates, OneWorkerMoves
<1>2. ASSUME NEW w \in Worker, worker' = [worker EXCEPT ![w] = Dead] PROVE WorkersMove
  BY <1>2, StateUpdates, OneWorkerMoves
<1>3. ASSUME NEW w \in Worker, NEW k \in DOMAIN outbox, ClaimEvent(w, k) PROVE WorkersMove
  <2>1. k \in Key
    BY DEF Inv, TypeOK
  <2>2. worker' = [worker EXCEPT ![w] = Handling(k)]
    BY <1>3 DEF ClaimEvent
  <2>3. Handling(k) \in WorkerState /\ Handling(k).pc = "handling" /\ Handling(k).event = k
    BY <2>1, StateUpdates
  <2>4. QED
    BY <2>2, <2>3, OneWorkerMoves
<1>4. ASSUME NEW w \in Worker, NEW pc \in {"raised", "settling", "prepared", "worked"},
             NEW outcome \in Outcome,
             worker[w].pc \notin {"idle", "dead"},
             pc # "raised" => worker[w].event.kind \in StepKinds,
             pc \in {"prepared", "worked"} => worker[w].pc \in {"claimed", "prepared"},
             worker' = [worker EXCEPT ![w] = Moved(worker[w], pc, outcome)]
      PROVE  WorkersMove
  <2>1. worker[w] \in WorkerState /\ worker[w].event \in DOMAIN outbox
    BY <1>4, EventInHand DEF Inv, TypeOK
  <2>2. /\ Moved(worker[w], pc, outcome) \in WorkerState
        /\ Moved(worker[w], pc, outcome).pc = pc
        /\ Moved(worker[w], pc, outcome).event = worker[w].event
    BY <2>1, StateUpdates
  <2>3. ASSUME pc \in {"prepared", "worked"}
        PROVE  step'[worker[w].event.step].status # "queued"
    <3>1. step[worker[w].event.step].status # "queued" /\ worker[w].event.step \in Step
      BY <1>4, <2>3, StepInHand DEF Inv, Justified, ClaimsJustified
    <3>2. QED
      BY <3>1, NeverQueuedAgain
  <2>4. QED
    BY <1>4, <2>1, <2>2, <2>3, OneWorkerMoves
<1>5. ASSUME NEW w \in Worker, ClaimStep(w) PROVE WorkersMove
  <2> DEFINE s == worker[w].event.step
  <2>1. /\ worker[w].pc \notin {"idle", "dead"}
        /\ worker[w].event.kind \in StepKinds
        /\ s \in Step
    BY <1>5, StepInHand DEF ClaimStep
  <2>2. CASE ClaimableStep(step[s])
    <3>1. /\ worker' = [worker EXCEPT ![w] = Holding(worker[w].event, Claimed(step[s], w))]
          /\ step' = [step EXCEPT ![s] = Claimed(step[s], w)]
      BY <1>5, <2>2 DEF ClaimStep
    <3>2. worker[w].event \in Key /\ worker[w].event \in DOMAIN outbox
      BY <2>1, EventInHand
    <3>3. Claimed(step[s], w) \in StepRow
      BY <2>1, StepRowUpdates DEF Inv, TypeOK
    <3>4. step'[s].status # "queued"
      BY <2>1, <3>1 DEF Claimed, Inv, TypeOK
    <3>5. /\ Holding(worker[w].event, Claimed(step[s], w)) \in WorkerState
          /\ Holding(worker[w].event, Claimed(step[s], w)).pc = "claimed"
          /\ Holding(worker[w].event, Claimed(step[s], w)).event = worker[w].event
      BY <3>2, <3>3, StateUpdates
    <3>6. QED
      BY <2>1, <3>1, <3>2, <3>4, <3>5, OneWorkerMoves
  <2>3. CASE ~ClaimableStep(step[s])
    <3>1. worker' = [worker EXCEPT ![w] = Moved(worker[w], "settling", Disposition(step[s]))]
      BY <1>5, <2>3 DEF ClaimStep
    <3>2. Disposition(step[s]) \in Outcome
      BY DEF Disposition
    <3>3. QED
      BY <1>4, <2>1, <3>1, <3>2
  <2>4. QED
    BY <2>2, <2>3
<1>6. ASSUME NEW w \in Worker, Prepare(w) PROVE WorkersMove
  <2>1. worker[w].pc = "claimed" /\ worker[w].event.kind \in StepKinds
    BY <1>6 DEF Prepare, Inv, Justified, ClaimsJustified
  <2>2. PICK pc \in {"prepared", "raised"} :
          worker' = [worker EXCEPT ![w] = Moved(worker[w], pc, "none")]
    BY <1>6 DEF Prepare
  <2>3. QED
    BY <1>4, <2>1, <2>2
<1>7. ASSUME NEW w \in Worker, Execute(w) PROVE WorkersMove
  <2>1. worker[w].pc = "prepared" /\ worker[w].event.kind \in StepKinds
    BY <1>7 DEF Execute, Inv, Justified, ClaimsJustified
  <2>2. PICK result \in {"succeeded", "failed"} :
          worker' = [worker EXCEPT ![w] = Moved(worker[w], "worked", result)]
    BY <1>7 DEF Execute
  <2>3. QED
    BY <1>4, <2>1, <2>2
<1>8. ASSUME NEW w \in Worker, Finalize(w) PROVE WorkersMove
  <2>1. worker[w].pc = "worked" /\ worker[w].event.kind \in StepKinds
    BY <1>8 DEF Finalize, Inv, Justified, ClaimsJustified
  <2>2. \/ worker' = [worker EXCEPT ![w] = Moved(worker[w], "settling", "complete")]
        \/ worker' = [worker EXCEPT ![w] = Moved(worker[w], "raised", "none")]
    BY <1>8 DEF Finalize
  <2>3. QED
    BY <1>4, <2>1, <2>2
<1>9. ASSUME NEW w \in Worker, Raise(w) PROVE WorkersMove
  BY <1>4, <1>9 DEF Raise
<1>10. QED
  BY <1>0, <1>1, <1>2, <1>3, <1>5, <1>6, <1>7, <1>8, <1>9
  DEF Next, Work, HandleAdvance, HandleDecision, Settle, FailEvent, Abandon, Crash, RenewEvent,
      EventLeaseRunsOut, EventLeaseLapses, ExpireEvent, ReplayEvent,
      StepLeaseRunsOut, StepLeaseLapses, ExpireStep, HumanAccept, HumanReject, Recover

\* Work is done on claimed steps only.
EffectsMove ==
    /\ effects' \in [Step -> Nat]
    /\ \/ effects' = effects
       \/ \E s \in Step : /\ step[s].status # "queued"
                         /\ effects' = [effects EXCEPT ![s] = effects[s] + 1]
                         /\ UNCHANGED <<step, accepted>>

\* Only Execute does work, of a step that its worker has claimed.
LEMMA EffectsNext ==
    ASSUME Inv, Next
    PROVE  EffectsMove
<1>0. ASSUME UNCHANGED effects PROVE EffectsMove
  BY <1>0 DEF EffectsMove, Inv, TypeOK
<1>1. ASSUME NEW w \in Worker, Execute(w) PROVE EffectsMove
  <2> DEFINE s == worker[w].event.step
  <2>1. s \in Step /\ step[s].status # "queued"
    BY <1>1, StepInHand DEF Execute, Inv, Justified, ClaimsJustified
  <2>2. effects' = [effects EXCEPT ![s] = effects[s] + 1] /\ UNCHANGED <<step, accepted>>
    BY <1>1 DEF Execute
  <2>3. QED
    <3> HIDE DEF s
    <3>1. effects' \in [Step -> Nat]
      BY <2>1, <2>2 DEF Inv, TypeOK
    <3>2. QED
      BY <2>1, <2>2, <3>1 DEF EffectsMove
<1>2. QED
  BY <1>0, <1>1
  DEF Next, Work, HandleAdvance, HandleDecision, ClaimStep, Prepare, Finalize, Settle, FailEvent,
      Raise, Abandon, Crash, RenewEvent, ClaimEvent, EventLeaseRunsOut, EventLeaseLapses,
      ExpireEvent, ReplayEvent, StepLeaseRunsOut, StepLeaseLapses, ExpireStep, HumanAccept,
      HumanReject, Recover

\* The run keeps its type and the counters their bounds.
LEMMA RunAndCountersNext ==
    ASSUME Inv, Next
    PROVE  run' \in RunStatus /\ faults' \in 0..MaxFaults /\ replays' \in 0..MaxReplays
<1>1. run \in RunStatus /\ faults \in 0..MaxFaults /\ replays \in 0..MaxReplays
  BY DEF Inv, TypeOK
<1>2. run' \in RunStatus
  <2>1. {run, "running", "failed"} \subseteq RunStatus
    BY <1>1 DEF RunStatus, StepStatus
  <2>2. ASSUME NEW d, NEW s, NEW n PROVE DecidedRun(d, s, n) \in RunStatus
    BY <2>1, RunTypes DEF DecidedRun
  <2>3. ASSUME NEW w \in Worker, Work(w) PROVE run' \in RunStatus
    <3>1. ASSUME HandleAdvance(w) PROVE run' \in RunStatus
      BY <3>1, RunTypes DEF HandleAdvance
    <3>2. ASSUME HandleDecision(w) PROVE run' \in RunStatus
      BY <2>2, <3>2 DEF HandleDecision
    <3>3. ASSUME ClaimStep(w) PROVE run' \in RunStatus
      BY <2>1, <3>3 DEF ClaimStep
    <3>4. ASSUME Finalize(w) PROVE run' \in RunStatus
      BY <2>1, <3>4, RunTypes DEF Finalize
    <3>5. ASSUME FailEvent(w) PROVE run' \in RunStatus
      BY <2>1, <3>5, RunTypes DEF FailEvent, FailFromOutbox
    <3>6. QED
      BY <2>1, <2>3, <3>1, <3>2, <3>3, <3>4, <3>5 DEF Work, Prepare, Execute, Settle
  <2>4. ASSUME NEW s \in Step, HumanAccept(s) PROVE run' \in RunStatus
    BY <2>2, <2>4 DEF HumanAccept
  <2>5. QED
    BY <2>1, <2>3, <2>4
    DEF Next, Raise, Abandon, Crash, RenewEvent, ClaimEvent, EventLeaseRunsOut, EventLeaseLapses,
        ExpireEvent, ReplayEvent, StepLeaseRunsOut, StepLeaseLapses, ExpireStep, HumanReject,
        Recover
<1>3. faults' = faults \/ Fault
  BY DEF Next, Work, HandleAdvance, HandleDecision, ClaimStep, Prepare, Execute, Finalize, Settle,
         FailEvent, Raise, Abandon, Crash, RenewEvent, ClaimEvent,
         EventLeaseRunsOut, EventLeaseLapses, ReplayEvent, StepLeaseRunsOut,
         StepLeaseLapses, HumanAccept, HumanReject, Recover
<1>4. replays' = replays \/ (replays < MaxReplays /\ replays' = replays + 1)
  BY DEF Next, Work, HandleAdvance, HandleDecision, ClaimStep, Prepare, Execute, Finalize, Settle,
         FailEvent, Raise, Abandon, Crash, RenewEvent, ClaimEvent,
         EventLeaseRunsOut, EventLeaseLapses, ExpireEvent, ReplayEvent, StepLeaseRunsOut,
         StepLeaseLapses, ExpireStep, HumanAccept, HumanReject, Recover
<1>5. QED
  BY <1>1, <1>2, <1>3, <1>4 DEF Fault

-----------------------------------------------------------------------------
(* The invariant. *)

\* Once they have succeeded, the dependencies of a step stay succeeded.
LEMMA SucceededStays ==
    ASSUME StepsMove, NEW s \in Step
    PROVE  /\ step[s].status = "succeeded" => step'[s].status = "succeeded"
           /\ DepsSucceeded(step, s) => DepsSucceeded(step', s)
<1>1. ASSUME NEW r \in Step, step[r].status = "succeeded"
      PROVE  step'[r].status = "succeeded"
  <2>1. SameStatus(r) \/ StatusMove(r)
    BY DEF StepsMove
  <2>2. QED
    BY <1>1, <2>1 DEF SameStatus, StatusMove
<1>2. QED
  BY <1>1 DEF DepsSucceeded, Succeeded

\* An acceptance by a human is not taken back.
LEMMA AcceptedGrows ==
    ASSUME Inv, StepsMove
    PROVE  accepted \subseteq accepted' /\ accepted' \subseteq Step
  BY DEF Inv, TypeOK, StepsMove, StatusMove

\* The invariant holds at first.
LEMMA InitInv == Init => Inv
<1> SUFFICES ASSUME Init PROVE Inv
  OBVIOUS
<1>1. StartKey \in Key /\ StartKey.kind = "advance"
  BY DEF StartKey, Key, Kind, AdvanceKinds
<1>2. NewStep \in StepRow /\ NewStep.status = "queued"
  BY DEF NewStep, StepRow, StepStatus, Lease
<1>3. NewRow \in Row /\ NewRow.status = "pending"
  BY DEF NewRow, Row, OutboxStatus, Lease
<1>4. Idle \in WorkerState /\ Idle.pc = "idle"
  BY StateUpdates
<1>5. run \in RunStatus /\ faults \in 0..MaxFaults /\ replays \in 0..MaxReplays
  BY DEF Init, RunStatus, StepStatus
<1>6. TypeOK
  BY <1>1, <1>2, <1>3, <1>4, <1>5 DEF Init, TypeOK, Busy
<1>7. EventsJustified
  BY <1>1, <1>3 DEF Init, EventsJustified, StepKinds, DecisionKinds
<1>8. ClaimsJustified
  BY <1>4 DEF Init, ClaimsJustified
<1>9. StepsJustified
  BY <1>2 DEF Init, StepsJustified
<1>10. QED
  BY <1>6, <1>7, <1>8, <1>9 DEF Inv, Justified

\* What has started keeps the dependencies it was started for.
LEMMA StepJustifiedNext ==
    ASSUME Inv, StepsMove, EffectsMove
    PROVE  StepsJustified'
<1> SUFFICES ASSUME NEW s \in Step
             PROVE  /\ step'[s].status # "queued" => DepsSucceeded(step', s)
                    /\ effects'[s] > 0 => step'[s].status # "queued"
                    /\ step'[s].status = "succeeded" /\ s \in RedLine => s \in accepted'
  BY DEF StepsJustified
<1>1. SameStatus(s) \/ StatusMove(s)
  BY DEF StepsMove
<1>2. step'[s].status # "queued" => DepsSucceeded(step, s)
  BY <1>1 DEF SameStatus, StatusMove, Inv, Justified, StepsJustified
<1>3. effects'[s] > 0 => step'[s].status # "queued"
  <2>1. effects[s] > 0 => step'[s].status # "queued"
    BY NeverQueuedAgain DEF Inv, Justified, StepsJustified
  <2>2. effects'[s] = effects[s] \/ step'[s].status # "queued"
    BY NeverQueuedAgain DEF EffectsMove, Inv, TypeOK
  <2>3. QED
    BY <2>1, <2>2
<1>4. step'[s].status = "succeeded" /\ s \in RedLine => s \in accepted'
  <2>1. CASE SameStatus(s)
    BY <2>1, AcceptedGrows DEF SameStatus, Inv, Justified, StepsJustified
  <2>2. CASE StatusMove(s)
    BY <2>2 DEF StatusMove
  <2>3. QED
    BY <1>1, <2>1, <2>2
<1>5. QED
  BY <1>2, <1>3, <1>4, SucceededStays

\* The invariant is inductive.
LEMMA NextInv == Inv /\ [Next]_vars => Inv'
<1>1. ASSUME Inv, Next PROVE Inv'
  <2>1. StepsMove
    BY <1>1, StepsNext
  <2>2. OutboxGrows
    BY <1>1, OutboxNext
  <2>3. WorkersMove
    BY <1>1, <2>1, WorkersNext
  <2>4. EffectsMove
    BY <1>1, EffectsNext
  <2>5. accepted \subseteq accepted' /\ accepted' \subseteq Step
    BY <1>1, <2>1, AcceptedGrows
  <2>6. TypeOK'
    <3>1. step' \in [Step -> StepRow]
      BY <2>1 DEF StepsMove
    <3>2. DOMAIN outbox' \subseteq Key /\ \A k \in DOMAIN outbox' : outbox'[k] \in Row
      BY <2>2 DEF OutboxGrows, TableOK, RowOK
    <3>3. /\ worker' \in [Worker -> WorkerState]
          /\ \A w \in Worker : worker'[w].pc \notin {"idle", "dead"} =>
                                  worker'[w].event \in DOMAIN outbox'
      BY <2>2, <2>3 DEF WorkersMove, OutboxGrows
    <3>4. effects' \in [Step -> Nat]
      BY <2>4 DEF EffectsMove
    <3>5. QED
      BY <1>1, <2>5, <3>1, <3>2, <3>3, <3>4, RunAndCountersNext DEF TypeOK, Busy
  <2>7. EventsJustified'
    <3>1. ASSUME NEW k \in DOMAIN outbox'
          PROVE  /\ k.kind \in StepKinds \cup DecisionKinds => k.step \in Step
                 /\ k.kind \in StepKinds => DepsSucceeded(step, k.step)
                 /\ k.kind = "accept" => k.step \in accepted'
      <4>1. CASE k \in DOMAIN outbox
        BY <1>1, <2>5, <4>1 DEF Inv, Justified, EventsJustified
      <4>2. CASE k \notin DOMAIN outbox
        BY <2>2, <4>2 DEF OutboxGrows, KeyJustified
      <4>3. QED
        BY <4>1, <4>2
    <3>2. \A k \in DOMAIN outbox' : outbox'[k].status = "processing" => outbox'[k].attempts > 0
      BY <2>2 DEF OutboxGrows, TableOK, RowOK
    <3>3. \A k \in DOMAIN outbox' : k.kind \in StepKinds => DepsSucceeded(step', k.step)
      BY <2>1, <3>1, SucceededStays
    <3>4. QED
      BY <3>1, <3>2, <3>3 DEF EventsJustified
  <2>8. ClaimsJustified'
    BY <2>3 DEF WorkersMove, ClaimsJustified
  <2>9. StepsJustified'
    BY <1>1, <2>1, <2>4, StepJustifiedNext
  <2>10. QED
    BY <2>6, <2>7, <2>8, <2>9 DEF Inv, Justified
<1>2. ASSUME Inv, UNCHANGED vars PROVE Inv'
  BY <1>2 DEF vars, Inv, TypeOK, Busy, Justified, EventsJustified, ClaimsJustified, StepsJustified,
              DepsSucceeded, Succeeded
<1>3. QED
  BY <1>1, <1>2

\* The tables and the workers keep their types, and every event, claim and step the
\* evidence that justifies it.
THEOREM Invariance == Spec => []Inv
  BY InitInv, NextInv, PTL DEF Spec

\* The evidence the code acts on is sound: the events in the table, the claims in the
\* workers' hands and the started steps all rest on succeeded dependencies and, behind
\* the red line, on a human's acceptance.
THEOREM EvidenceSound == Spec => []Justified
<1>1. Inv => Justified
  BY DEF Inv
<1>2. QED
  BY <1>1, Invariance, PTL

\* TypeOK holds for any instance.
THEOREM TypeCorrect == Spec => []TypeOK
<1>1. Inv => TypeOK
  BY DEF Inv
<1>2. QED
  BY <1>1, Invariance, PTL

\* Whatever is leased, retried, recovered or replayed, no step is started, worked on or
\* failed before all its dependencies have succeeded.
THEOREM DependenciesFirst == Spec => []DependenciesBeforeStart
<1>1. Inv => DependenciesBeforeStart
  BY DEF Inv, Justified, StepsJustified, DependenciesBeforeStart
<1>2. QED
  BY <1>1, Invariance, PTL

\* No work is ever done behind the red line without a human acceptance.
THEOREM RedLineHolds == Spec => []HumanGate
<1>1. Inv => HumanGate
  <2> SUFFICES ASSUME Inv, NEW s \in RedLine, NEW t \in Step, s \in Dep[t], effects[t] > 0
               PROVE  s \in accepted
    BY DEF HumanGate
  <2>1. DepsSucceeded(step, t)
    BY DEF Inv, Justified, StepsJustified
  <2>2. s \in Step /\ step[s].status = "succeeded"
    BY <2>1 DEF DepsSucceeded, Succeeded
  <2>3. QED
    BY <2>2 DEF Inv, Justified, StepsJustified
<1>2. QED
  BY <1>1, Invariance, PTL

-----------------------------------------------------------------------------
(* The runtime implements WorkflowContract. *)

\* What the contract sees of the system.
Status == [s \in Step |-> step[s].status]
Worked == {s \in Step : effects[s] > 0}

\* What the contract's definitions say of the runtime's state.
LEMMA ContractDefs ==
    /\ Contract!vars = <<Status, Worked, accepted>>
    /\ \A s \in Step : Contract!Ready(s) <=> DepsSucceeded(step, s)
  BY DEF Contract!vars, Status, Worked, Contract!Ready, DepsSucceeded, Succeeded

\* The status map after one step has moved.
LEMMA StatusUpdate ==
    ASSUME NEW s \in Step, \A r \in Step \ {s} : SameStatus(r)
    PROVE  Status' = [Status EXCEPT ![s] = step'[s].status]
  BY DEF Status, SameStatus

\* The initial states of the runtime are those of the contract.
LEMMA ContractInit == Init => Contract!Init
  BY DEF Init, Contract!Init, NewStep

\* A step of the runtime is one of the contract or leaves its state alone.
LEMMA ContractNext ==
    ASSUME Inv, Next
    PROVE  Contract!Next \/ UNCHANGED Contract!vars
<1>1. StepsMove /\ EffectsMove
  BY StepsNext, EffectsNext
<1>2. CASE effects' = effects
  <2>1. Worked' = Worked
    BY <1>2 DEF Worked
  <2>2. CASE (\A r \in Step : SameStatus(r)) /\ accepted' = accepted
    <3>1. Status' = Status
      BY <2>2 DEF Status, SameStatus
    <3>2. UNCHANGED <<Status, Worked, accepted>>
      BY <2>1, <2>2, <3>1
    <3>3. QED
      BY <3>2 DEF Contract!vars, Status, Worked
  <2>3. ASSUME NEW s \in Step, StatusMove(s), \A r \in Step \ {s} : SameStatus(r)
        PROVE  Contract!Next
    <3>1. Status[s] = step[s].status
      BY DEF Status
    <3>2. Status' = [Status EXCEPT ![s] = step'[s].status]
      BY <2>3, StatusUpdate
    <3>3. \A to : step'[s].status = to => Contract!Move(s, to)
      BY <3>2 DEF Contract!Move, Status
    <3>4. Contract!Ready(s) <=> DepsSucceeded(step, s)
      BY ContractDefs
    <3>5. CASE /\ step[s].status = "queued" /\ DepsSucceeded(step, s)
               /\ step'[s].status \in {"running", "failed"} /\ accepted' = accepted
      <4>1. Contract!Start(s) \/ Contract!GiveUp(s)
        BY <2>1, <3>1, <3>3, <3>4, <3>5 DEF Contract!Start, Contract!GiveUp, Status, Worked
      <4>2. QED
        BY <4>1 DEF Contract!Next
    <3>6. CASE /\ step[s].status = "running" /\ accepted' = accepted
               /\ step'[s].status \in
                    {"failed", IF s \in RedLine THEN "waiting_human" ELSE "succeeded"}
      <4>1. Contract!Finish(s)
        BY <2>1, <3>1, <3>3, <3>6 DEF Contract!Finish, Status, Worked
      <4>2. QED
        BY <4>1 DEF Contract!Next
    <3>7. CASE /\ step[s].status = "waiting_human" /\ step'[s].status = "succeeded"
               /\ accepted' = accepted \cup {s}
      <4>1. Contract!Accept(s)
        BY <2>1, <3>1, <3>3, <3>7 DEF Contract!Accept, Status, Worked
      <4>2. QED
        BY <4>1 DEF Contract!Next
    <3>8. CASE /\ step[s].status = "waiting_human" /\ step'[s].status = "failed"
               /\ accepted' = accepted
      <4>1. Contract!Reject(s)
        BY <2>1, <3>1, <3>3, <3>8 DEF Contract!Reject, Status, Worked
      <4>2. QED
        BY <4>1 DEF Contract!Next
    <3>9. QED
      BY <2>3, <3>5, <3>6, <3>7, <3>8 DEF StatusMove
  <2>4. QED
    BY <1>1, <2>2, <2>3 DEF StepsMove
<1>3. CASE effects' # effects
  <2>1. PICK s \in Step : /\ step[s].status # "queued"
                         /\ effects' = [effects EXCEPT ![s] = effects[s] + 1]
                         /\ UNCHANGED <<step, accepted>>
    BY <1>1, <1>3 DEF EffectsMove
  <2>2. Worked' = Worked \cup {s}
    BY <2>1 DEF Worked, Inv, TypeOK
  <2>3. Status' = Status /\ Status[s] = step[s].status
    BY <2>1 DEF Status
  <2>4. Contract!DoWork(s)
    BY <2>1, <2>2, <2>3 DEF Contract!DoWork, Status, Worked
  <2>5. QED
    BY <2>4 DEF Contract!Next
<1>4. QED
  BY <1>2, <1>3

\* Every behaviour of the leases, events and workers is a behaviour of the contract.
THEOREM Refinement == Spec => KeepsContract
<1>1. Inv /\ [Next]_vars => [Contract!Next]_(Contract!vars)
  <2>1. ASSUME Inv, Next PROVE [Contract!Next]_(Contract!vars)
    BY <2>1, ContractNext
  <2>2. ASSUME UNCHANGED vars PROVE UNCHANGED Contract!vars
    BY <2>2 DEF vars, Contract!vars
  <2>3. QED
    BY <2>1, <2>2
<1>2. QED
  BY <1>1, ContractInit, Invariance, PTL DEF Spec, KeepsContract, Contract!Spec

-----------------------------------------------------------------------------
(* What finished stays finished. *)

\* The two halves of FinishedStepsStay, as a relation of two states.
WaitingLeft(s) ==
    \/ step'[s].status = "succeeded" /\ s \in accepted'
    \/ /\ step'[s].status = "failed"
       /\ DecisionKey("reject", s, step[s].version) \in DOMAIN outbox

FinishedStay(s) ==
    /\ step[s].status \in {"succeeded", "failed"} => step'[s] = step[s]
    /\ step[s].status = "waiting_human" /\ step'[s] # step[s] => WaitingLeft(s)

\* A write to one row that is not finished leaves the finished ones alone.
LEMMA OneRowStays ==
    ASSUME TypeOK, NEW r \in Step, NEW row, step' = [step EXCEPT ![r] = row],
           \/ step[r].status \in {"queued", "running"}
           \/ step[r].status = "waiting_human" /\ WaitingLeft(r)
    PROVE  \A s \in Step : FinishedStay(s)
<1>1. \A s \in Step \ {r} : step'[s] = step[s]
  BY DEF TypeOK
<1>2. FinishedStay(r)
  BY DEF FinishedStay
<1>3. QED
  BY <1>1, <1>2 DEF FinishedStay

\* Every step of the system leaves the finished rows alone.
LEMMA FinishedNext ==
    ASSUME Inv, Next
    PROVE  \A s \in Step : FinishedStay(s)
<1> DEFINE Goal == \A s \in Step : FinishedStay(s)
<1>0. ASSUME UNCHANGED step PROVE Goal
  BY <1>0 DEF FinishedStay
<1>1. ASSUME NEW w \in Worker, HandleDecision(w) PROVE Goal
  <2> DEFINE k == worker[w].event
  <2>1. /\ k \in DOMAIN outbox /\ k \in Key /\ k.kind \in {"accept", "reject"} /\ k.step \in Step
        /\ k.kind = "accept" => k.step \in accepted
    BY <1>1, EventInHand, StepInHand DEF HandleDecision, DecisionKinds
  <2>2. step' = DecidedStep(k.kind, k.step, k.n) /\ accepted' = accepted
    BY <1>1 DEF HandleDecision
  <2>3. CASE Decidable(k.step, k.n)
    <3>1. step' = [step EXCEPT ![k.step] = Decided(step[k.step], k.kind)]
      BY <2>2, <2>3 DEF DecidedStep
    <3>2. step'[k.step].status = DecisionTarget(k.kind)
      <4>1. step[k.step] \in StepRow /\ step'[k.step] = Decided(step[k.step], k.kind)
        BY <2>1, <3>1 DEF Inv, TypeOK
      <4>2. Decided(step[k.step], k.kind).status = DecisionTarget(k.kind)
        BY <2>1, <4>1, StepRowUpdates DEF Kind, DecisionKinds
      <4>3. QED
        BY <4>1, <4>2
    <3>3. k.kind = "reject" => k = DecisionKey("reject", k.step, step[k.step].version)
      BY <2>1, <2>3 DEF Decidable, DecisionKey, Key
    <3>4. step[k.step].status = "waiting_human" /\ WaitingLeft(k.step)
      <4> HIDE DEF k
      <4>1. CASE k.kind = "accept"
        BY <2>1, <2>2, <2>3, <3>2, <4>1 DEF Decidable, DecisionTarget, WaitingLeft
      <4>2. CASE k.kind = "reject"
        BY <2>1, <2>3, <3>2, <3>3, <4>2 DEF Decidable, DecisionTarget, WaitingLeft
      <4>3. QED
        BY <2>1, <4>1, <4>2
    <3>5. QED
      <4> HIDE DEF k
      <4>1. QED
        BY <2>1, <3>1, <3>4, OneRowStays DEF Inv
  <2>4. CASE ~Decidable(k.step, k.n)
    BY <1>0, <2>2, <2>4 DEF DecidedStep
  <2>5. QED
    BY <2>3, <2>4
<1>2. ASSUME NEW w \in Worker, ClaimStep(w) PROVE Goal
  <2> DEFINE r == worker[w].event.step
  <2>1. r \in Step
    BY <1>2, StepInHand DEF ClaimStep
  <2>2. CASE ClaimableStep(step[r])
    <3>1. step' = [step EXCEPT ![r] = Claimed(step[r], w)]
      BY <1>2, <2>2 DEF ClaimStep
    <3>2. step[r].status \in {"queued", "running"}
      BY <2>2 DEF ClaimableStep, ExpiredStep
    <3>3. QED
      BY <2>1, <3>1, <3>2, OneRowStays DEF Inv
  <2>3. CASE ~ClaimableStep(step[r])
    BY <1>0, <1>2, <2>3 DEF ClaimStep
  <2>4. QED
    BY <2>2, <2>3
<1>3. ASSUME NEW w \in Worker, Finalize(w) PROVE Goal
  <2> DEFINE r == worker[w].event.step
  <2>1. r \in Step
    BY <1>3, StepInHand DEF Finalize, Inv, Justified, ClaimsJustified
  <2>2. CASE ClaimCurrent(w)
    <3>1. step' = [step EXCEPT ![r] = Finished(step[r], CompletionTarget(r, worker[w].outcome))]
      BY <1>3, <2>2 DEF Finalize
    <3>2. step[r].status \in {"queued", "running"}
      BY <2>2 DEF ClaimCurrent
    <3>3. QED
      BY <2>1, <3>1, <3>2, OneRowStays DEF Inv
  <2>3. CASE ~ClaimCurrent(w)
    BY <1>0, <1>3, <2>3 DEF Finalize
  <2>4. QED
    BY <2>2, <2>3
<1>4. ASSUME NEW w \in Worker, FailEvent(w) PROVE Goal
  <2> DEFINE k == worker[w].event
  <2>1. CASE StepToFail(k) /\ FailFromOutbox(k)
    <3>1. k.step \in Step
      BY <1>4, <2>1, StepInHand DEF FailEvent, StepToFail
    <3>2. step' = [step EXCEPT ![k.step] = Finished(step[k.step], "failed")]
      BY <2>1 DEF FailFromOutbox
    <3>3. step[k.step].status \in {"queued", "running"}
      BY <2>1, <3>1 DEF StepToFail, TerminalStatuses, Inv, TypeOK, StepRow, StepStatus
    <3>4. QED
      BY <3>1, <3>2, <3>3, OneRowStays DEF Inv
  <2>2. CASE UNCHANGED step
    BY <1>0, <2>2
  <2>3. QED
    BY <1>4, <2>1, <2>2 DEF FailEvent, FailFromOutbox
<1>5. ASSUME NEW s \in Step, ExpireStep(s) PROVE Goal
  <2>1. step' = [step EXCEPT ![s] = [step[s] EXCEPT !.lease = "expired"]]
    BY <1>5 DEF ExpireStep
  <2>2. step[s].status = "running"
    BY <1>5 DEF ExpireStep
  <2>3. QED
    BY <2>1, <2>2, OneRowStays DEF Inv
<1>6. ASSUME NEW s \in Step, HumanAccept(s) PROVE Goal
  <2>1. step[s].status = "waiting_human" /\ Decidable(s, step[s].version)
    BY <1>6 DEF HumanAccept, Decidable
  <2>2. step' = [step EXCEPT ![s] = Decided(step[s], "accept")] /\ s \in accepted'
    BY <1>6, <2>1 DEF HumanAccept, DecidedStep
  <2>3. step'[s].status = "succeeded"
    <3>1. step[s] \in StepRow /\ step'[s] = Decided(step[s], "accept")
      BY <2>2 DEF Inv, TypeOK
    <3>2. Decided(step[s], "accept").status = "succeeded"
      BY <3>1, StepRowUpdates DEF Kind, DecisionKinds, DecisionTarget
    <3>3. QED
      BY <3>1, <3>2
  <2>4. QED
    BY <2>1, <2>2, <2>3, OneRowStays DEF WaitingLeft, Inv
<1>7. QED
  BY <1>0, <1>1, <1>2, <1>3, <1>4, <1>5, <1>6
  DEF Next, Work, HandleAdvance, Prepare, Execute, Settle, Raise, Abandon, Crash, RenewEvent,
      ClaimEvent, EventLeaseRunsOut, EventLeaseLapses, ExpireEvent, ReplayEvent,
      StepLeaseRunsOut, StepLeaseLapses, HumanReject, Recover

\* No retry, recovery, replay or late worker changes a finished step, and only a human
\* decision ends the wait of a red-line step.
THEOREM FinishedIsFinal == Spec => FinishedStepsStay
<1>1. Inv /\ [Next]_vars =>
        [\A s \in Step :
           /\ step[s].status \in {"succeeded", "failed"} => step'[s] = step[s]
           /\ step[s].status = "waiting_human" /\ step'[s] # step[s] =>
                \/ step'[s].status = "succeeded" /\ s \in accepted'
                \/ /\ step'[s].status = "failed"
                   /\ DecisionKey("reject", s, step[s].version) \in DOMAIN outbox]_vars
  BY FinishedNext DEF FinishedStay, WaitingLeft
<1>2. QED
  BY <1>1, Invariance, PTL DEF Spec, FinishedStepsStay

-----------------------------------------------------------------------------
(* Only the latest attempt completes a step. *)

\* The result a worker is about to record is one the work ended with.
OutcomeKnown == \A w \in Worker :
    worker[w].pc = "worked" => worker[w].outcome \in {"succeeded", "failed"}

\* A worker that has worked knows the outcome.
LEMMA OutcomeKnownNext ==
    ASSUME Inv, OutcomeKnown, Next
    PROVE  OutcomeKnown'
<1>1. ASSUME UNCHANGED worker PROVE OutcomeKnown'
  BY <1>1 DEF OutcomeKnown
<1>2. ASSUME NEW w \in Worker, NEW state, worker' = [worker EXCEPT ![w] = state],
             state.pc = "worked" => state.outcome \in {"succeeded", "failed"}
      PROVE  OutcomeKnown'
  BY <1>2 DEF OutcomeKnown, Inv, TypeOK
<1>3. Idle.pc # "worked" /\ Dead.pc # "worked"
  BY StateUpdates
<1>4. ASSUME NEW w \in Worker, NEW pc, NEW outcome,
             worker' = [worker EXCEPT ![w] = Moved(worker[w], pc, outcome)],
             pc = "worked" => outcome \in {"succeeded", "failed"}
      PROVE  OutcomeKnown'
  <2>1. worker[w] \in WorkerState
    BY DEF Inv, TypeOK
  <2>2. /\ Moved(worker[w], pc, outcome).pc = pc
        /\ Moved(worker[w], pc, outcome).outcome = outcome
    BY <2>1 DEF Moved, WorkerState
  <2>3. QED
    BY <1>2, <1>4, <2>2
<1>5. ASSUME NEW w \in Worker, ClaimStep(w) PROVE OutcomeKnown'
  <2> DEFINE s == worker[w].event.step
             k == worker[w].event
  <2>1. CASE ClaimableStep(step[s])
    <3>1. worker' = [worker EXCEPT ![w] = Holding(k, Claimed(step[s], w))]
      BY <1>5, <2>1 DEF ClaimStep
    <3>2. Holding(k, Claimed(step[s], w)).pc = "claimed"
      BY DEF Holding
    <3>3. QED
      BY <1>2, <3>1, <3>2
  <2>2. CASE ~ClaimableStep(step[s])
    <3>1. worker' = [worker EXCEPT ![w] = Moved(worker[w], "settling", Disposition(step[s]))]
      BY <1>5, <2>2 DEF ClaimStep
    <3>2. QED
      BY <1>4, <3>1
  <2>3. QED
    BY <2>1, <2>2
<1>6. ASSUME NEW w \in Worker, Prepare(w) PROVE OutcomeKnown'
  <2>1. \/ worker' = [worker EXCEPT ![w] = Moved(worker[w], "prepared", "none")]
        \/ worker' = [worker EXCEPT ![w] = Moved(worker[w], "raised", "none")]
    BY <1>6 DEF Prepare
  <2>2. QED
    BY <1>4, <2>1
<1>7. ASSUME NEW w \in Worker, Execute(w) PROVE OutcomeKnown'
  BY <1>4, <1>7 DEF Execute
<1>8. ASSUME NEW w \in Worker, Finalize(w) PROVE OutcomeKnown'
  <2>1. \/ worker' = [worker EXCEPT ![w] = Moved(worker[w], "settling", "complete")]
        \/ worker' = [worker EXCEPT ![w] = Moved(worker[w], "raised", "none")]
    BY <1>8 DEF Finalize
  <2>2. QED
    BY <1>4, <2>1
<1>9. ASSUME NEW w \in Worker, Raise(w) PROVE OutcomeKnown'
  BY <1>4, <1>9 DEF Raise
<1>10. ASSUME NEW w \in Worker, NEW k \in DOMAIN outbox, ClaimEvent(w, k) PROVE OutcomeKnown'
  <2>1. Handling(k).pc = "handling"
    BY StateUpdates DEF Inv, TypeOK
  <2>2. QED
    BY <1>2, <1>10, <2>1 DEF ClaimEvent
<1>11. ASSUME NEW w \in Worker,
              HandleAdvance(w) \/ HandleDecision(w) \/ Settle(w) \/ FailEvent(w)
              \/ Abandon(w) \/ Crash(w)
       PROVE  OutcomeKnown'
  BY <1>2, <1>3, <1>11 DEF HandleAdvance, HandleDecision, Settle, FailEvent, Abandon, Crash
<1>12. QED
  BY <1>1, <1>5, <1>6, <1>7, <1>8, <1>9, <1>10, <1>11
  DEF Next, Work, RenewEvent, EventLeaseRunsOut, EventLeaseLapses, ExpireEvent, ReplayEvent,
      StepLeaseRunsOut, StepLeaseLapses, ExpireStep, HumanAccept, HumanReject, Recover

\* Completed by the latest attempt, when it was completed.
CompletedByLatest(s) ==
    step[s].status = "running" /\ step'[s].status \in {"succeeded", "waiting_human"}
      => \E w \in Worker : /\ worker[w].pc = "worked"
                           /\ worker[w].event.step = s
                           /\ worker[w].attempt = step[s].attempt
                           /\ worker[w].outcome = "succeeded"

\* A finished row has the status it was finished with.
LEMMA FinishedStatus ==
    ASSUME NEW row \in StepRow, NEW status
    PROVE  Finished(row, status).status = status
  BY DEF Finished, StepRow

\* Every step of the system completes a step only for its latest claim.
LEMMA FencedNext ==
    ASSUME Inv, OutcomeKnown, Next
    PROVE  \A s \in Step : CompletedByLatest(s)
<1> DEFINE Goal == \A s \in Step : CompletedByLatest(s)
<1>0. ASSUME UNCHANGED step PROVE Goal
  BY <1>0 DEF CompletedByLatest
<1>1. ASSUME NEW r \in Step, NEW row, step' = [step EXCEPT ![r] = row], CompletedByLatest(r)
      PROVE  Goal
  BY <1>1 DEF CompletedByLatest, Inv, TypeOK
<1>2. ASSUME NEW w \in Worker, HandleDecision(w) PROVE Goal
  <2> DEFINE k == worker[w].event
  <2>1. k.step \in Step
    BY <1>2, StepInHand DEF HandleDecision
  <2>2. step' = DecidedStep(k.kind, k.step, k.n)
    BY <1>2 DEF HandleDecision
  <2>3. CASE Decidable(k.step, k.n)
    <3>1. step' = [step EXCEPT ![k.step] = Decided(step[k.step], k.kind)]
      BY <2>2, <2>3 DEF DecidedStep
    <3>2. CompletedByLatest(k.step)
      BY <2>3 DEF Decidable, CompletedByLatest
    <3>3. QED
      BY <1>1, <2>1, <3>1, <3>2
  <2>4. CASE ~Decidable(k.step, k.n)
    BY <1>0, <2>2, <2>4 DEF DecidedStep
  <2>5. QED
    BY <2>3, <2>4
<1>3. ASSUME NEW w \in Worker, ClaimStep(w) PROVE Goal
  <2> DEFINE r == worker[w].event.step
  <2>1. r \in Step
    BY <1>3, StepInHand DEF ClaimStep
  <2>2. CASE ClaimableStep(step[r])
    <3>1. step' = [step EXCEPT ![r] = Claimed(step[r], w)]
      BY <1>3, <2>2 DEF ClaimStep
    <3>2. step'[r].status = "running"
      BY <2>1, <3>1 DEF Claimed, Inv, TypeOK
    <3>3. QED
      BY <1>1, <2>1, <3>1, <3>2 DEF CompletedByLatest
  <2>3. CASE ~ClaimableStep(step[r])
    BY <1>0, <1>3, <2>3 DEF ClaimStep
  <2>4. QED
    BY <2>2, <2>3
<1>4. ASSUME NEW w \in Worker, Finalize(w) PROVE Goal
  <2> DEFINE r == worker[w].event.step
             target == CompletionTarget(r, worker[w].outcome)
  <2>1. r \in Step /\ worker[w].pc = "worked"
    BY <1>4, StepInHand DEF Finalize, Inv, Justified, ClaimsJustified
  <2>2. CASE ClaimCurrent(w)
    <3>1. step' = [step EXCEPT ![r] = Finished(step[r], target)]
      BY <1>4, <2>2 DEF Finalize
    <3>2. step'[r].status = target
      <4>1. step[r] \in StepRow /\ step'[r] = Finished(step[r], target)
        BY <2>1, <3>1 DEF Inv, TypeOK
      <4>2. Finished(step[r], target).status = target
        BY <4>1, FinishedStatus
      <4>3. QED
        BY <4>1, <4>2
    <3>3. worker[w].attempt = step[r].attempt
      BY <2>2 DEF ClaimCurrent
    <3>4. target # "failed" => worker[w].outcome = "succeeded"
      BY <2>1 DEF CompletionTarget, OutcomeKnown
    <3>5. CompletedByLatest(r)
      <4> HIDE DEF target
      <4>1. QED
        BY <2>1, <3>2, <3>3, <3>4 DEF CompletedByLatest
    <3>6. QED
      BY <1>1, <2>1, <3>1, <3>5
  <2>3. CASE ~ClaimCurrent(w)
    BY <1>0, <1>4, <2>3 DEF Finalize
  <2>4. QED
    BY <2>2, <2>3
<1>5. ASSUME NEW w \in Worker, FailEvent(w) PROVE Goal
  <2> DEFINE k == worker[w].event
  <2>1. CASE StepToFail(k) /\ FailFromOutbox(k)
    <3>1. k.step \in Step
      BY <1>5, <2>1, StepInHand DEF FailEvent, StepToFail
    <3>2. step' = [step EXCEPT ![k.step] = Finished(step[k.step], "failed")]
      BY <2>1 DEF FailFromOutbox
    <3>3. step'[k.step].status = "failed"
      <4>1. step[k.step] \in StepRow /\ step'[k.step] = Finished(step[k.step], "failed")
        BY <3>1, <3>2 DEF Inv, TypeOK
      <4>2. Finished(step[k.step], "failed").status = "failed"
        BY <4>1, FinishedStatus
      <4>3. QED
        BY <4>1, <4>2
    <3>4. QED
      BY <1>1, <3>1, <3>2, <3>3 DEF CompletedByLatest
  <2>2. CASE UNCHANGED step
    BY <1>0, <2>2
  <2>3. QED
    BY <1>5, <2>1, <2>2 DEF FailEvent, FailFromOutbox
<1>6. ASSUME NEW s \in Step, ExpireStep(s) PROVE Goal
  <2>1. step' = [step EXCEPT ![s] = [step[s] EXCEPT !.lease = "expired"]]
    BY <1>6 DEF ExpireStep
  <2>2. step'[s].status = "running"
    BY <1>6, <2>1 DEF ExpireStep, Inv, TypeOK, StepRow
  <2>3. QED
    BY <1>1, <2>1, <2>2 DEF CompletedByLatest
<1>7. ASSUME NEW s \in Step, HumanAccept(s) PROVE Goal
  <2>1. step[s].status = "waiting_human" /\ Decidable(s, step[s].version)
    BY <1>7 DEF HumanAccept, Decidable
  <2>2. step' = [step EXCEPT ![s] = Decided(step[s], "accept")]
    BY <1>7, <2>1 DEF HumanAccept, DecidedStep
  <2>3. QED
    BY <1>1, <2>1, <2>2 DEF CompletedByLatest
<1>8. QED
  BY <1>0, <1>2, <1>3, <1>4, <1>5, <1>6, <1>7
  DEF Next, Work, HandleAdvance, Prepare, Execute, Settle, Raise, Abandon, Crash, RenewEvent,
      ClaimEvent, EventLeaseRunsOut, EventLeaseLapses, ExpireEvent, ReplayEvent,
      StepLeaseRunsOut, StepLeaseLapses, HumanReject, Recover

\* The fence holds: a running step is completed only by the worker whose attempt is the
\* latest, and only with the success its own work ended with.
THEOREM OnlyLatestCompletes == Spec => FencedCompletion
<1>1. Init => OutcomeKnown
  BY StateUpdates DEF Init, OutcomeKnown
<1>2. Inv /\ OutcomeKnown /\ [Next]_vars => OutcomeKnown'
  <2>1. ASSUME OutcomeKnown, UNCHANGED vars PROVE OutcomeKnown'
    BY <2>1 DEF OutcomeKnown, vars
  <2>2. QED
    BY <2>1, OutcomeKnownNext
<1>3. Inv /\ OutcomeKnown /\ [Next]_vars =>
        [\A s \in Step :
           step[s].status = "running" /\ step'[s].status \in {"succeeded", "waiting_human"}
             => \E w \in Worker : /\ worker[w].pc = "worked"
                                  /\ worker[w].event.step = s
                                  /\ worker[w].attempt = step[s].attempt
                                  /\ worker[w].outcome = "succeeded"]_vars
  BY FencedNext DEF CompletedByLatest
<1>4. QED
  BY <1>1, <1>2, <1>3, Invariance, PTL DEF Spec, FencedCompletion

-----------------------------------------------------------------------------
(* The outbox loses no event and settles none behind the back of its owner. *)

\* What a step may do to the row of event k.
RowHonoured(k, before, after) ==
    /\ before.status = "done" => after = before
    /\ before.status = "failed" => after \in {before, NewRow}
    /\ before.status # "failed" /\ after.status = "failed" => before.attempts >= MaxAttempts
    /\ before.status = "processing" /\ after.status = "processing"
          /\ after.owner # before.owner => before.lease = "expired"
    /\ before.status = "processing" /\ after.status # "processing" =>
          Busy(before.owner) /\ worker[before.owner].event = k

TableHonoured ==
    \A k \in DOMAIN outbox : k \in DOMAIN outbox' /\ RowHonoured(k, outbox[k], outbox'[k])

\* An event left alone, enqueued or not, is honoured.
LEMMA EnqueueHonours ==
    ASSUME NEW keys, outbox' = EnqueueAll(outbox, keys)
    PROVE  TableHonoured
  BY DEF TableHonoured, RowHonoured, EnqueueAll

\* Honouring the one event whose row is updated honours them all.
LEMMA UpdateHonours ==
    ASSUME Inv, NEW k \in DOMAIN outbox, NEW row, NEW keys,
           outbox' = [EnqueueAll(outbox, keys) EXCEPT ![k] = row],
           RowHonoured(k, outbox[k], row)
    PROVE  TableHonoured
<1>1. DOMAIN outbox' = DOMAIN outbox \cup keys
  BY DEF EnqueueAll
<1>2. outbox'[k] = row
  BY <1>1 DEF EnqueueAll
<1>3. \A j \in DOMAIN outbox \ {k} : outbox'[j] = outbox[j]
  BY <1>1 DEF EnqueueAll
<1>4. ASSUME NEW j \in DOMAIN outbox \ {k} PROVE RowHonoured(j, outbox[j], outbox'[j])
  BY <1>3 DEF RowHonoured
<1>5. QED
  BY <1>1, <1>2, <1>4 DEF TableHonoured

\* A write to one row of the outbox that honours the protocol honours it in the table.
LEMMA OneRowHonours ==
    ASSUME Inv, NEW k \in DOMAIN outbox, NEW row,
           outbox' = [outbox EXCEPT ![k] = row],
           RowHonoured(k, outbox[k], row)
    PROVE  TableHonoured
<1>1. outbox'[k] = row /\ DOMAIN outbox' = DOMAIN outbox
  OBVIOUS
<1>2. \A j \in DOMAIN outbox \ {k} : outbox'[j] = outbox[j]
  OBVIOUS
<1>3. ASSUME NEW j \in DOMAIN outbox \ {k} PROVE RowHonoured(j, outbox[j], outbox'[j])
  BY <1>2 DEF RowHonoured
<1>4. QED
  BY <1>1, <1>3 DEF TableHonoured

\* The guarded UPDATEs honour the event a worker has in hand, owned or lost.
LEMMA OwnerHonours ==
    ASSUME Inv, NEW w \in Worker, Busy(w)
    PROVE  LET k == worker[w].event
               row == outbox[k]
           IN  /\ RowHonoured(k, row, CompleteRow(row, w))
               /\ RowHonoured(k, row, DeferRow(row, w))
               /\ RowHonoured(k, row, FailRow(row, w))
               /\ RowHonoured(k, row, RenewRow(row, w))
<1> DEFINE k == worker[w].event
           row == outbox[k]
<1>1. row \in Row
  BY EventInHand DEF Busy, RowOK
<1>2. ASSUME ~Holds(row, w)
      PROVE  /\ CompleteRow(row, w) = row /\ DeferRow(row, w) = row
             /\ FailRow(row, w) = row /\ RenewRow(row, w) = row
  BY <1>2 DEF CompleteRow, DeferRow, FailRow, RenewRow
<1>3. RowHonoured(k, row, row)
  BY DEF RowHonoured
<1>4. CASE Holds(row, w)
  <2>1. row.status = "processing" /\ row.owner = w /\ worker[row.owner].event = k
    BY <1>4 DEF Holds
  <2>2. /\ CompleteRow(row, w).status = "done"
        /\ DeferRow(row, w).status = "pending"
        /\ FailRow(row, w).status \in {"failed", "pending"}
        /\ FailRow(row, w).status = "failed" => row.attempts >= MaxAttempts
        /\ RenewRow(row, w).status = "processing" /\ RenewRow(row, w).owner = w
    BY <1>1, <1>4, <2>1
    DEF CompleteRow, DeferRow, FailRow, RenewRow, Released, Exhausted, Row
  <2>3. QED
    <3> HIDE DEF k, row
    <3>1. QED
      BY <2>1, <2>2 DEF RowHonoured, k, row
<1>5. QED
  BY <1>2, <1>3, <1>4

\* The one-transaction handlers: enqueue and complete.
LEMMA HandlerHonours ==
    ASSUME Inv, NEW w \in Worker, Busy(w), NEW keys,
           outbox' = [EnqueueAll(outbox, keys) EXCEPT ![worker[w].event] = CompleteRow(@, w)]
    PROVE  TableHonoured
<1> DEFINE k == worker[w].event
<1>1. k \in DOMAIN outbox
  BY EventInHand DEF Busy
<1>2. EnqueueAll(outbox, keys)[k] = outbox[k]
  BY <1>1 DEF EnqueueAll
<1>3. outbox' = [EnqueueAll(outbox, keys) EXCEPT ![k] = CompleteRow(outbox[k], w)]
  BY <1>2
<1>4. RowHonoured(k, outbox[k], CompleteRow(outbox[k], w))
  BY OwnerHonours
<1>5. QED
  <2> HIDE DEF k
  <2>1. QED
    BY <1>1, <1>3, <1>4, UpdateHonours

\* Every step of the system honours the protocol of the outbox.
LEMMA HonouredNext ==
    ASSUME Inv, Next
    PROVE  TableHonoured
<1>0. ASSUME UNCHANGED outbox PROVE TableHonoured
  BY <1>0 DEF TableHonoured, RowHonoured
<1>1. ASSUME NEW w \in Worker, Busy(w)
      PROVE  worker[w].event \in DOMAIN outbox
  BY <1>1, EventInHand DEF Busy
<1>2. ASSUME NEW w \in Worker, HandleAdvance(w) PROVE TableHonoured
  <2>1. Busy(w)
    BY <1>2 DEF HandleAdvance, Busy
  <2>2. QED
    BY <1>2, <2>1, HandlerHonours DEF HandleAdvance
<1>3. ASSUME NEW w \in Worker, HandleDecision(w) PROVE TableHonoured
  <2>1. Busy(w)
    BY <1>3 DEF HandleDecision, Busy
  <2>2. QED
    BY <1>3, <2>1, HandlerHonours DEF HandleDecision
<1>4. ASSUME NEW w \in Worker, Settle(w) PROVE TableHonoured
  <2>1. Busy(w)
    BY <1>4 DEF Settle, Busy
  <2>2. QED
    BY <1>1, <1>4, <2>1, OwnerHonours, OneRowHonours DEF Settle
<1>5. ASSUME NEW w \in Worker, FailEvent(w) PROVE TableHonoured
  <2>1. Busy(w)
    BY <1>5 DEF FailEvent, Busy
  <2>2. QED
    BY <1>1, <1>5, <2>1, OwnerHonours, OneRowHonours DEF FailEvent
<1>6. ASSUME NEW w \in Worker, RenewEvent(w) PROVE TableHonoured
  <2>1. Busy(w)
    BY <1>6 DEF RenewEvent
  <2>2. QED
    BY <1>1, <1>6, <2>1, OwnerHonours, OneRowHonours DEF RenewEvent
<1>7. ASSUME NEW w \in Worker, NEW k \in DOMAIN outbox, ClaimEvent(w, k) PROVE TableHonoured
  <2>1. RowHonoured(k, outbox[k], ClaimRow(outbox[k], w))
    BY <1>7 DEF ClaimEvent, Claimable, ClaimRow, RowHonoured
  <2>2. QED
    BY <1>7, <2>1, OneRowHonours DEF ClaimEvent
<1>8. ASSUME NEW k \in DOMAIN outbox, ExpireEvent(k) PROVE TableHonoured
  <2>1. outbox[k] \in Row
    BY DEF Inv, TypeOK
  <2>2. RowHonoured(k, outbox[k], [outbox[k] EXCEPT !.lease = "expired"])
    BY <1>8, <2>1 DEF ExpireEvent, RowHonoured, Row
  <2>3. outbox' = [outbox EXCEPT ![k] = [outbox[k] EXCEPT !.lease = "expired"]]
    BY <1>8 DEF ExpireEvent
  <2>4. QED
    BY <2>2, <2>3, OneRowHonours
<1>9. ASSUME NEW k \in DOMAIN outbox, ReplayEvent(k) PROVE TableHonoured
  <2>1. RowHonoured(k, outbox[k], ReplayRow(outbox[k]))
    BY <1>9 DEF ReplayEvent, Replayable, ReplayRow, NewRow, RowHonoured
  <2>2. QED
    BY <1>9, <2>1, OneRowHonours DEF ReplayEvent
<1>10. ASSUME NEW w \in Worker, Finalize(w) PROVE TableHonoured
  BY <1>0, <1>10, EnqueueHonours DEF Finalize
<1>11. ASSUME NEW s \in Step, HumanAccept(s) \/ HumanReject(s) PROVE TableHonoured
  BY <1>11, EnqueueHonours DEF HumanAccept, HumanReject
<1>12. ASSUME Recover PROVE TableHonoured
  BY <1>12, EnqueueHonours DEF Recover
<1>13. QED
  BY <1>0, <1>2, <1>3, <1>4, <1>5, <1>6, <1>7, <1>8, <1>9, <1>10, <1>11, <1>12
  DEF Next, Work, ClaimStep, Prepare, Execute, Raise, Abandon, Crash,
      EventLeaseRunsOut, EventLeaseLapses, StepLeaseRunsOut, StepLeaseLapses, ExpireStep

\* No event is lost, revived or settled behind its owner's back, whatever fails, expires,
\* is deferred, renewed or replayed.
THEOREM NoEventLost == Spec => EventsHonoured
<1>1. Inv /\ [Next]_vars =>
        [\A k \in DOMAIN outbox :
           LET before == outbox[k]
               after  == outbox'[k]
           IN  /\ k \in DOMAIN outbox'
               /\ before.status = "done" => after = before
               /\ before.status = "failed" => after \in {before, NewRow}
               /\ before.status # "failed" /\ after.status = "failed" =>
                     before.attempts >= MaxAttempts
               /\ before.status = "processing" /\ after.status = "processing"
                     /\ after.owner # before.owner => before.lease = "expired"
               /\ before.status = "processing" /\ after.status # "processing" =>
                     Busy(before.owner) /\ worker[before.owner].event = k]_vars
  BY HonouredNext DEF TableHonoured, RowHonoured
<1>2. QED
  BY <1>1, Invariance, PTL DEF Spec, EventsHonoured

-----------------------------------------------------------------------------
(* The status of the run says what its steps say. *)

\* RunReflectsSteps of any statuses st and any run status r.
Reflects(st, r) ==
    r # "failed" =>
      /\ \A s \in Step : st[s].status # "failed"
      /\ (r = "succeeded") <=> (\A s \in Step : st[s].status = "succeeded")
      /\ (r = "waiting_human") <=> (\E s \in Step : st[s].status = "waiting_human")
      /\ (r = "queued") <=> (\A s \in Step : st[s].status = "queued")

\* RunReflectsSteps, of any steps and any run status.
LEMMA ReflectsDefs == Reflects(step, run) <=> RunReflectsSteps
  BY DEF Reflects, RunReflectsSteps

\* What derive_run_status computes says what the steps say.
LEMMA DerivedReflects ==
    ASSUME NEW st, \A s \in Step : st[s].status \in StepStatus
    PROVE  Reflects(st, DeriveRunStatus(st))
<1> DEFINE statuses == {st[s].status : s \in Step}
<1>1. PICK t \in Step : TRUE
  BY StepAssumption
<1>2. st[t].status \in statuses
  OBVIOUS
<1>3. (statuses = {"succeeded"}) <=> \A s \in Step : st[s].status = "succeeded"
  BY <1>1
<1>4. /\ ("failed" \in statuses) <=> \E s \in Step : st[s].status = "failed"
      /\ ("waiting_human" \in statuses) <=> \E s \in Step : st[s].status = "waiting_human"
      /\ (statuses \cap {"running", "succeeded"} # {}) <=>
            \E s \in Step : st[s].status \in {"running", "succeeded"}
  OBVIOUS
<1>5. QED
  <2> DEFINE d == DeriveRunStatus(st)
  <2>1. d = IF \A s \in Step : st[s].status = "succeeded" THEN "succeeded"
            ELSE IF \E s \in Step : st[s].status = "failed" THEN "failed"
            ELSE IF \E s \in Step : st[s].status = "waiting_human" THEN "waiting_human"
            ELSE IF \E s \in Step : st[s].status \in {"running", "succeeded"} THEN "running"
            ELSE "queued"
    BY <1>3, <1>4, Zenon DEF DeriveRunStatus
  <2>2. QED
    <3> HIDE DEF d
    <3>1. Reflects(st, d)
      BY <1>1, <2>1 DEF Reflects, StepStatus
    <3>2. QED
      BY <3>1 DEF d

\* Every step of the system leaves the run saying what the steps say.
LEMMA ReflectsNext ==
    ASSUME Inv, Inv', Reflects(step, run), Next
    PROVE  Reflects(step', run')
<1>1. ASSUME \A s \in Step : step'[s].status = step[s].status, run' = run
      PROVE  Reflects(step', run')
  BY <1>1 DEF Reflects
<1>2. ASSUME run' = DeriveRunStatus(step') PROVE Reflects(step', run')
  <2>1. \A s \in Step : step'[s].status \in StepStatus
    BY DEF Inv, TypeOK, StepRow
  <2>2. QED
    BY <1>2, <2>1, DerivedReflects
<1>3. ASSUME run' = "failed" PROVE Reflects(step', run')
  BY <1>3 DEF Reflects
<1>4. ASSUME NEW w \in Worker, ClaimStep(w) PROVE Reflects(step', run')
  <2> DEFINE r == worker[w].event.step
  <2>1. r \in Step
    BY <1>4, StepInHand DEF ClaimStep
  <2>2. CASE ClaimableStep(step[r])
    <3>1. step' = [step EXCEPT ![r] = Claimed(step[r], w)]
      BY <1>4, <2>2 DEF ClaimStep
    <3>2. /\ step'[r].status = "running"
          /\ \A s \in Step \ {r} : step'[s].status = step[s].status
      BY <2>1, <3>1 DEF Claimed, Inv, TypeOK
    <3>3. step[r].status \in {"queued", "running"}
      BY <2>2 DEF ClaimableStep, ExpiredStep
    <3>4. run' = IF run = "queued" THEN "running" ELSE run
      BY <1>4, <2>2 DEF ClaimStep
    <3>5. QED
      <4> HIDE DEF r
      <4>1. CASE run = "queued"
        BY <2>1, <3>2, <3>4, <4>1 DEF Reflects
      <4>2. CASE run # "queued"
        BY <2>1, <3>2, <3>3, <3>4, <4>2 DEF Reflects
      <4>3. QED
        BY <4>1, <4>2
  <2>3. CASE ~ClaimableStep(step[r])
    BY <1>1, <1>4, <2>3 DEF ClaimStep
  <2>4. QED
    BY <2>2, <2>3
<1>5. ASSUME NEW w \in Worker, HandleDecision(w) PROVE Reflects(step', run')
  BY <1>1, <1>2, <1>5 DEF HandleDecision, DecidedRun, DecidedStep
<1>6. ASSUME NEW w \in Worker, HandleAdvance(w) PROVE Reflects(step', run')
  BY <1>2, <1>6 DEF HandleAdvance
<1>7. ASSUME NEW w \in Worker, Finalize(w) PROVE Reflects(step', run')
  BY <1>1, <1>2, <1>7 DEF Finalize
<1>8. ASSUME NEW w \in Worker, FailEvent(w) PROVE Reflects(step', run')
  BY <1>1, <1>2, <1>3, <1>8 DEF FailEvent, FailFromOutbox
<1>9. ASSUME NEW s \in Step, HumanAccept(s) PROVE Reflects(step', run')
  BY <1>1, <1>2, <1>9 DEF HumanAccept, DecidedRun, DecidedStep
<1>10. ASSUME NEW s \in Step, ExpireStep(s) PROVE Reflects(step', run')
  <2>1. \A t \in Step : step'[t].status = step[t].status
    BY <1>10 DEF ExpireStep, Inv, TypeOK, StepRow
  <2>2. QED
    BY <1>1, <1>10, <2>1 DEF ExpireStep
<1>11. QED
  BY <1>1, <1>4, <1>5, <1>6, <1>7, <1>8, <1>9, <1>10
  DEF Next, Work, Prepare, Execute, Settle, Raise, Abandon, Crash, RenewEvent, ClaimEvent,
      EventLeaseRunsOut, EventLeaseLapses, ExpireEvent, ReplayEvent,
      StepLeaseRunsOut, StepLeaseLapses, HumanReject, Recover

\* Whatever the order in which steps are claimed, finished, decided and failed, a run that
\* was not failed has the status that follows from its steps.
THEOREM StatusFollowsSteps == Spec => []RunReflectsSteps
<1>1. Init => Reflects(step, run)
  BY StepAssumption DEF Init, NewStep, Reflects
<1>2. Inv /\ Inv' /\ Reflects(step, run) /\ [Next]_vars => Reflects(step, run)'
  <2>1. ASSUME Reflects(step, run), UNCHANGED vars PROVE Reflects(step', run')
    BY <2>1 DEF vars
  <2>2. QED
    BY <2>1, ReflectsNext
<1>3. Reflects(step, run) => RunReflectsSteps
  BY ReflectsDefs
<1>4. QED
  BY <1>1, <1>2, <1>3, Invariance, PTL DEF Spec


-----------------------------------------------------------------------------
(* How often the work of a step may still be done. *)

\* The workers that will do the work of s unless something happens to them.
Ready(s) == {w \in Worker : /\ worker[w].event.step = s
                            /\ \/ worker[w].pc = "prepared"
                               \/ worker[w].pc = "claimed" /\ ClaimCurrent(w)}

\* Whether s can be claimed (once more) without another fault.
Open(s) == \/ step[s].status = "queued"
           \/ step[s].status = "running" /\ (step[s].lease = "expired" \/ ~StepTended(s))

Spare(s) == IF Open(s) THEN 1 ELSE 0

\* The work done, the work that is certain to be done and the work that may be done without
\* a fault are paid for by the first claim and the faults so far.
Paid(s) == /\ IsFiniteSet(Ready(s))
           /\ effects[s] + Cardinality(Ready(s)) + Spare(s) <= 1 + faults

Budget == \A s \in Step : Paid(s)

\* A step of the system that makes no worker ready for s, does no work of s and either
\* leaves s closed or is a fault keeps the budget of s.
LEMMA PaidStays ==
    ASSUME TypeOK, TypeOK', NEW s \in Step, Paid(s),
           Ready(s)' \subseteq Ready(s), effects'[s] = effects[s],
           (faults' = faults /\ (Open(s)' => Open(s))) \/ faults' = faults + 1
    PROVE  Paid(s)'
<1>1. IsFiniteSet(Ready(s)') /\ Cardinality(Ready(s)') <= Cardinality(Ready(s))
  BY FS_Subset DEF Paid
<1>2. Cardinality(Ready(s)) \in Nat /\ Cardinality(Ready(s)') \in Nat
  BY <1>1, FS_CardinalityType DEF Paid
<1>3. effects[s] \in Nat /\ faults \in Nat /\ faults' \in Nat
  BY DEF TypeOK
<1>4. Spare(s) \in {0, 1} /\ Spare(s)' \in {0, 1}
  BY DEF Spare
<1>5. CASE faults' = faults + 1
  BY <1>1, <1>2, <1>3, <1>4, <1>5 DEF Paid
<1>6. CASE faults' = faults /\ (Open(s)' => Open(s))
  <2>1. Spare(s)' <= Spare(s)
    BY <1>6 DEF Spare
  <2>2. QED
    BY <1>1, <1>2, <1>3, <1>4, <1>6, <2>1 DEF Paid
<1>7. QED
  BY <1>5, <1>6

\* A worker that executes step s under the current claim.
Tends(w, s) == /\ worker[w].pc \in {"claimed", "prepared", "worked"}
               /\ worker[w].event.step = s
               /\ ClaimCurrent(w)

\* The row of s is left alone, or s is over.
RowStaysOrEnds(s) == step'[s] = step[s] \/ step'[s].status \notin {"queued", "running"}

\* A worker turns to something else: the budget of s is kept unless it tended s, which
\* goes on; then that was a fault.
LEMMA PaidWhenLeft ==
    ASSUME Inv, Inv', NEW s \in Step, Paid(s), effects'[s] = effects[s],
           NEW w \in Worker, NEW state, worker' = [worker EXCEPT ![w] = state],
           state.pc \notin {"claimed", "prepared", "worked"},
           RowStaysOrEnds(s),
           \/ faults' = faults + 1
           \/ faults' = faults /\ (Tends(w, s) => step'[s].status \notin {"queued", "running"})
    PROVE  Paid(s)'
<1>1. /\ worker'[w] = state
      /\ \A v \in Worker \ {w} : worker'[v] = worker[v]
  BY DEF Inv, TypeOK
<1>2. ASSUME NEW v \in Worker, v \in Ready(s)'
      PROVE  v \in Ready(s)
  <2>1. v # w /\ worker'[v] = worker[v]
    BY <1>1, <1>2 DEF Ready
  <2>2. CASE worker[v].pc = "prepared"
    BY <1>2, <2>1, <2>2 DEF Ready
  <2>3. CASE worker[v].pc = "claimed"
    <3>1. ClaimCurrent(v)' /\ worker[v].event.step = s
      BY <1>2, <2>1, <2>3 DEF Ready
    <3>2. step'[s].status = "running"
      BY <2>1, <3>1 DEF ClaimCurrent
    <3>3. step'[s] = step[s]
      BY <3>2 DEF RowStaysOrEnds
    <3>4. ClaimCurrent(v)
      BY <2>1, <3>1, <3>3 DEF ClaimCurrent
    <3>5. QED
      BY <2>3, <3>1, <3>4 DEF Ready
  <2>4. QED
    BY <1>2, <2>1, <2>2, <2>3 DEF Ready
<1>3. Ready(s)' \subseteq Ready(s)
  BY <1>2 DEF Ready
<1>4. ASSUME faults' = faults, Open(s)' PROVE Open(s)
  <2>1. step'[s] = step[s] /\ ~Tends(w, s)
    <3>1. step'[s].status \in {"queued", "running"}
      BY <1>4 DEF Open
    <3>2. faults' # faults + 1
      BY <1>4 DEF Inv, TypeOK
    <3>3. QED
      BY <3>1, <3>2 DEF RowStaysOrEnds
  <2>2. ASSUME NEW v \in Worker, Tends(v, s) PROVE Tends(v, s)'
    BY <1>1, <2>1, <2>2 DEF Tends, ClaimCurrent
  <2>3. StepTended(s) => StepTended(s)'
    BY <2>2 DEF StepTended, Tends
  <2>4. QED
    BY <1>4, <2>1, <2>3 DEF Open
<1>5. QED
  BY <1>3, <1>4, PaidStays DEF Inv

\* The workers go on, the row of s is left alone or s is over.
LEMMA PaidWhenAlone ==
    ASSUME Inv, Inv', NEW s \in Step, Paid(s), effects'[s] = effects[s], UNCHANGED worker,
           RowStaysOrEnds(s), faults' = faults \/ faults' = faults + 1
    PROVE  Paid(s)'
<1>1. ASSUME NEW v \in Worker, worker[v].event.step = s, ClaimCurrent(v)'
      PROVE  ClaimCurrent(v)
  <2>1. step'[s].status = "running"
    BY <1>1 DEF ClaimCurrent
  <2>2. step'[s] = step[s]
    BY <2>1 DEF RowStaysOrEnds
  <2>3. QED
    BY <1>1, <2>2 DEF ClaimCurrent
<1>2. Ready(s)' \subseteq Ready(s)
  BY <1>1 DEF Ready
<1>3. ASSUME Open(s)' PROVE Open(s)
  <2>1. step'[s] = step[s]
    BY <1>3 DEF Open, RowStaysOrEnds
  <2>2. StepTended(s)' <=> StepTended(s)
    BY <2>1 DEF StepTended, ClaimCurrent
  <2>3. QED
    BY <1>3, <2>1, <2>2 DEF Open
<1>4. QED
  BY <1>2, <1>3, PaidStays DEF Inv

\* Time runs out for the claim of a step: without a fault only when nobody tends it.
LEMMA PaidWhenExpired ==
    ASSUME Inv, Inv', NEW s \in Step, Paid(s), NEW r \in Step,
           StepLeaseRunsOut(r) \/ StepLeaseLapses(r)
    PROVE  Paid(s)'
<1>1. /\ step[r].status = "running" /\ UNCHANGED <<worker, effects>>
      /\ step' = [step EXCEPT ![r] = [step[r] EXCEPT !.lease = "expired"]]
  BY DEF StepLeaseRunsOut, StepLeaseLapses, ExpireStep
<1>2. CASE r # s
  <2>1. step'[s] = step[s]
    BY <1>1, <1>2 DEF Inv, TypeOK
  <2>2. faults' = faults \/ faults' = faults + 1
    BY DEF StepLeaseRunsOut, StepLeaseLapses, Fault
  <2>3. QED
    BY <1>1, <2>1, <2>2, PaidWhenAlone DEF RowStaysOrEnds
<1>3. CASE r = s
  <2>1. step'[s] = [step[s] EXCEPT !.lease = "expired"] /\ step[s] \in StepRow
    BY <1>1, <1>3 DEF Inv, TypeOK
  <2>2. /\ step'[s].status = step[s].status /\ step'[s].owner = step[s].owner
        /\ step'[s].attempt = step[s].attempt /\ step'[s].version = step[s].version
    BY <2>1 DEF StepRow
  <2>3. \A v \in Worker : worker[v].event.step = s => (ClaimCurrent(v)' <=> ClaimCurrent(v))
    BY <1>1, <2>2 DEF ClaimCurrent
  <2>4. Ready(s)' \subseteq Ready(s)
    BY <1>1, <2>3 DEF Ready
  <2>5. Open(s) \/ faults' = faults + 1
    BY <1>1, <1>3 DEF StepLeaseRunsOut, StepLeaseLapses, Fault, Open
  <2>6. faults' = faults \/ faults' = faults + 1
    BY DEF StepLeaseRunsOut, StepLeaseLapses, Fault
  <2>7. QED
    BY <1>1, <2>4, <2>5, <2>6, PaidStays DEF Inv
<1>4. QED
  BY <1>2, <1>3

\* A worker that keeps its event and its claim keeps tending its step.
LEMMA ClaimsKept ==
    ASSUME NEW w \in Worker, UNCHANGED step,
           \A v \in Worker \ {w} : worker'[v] = worker[v],
           worker'[w].event = worker[w].event,
           worker'[w].attempt = worker[w].attempt, worker'[w].version = worker[w].version
    PROVE  \A v \in Worker : /\ worker'[v].event = worker[v].event
                             /\ ClaimCurrent(v)' <=> ClaimCurrent(v)
<1>1. ASSUME NEW v \in Worker
      PROVE  /\ worker'[v].event = worker[v].event
             /\ worker'[v].attempt = worker[v].attempt
             /\ worker'[v].version = worker[v].version
  <2>1. CASE v = w
    BY <2>1
  <2>2. CASE v # w
    BY <2>2
  <2>3. QED
    BY <2>1, <2>2
<1>2. QED
  BY <1>1 DEF ClaimCurrent

\* Preparing keeps a worker ready, working uses it up.
LEMMA PaidWhenPrepared ==
    ASSUME Inv, Inv', NEW s \in Step, Paid(s), NEW w \in Worker, Prepare(w)
    PROVE  Paid(s)'
<1>1. UNCHANGED <<step, effects, faults>> /\ worker[w].pc = "claimed" /\ worker[w] \in WorkerState
  BY DEF Prepare, Inv, TypeOK
<1>2. CASE ~ClaimCurrent(w)
  <2>1. worker' = [worker EXCEPT ![w] = Moved(worker[w], "raised", "none")]
    BY <1>2 DEF Prepare
  <2>2. Moved(worker[w], "raised", "none").pc = "raised"
    BY <1>1, StateUpdates DEF PC, Outcome
  <2>3. ~Tends(w, s)
    BY <1>2 DEF Tends
  <2>4. QED
    BY <1>1, <2>1, <2>2, <2>3, PaidWhenLeft DEF RowStaysOrEnds
<1>3. CASE ClaimCurrent(w)
  <2>1. worker' = [worker EXCEPT ![w] = Moved(worker[w], "prepared", "none")]
    BY <1>3 DEF Prepare
  <2>2. /\ worker'[w] = [worker[w] EXCEPT !.pc = "prepared", !.outcome = "none"]
        /\ \A v \in Worker \ {w} : worker'[v] = worker[v]
    BY <2>1 DEF Moved, Inv, TypeOK
  <2>3. /\ worker'[w].pc = "prepared" /\ worker'[w].event = worker[w].event
        /\ worker'[w].attempt = worker[w].attempt /\ worker'[w].version = worker[w].version
    BY <1>1, <2>2 DEF WorkerState
  <2>4. \A v \in Worker : /\ worker'[v].event = worker[v].event
                          /\ ClaimCurrent(v)' <=> ClaimCurrent(v)
    BY <1>1, <2>2, <2>3, ClaimsKept
  <2>5. ASSUME NEW v \in Worker, v \in Ready(s)' PROVE v \in Ready(s)
    <3>1. CASE v = w
      BY <1>1, <1>3, <2>4, <2>5, <3>1 DEF Ready
    <3>2. CASE v # w
      BY <2>2, <2>4, <2>5, <3>2 DEF Ready
    <3>3. QED
      BY <3>1, <3>2
  <2>6. ASSUME NEW v \in Worker, Tends(v, s) PROVE Tends(v, s)'
    <3>1. CASE v = w
      BY <2>3, <2>4, <2>6, <3>1 DEF Tends
    <3>2. CASE v # w
      BY <2>2, <2>4, <2>6, <3>2 DEF Tends
    <3>3. QED
      BY <3>1, <3>2
  <2>7. Ready(s)' \subseteq Ready(s)
    BY <2>5 DEF Ready
  <2>8. StepTended(s) => StepTended(s)'
    BY <2>6 DEF StepTended, Tends
  <2>9. Open(s)' => Open(s)
    BY <1>1, <2>8 DEF Open
  <2>10. QED
    BY <1>1, <2>7, <2>9, PaidStays DEF Inv
<1>4. QED
  BY <1>2, <1>3

\* To do the work turns a worker that was certain to do it into work done.
LEMMA PaidWhenWorked ==
    ASSUME Inv, Inv', NEW s \in Step, Paid(s), NEW w \in Worker, Execute(w)
    PROVE  Paid(s)'
<1>1. PICK result \in {"succeeded", "failed"} :
        worker' = [worker EXCEPT ![w] = Moved(@, "worked", result)]
  BY DEF Execute
<1>2. /\ UNCHANGED <<step, faults>> /\ worker[w].pc = "prepared" /\ worker[w] \in WorkerState
      /\ effects' = [effects EXCEPT ![worker[w].event.step] = @ + 1]
  BY DEF Execute, Inv, TypeOK
<1>3. /\ worker'[w] = [worker[w] EXCEPT !.pc = "worked", !.outcome = result]
      /\ \A v \in Worker \ {w} : worker'[v] = worker[v]
  BY <1>1 DEF Moved, Inv, TypeOK
<1>4. /\ worker'[w].pc = "worked" /\ worker'[w].event = worker[w].event
      /\ worker'[w].attempt = worker[w].attempt /\ worker'[w].version = worker[w].version
  BY <1>2, <1>3 DEF WorkerState
<1>5. \A v \in Worker : /\ worker'[v].event = worker[v].event
                        /\ ClaimCurrent(v)' <=> ClaimCurrent(v)
  BY <1>2, <1>3, <1>4, ClaimsKept
<1>6. Ready(s)' = Ready(s) \ {w}
  <2>1. w \notin Ready(s)'
    BY <1>4 DEF Ready
  <2>2. \A v \in Worker \ {w} : v \in Ready(s)' <=> v \in Ready(s)
    BY <1>3, <1>5 DEF Ready
  <2>3. Ready(s) \subseteq Worker /\ Ready(s)' \subseteq Worker
    BY DEF Ready
  <2>4. QED
    BY <2>1, <2>2, <2>3
<1>7. StepTended(s) => StepTended(s)'
  <2>1. ASSUME NEW v \in Worker, Tends(v, s) PROVE Tends(v, s)'
    <3>1. CASE v = w
      BY <1>4, <1>5, <2>1, <3>1 DEF Tends
    <3>2. CASE v # w
      BY <1>3, <1>5, <2>1, <3>2 DEF Tends
    <3>3. QED
      BY <3>1, <3>2
  <2>2. QED
    BY <2>1 DEF StepTended, Tends
<1>8. Open(s)' => Open(s)
  BY <1>2, <1>7 DEF Open
<1>9. CASE worker[w].event.step # s
  <2>1. effects'[s] = effects[s]
    BY <1>2, <1>9 DEF Inv, TypeOK
  <2>2. QED
    BY <1>2, <1>6, <1>8, <2>1, PaidStays DEF Inv
<1>10. CASE worker[w].event.step = s
  <2>1. w \in Ready(s)
    BY <1>2, <1>10 DEF Ready
  <2>2. IsFiniteSet(Ready(s)') /\ Cardinality(Ready(s)') = Cardinality(Ready(s)) - 1
    BY <1>6, <2>1, FS_RemoveElement DEF Paid
  <2>3. effects'[s] = effects[s] + 1 /\ effects[s] \in Nat /\ faults \in Nat
    BY <1>2, <1>10 DEF Inv, TypeOK
  <2>4. Spare(s)' <= Spare(s) /\ Spare(s) \in {0, 1} /\ Spare(s)' \in {0, 1}
    BY <1>8 DEF Spare
  <2>5. Cardinality(Ready(s)) \in Nat
    BY FS_CardinalityType DEF Paid
  <2>6. QED
    BY <1>2, <2>2, <2>3, <2>4, <2>5 DEF Paid
<1>11. QED
  BY <1>9, <1>10

\* A claim turns the spare work of a step into a ready worker.
LEMMA PaidWhenClaimed ==
    ASSUME Inv, Inv', NEW s \in Step, Paid(s), NEW w \in Worker, ClaimStep(w)
    PROVE  Paid(s)'
<1> DEFINE r == worker[w].event.step
<1>1. /\ UNCHANGED <<effects, faults>> /\ worker[w].pc = "handling" /\ worker[w] \in WorkerState
      /\ r \in Step
  BY StepInHand DEF ClaimStep, Inv, TypeOK
<1>2. CASE ~ClaimableStep(step[r])
  <2>1. /\ worker' = [worker EXCEPT ![w] = Moved(worker[w], "settling", Disposition(step[r]))]
        /\ UNCHANGED step
    BY <1>2 DEF ClaimStep
  <2>2. Moved(worker[w], "settling", Disposition(step[r])).pc = "settling"
    BY <1>1, StateUpdates DEF PC, Outcome, Disposition
  <2>3. ~Tends(w, s)
    BY <1>1 DEF Tends
  <2>4. QED
    BY <1>1, <2>1, <2>2, <2>3, PaidWhenLeft DEF RowStaysOrEnds
<1>3. CASE ClaimableStep(step[r])
  <2>1. /\ step' = [step EXCEPT ![r] = Claimed(step[r], w)]
        /\ worker' = [worker EXCEPT ![w] = Holding(worker[w].event, Claimed(step[r], w))]
    BY <1>3 DEF ClaimStep
  <2>2. /\ step'[r] = Claimed(step[r], w)
        /\ \A t \in Step \ {r} : step'[t] = step[t]
        /\ worker'[w] = Holding(worker[w].event, Claimed(step[r], w))
        /\ \A v \in Worker \ {w} : worker'[v] = worker[v]
    BY <1>1, <2>1 DEF Inv, TypeOK
  <2>3. /\ worker'[w].pc = "claimed" /\ worker'[w].event = worker[w].event
        /\ worker'[w].attempt = step[r].attempt + 1 /\ worker'[w].version = step[r].version + 1
    BY <2>2 DEF Holding, Claimed
  <2>4. /\ step'[r].status = "running" /\ step'[r].owner = w /\ step'[r].lease = "live"
        /\ step'[r].attempt = step[r].attempt + 1 /\ step'[r].version = step[r].version + 1
    BY <2>2 DEF Claimed
  <2>5. w \notin Ready(s)
    BY <1>1 DEF Ready
  <2> HIDE DEF r
  <2>6. CASE r # s
    <3>1. \A v \in Worker : worker'[v].event.step = s => worker'[v] = worker[v]
      BY <2>2, <2>3, <2>6 DEF r
    <3>2. \A v \in Worker : worker[v].event.step = s => worker'[v] = worker[v]
      BY <2>2, <2>3, <2>6 DEF r
    <3>3. \A v \in Worker : worker[v].event.step = s => (ClaimCurrent(v)' <=> ClaimCurrent(v))
      BY <2>2, <2>6, <3>2 DEF ClaimCurrent
    <3>4. Ready(s)' \subseteq Ready(s)
      BY <3>1, <3>3 DEF Ready
    <3>5. StepTended(s) => StepTended(s)'
      BY <3>2, <3>3 DEF StepTended
    <3>6. Open(s)' => Open(s)
      BY <2>2, <2>6, <3>5 DEF Open
    <3>7. QED
      BY <1>1, <3>4, <3>6, PaidStays DEF Inv
  <2>7. CASE r = s
    <3>1. Open(s)
      BY <1>3, <2>7 DEF ClaimableStep, ExpiredStep, Open
    <3>2. ClaimCurrent(w)'
      <4>1. worker'[w].event.step = r
        BY <2>3 DEF r
      <4>2. QED
        BY <2>3, <2>4, <4>1 DEF ClaimCurrent
    <3>3. ~Open(s)'
      <4>1. StepTended(s)'
        BY <2>3, <2>7, <3>2 DEF StepTended, r
      <4>2. QED
        BY <2>4, <2>7, <4>1 DEF Open
    <3>4. Ready(s)' \subseteq Ready(s) \cup {w}
      <4>1. ASSUME NEW v \in Worker \ {w}, v \in Ready(s)' PROVE v \in Ready(s)
        <5>1. worker'[v] = worker[v] /\ step'[s].owner # v
          BY <2>2, <2>4, <2>7, <4>1
        <5>2. ~(ClaimCurrent(v)' /\ worker'[v].event.step = s)
          BY <5>1 DEF ClaimCurrent
        <5>3. QED
          BY <4>1, <5>1, <5>2 DEF Ready
      <4>2. QED
        BY <4>1 DEF Ready
    <3>5. /\ IsFiniteSet(Ready(s) \cup {w})
          /\ Cardinality(Ready(s) \cup {w}) = Cardinality(Ready(s)) + 1
      BY <2>5, FS_AddElement DEF Paid
    <3>6. /\ IsFiniteSet(Ready(s)')
          /\ Cardinality(Ready(s)') <= Cardinality(Ready(s)) + 1
      BY <3>4, <3>5, FS_Subset
    <3>7. Cardinality(Ready(s)) \in Nat /\ Cardinality(Ready(s)') \in Nat
      BY <3>6, FS_CardinalityType DEF Paid
    <3>8. Spare(s) = 1 /\ Spare(s)' = 0
      BY <3>1, <3>3 DEF Spare
    <3>9. effects[s] \in Nat /\ faults \in Nat
      BY DEF Inv, TypeOK
    <3>10. QED
      BY <1>1, <3>6, <3>7, <3>8, <3>9 DEF Paid
  <2>8. QED
    BY <2>6, <2>7
<1>4. QED
  BY <1>2, <1>3

\* A decided row says what was decided.
LEMMA DecidedStatus ==
    ASSUME TypeOK, NEW r \in Step, NEW d \in DecisionKinds
    PROVE  Decided(step[r], d).status = DecisionTarget(d)
<1>1. step[r] \in StepRow /\ d \in Kind
  BY DEF TypeOK, Kind
<1>2. QED
  BY <1>1, StepRowUpdates

\* Every step of the system keeps the budget: only a fault lets work be done once more.
LEMMA BudgetNext ==
    ASSUME Inv, Inv', Budget, Next
    PROVE  Budget'
<1> SUFFICES ASSUME NEW s \in Step PROVE Paid(s)'
  BY DEF Budget
<1>0. Paid(s)
  BY DEF Budget
<1>1. ASSUME NEW w \in Worker, HandleAdvance(w) PROVE Paid(s)'
  <2>1. Idle.pc = "idle" /\ ~Tends(w, s)
    BY <1>1, StateUpdates DEF HandleAdvance, Tends
  <2>2. QED
    BY <1>0, <1>1, <2>1, PaidWhenLeft DEF HandleAdvance, RowStaysOrEnds
<1>2. ASSUME NEW w \in Worker, HandleDecision(w) PROVE Paid(s)'
  <2> DEFINE k == worker[w].event
  <2>1. Idle.pc = "idle" /\ ~Tends(w, s)
    BY <1>2, StateUpdates DEF HandleDecision, Tends
  <2>2. k.step \in Step /\ k.kind \in DecisionKinds
    BY <1>2, StepInHand DEF HandleDecision
  <2>3. step' = step \/ step' = [step EXCEPT ![k.step] = Decided(step[k.step], k.kind)]
    BY <1>2 DEF HandleDecision, DecidedStep
  <2>4. Decided(step[k.step], k.kind).status \in {"succeeded", "failed"}
    <3> HIDE DEF k
    <3>1. QED
      BY <2>2, DecidedStatus DEF DecisionTarget, Inv
  <2>5. RowStaysOrEnds(s)
    <3> HIDE DEF k
    <3>1. QED
      BY <2>2, <2>3, <2>4 DEF RowStaysOrEnds, Inv, TypeOK
  <2>6. QED
    BY <1>0, <1>2, <2>1, <2>5, PaidWhenLeft DEF HandleDecision
<1>3. ASSUME NEW w \in Worker, ClaimStep(w) PROVE Paid(s)'
  BY <1>0, <1>3, PaidWhenClaimed
<1>4. ASSUME NEW w \in Worker, Prepare(w) PROVE Paid(s)'
  BY <1>0, <1>4, PaidWhenPrepared
<1>5. ASSUME NEW w \in Worker, Execute(w) PROVE Paid(s)'
  BY <1>0, <1>5, PaidWhenWorked
<1>6. ASSUME NEW w \in Worker, Finalize(w) PROVE Paid(s)'
  <2> DEFINE r == worker[w].event.step
             target == CompletionTarget(r, worker[w].outcome)
  <2>1. worker[w] \in WorkerState /\ r \in Step
    BY <1>6, StepInHand DEF Finalize, Inv, TypeOK, Justified, ClaimsJustified
  <2>2. CASE ClaimCurrent(w)
    <3>1. /\ step' = [step EXCEPT ![r] = Finished(step[r], target)]
          /\ worker' = [worker EXCEPT ![w] = Moved(worker[w], "settling", "complete")]
          /\ UNCHANGED <<effects, faults>>
      BY <1>6, <2>2 DEF Finalize
    <3>2. Moved(worker[w], "settling", "complete").pc = "settling"
      BY <2>1, StateUpdates DEF PC, Outcome
    <3>3. Finished(step[r], target).status \in {"succeeded", "waiting_human", "failed"}
      BY <2>1, StepRowUpdates DEF CompletionTarget, StepStatus, Inv, TypeOK
    <3>4. RowStaysOrEnds(s) /\ (Tends(w, s) => step'[s].status \notin {"queued", "running"})
      <4>1. Tends(w, s) => r = s
        BY DEF Tends
      <4> HIDE DEF r, target
      <4>2. QED
        BY <2>1, <3>1, <3>3, <4>1 DEF RowStaysOrEnds, Inv, TypeOK
    <3>5. QED
      BY <1>0, <3>1, <3>2, <3>4, PaidWhenLeft
  <2>3. CASE ~ClaimCurrent(w)
    <3>1. /\ worker' = [worker EXCEPT ![w] = Moved(worker[w], "raised", "none")]
          /\ UNCHANGED <<step, effects, faults>>
      BY <1>6, <2>3 DEF Finalize
    <3>2. Moved(worker[w], "raised", "none").pc = "raised"
      BY <2>1, StateUpdates DEF PC, Outcome
    <3>3. ~Tends(w, s)
      BY <2>3 DEF Tends
    <3>4. QED
      BY <1>0, <3>1, <3>2, <3>3, PaidWhenLeft DEF RowStaysOrEnds
  <2>4. QED
    BY <2>2, <2>3
<1>7. ASSUME NEW w \in Worker, Settle(w) PROVE Paid(s)'
  <2>1. Idle.pc = "idle" /\ ~Tends(w, s)
    BY <1>7, StateUpdates DEF Settle, Tends
  <2>2. QED
    BY <1>0, <1>7, <2>1, PaidWhenLeft DEF Settle, RowStaysOrEnds
<1>8. ASSUME NEW w \in Worker, FailEvent(w) PROVE Paid(s)'
  <2> DEFINE k == worker[w].event
  <2>1. Idle.pc = "idle" /\ ~Tends(w, s)
    BY <1>8, StateUpdates DEF FailEvent, Tends
  <2>2. step' = step \/ (k.kind \in StepKinds /\ step' = [step EXCEPT ![k.step] =
                                                            Finished(step[k.step], "failed")])
    BY <1>8 DEF FailEvent, FailFromOutbox, StepToFail
  <2>3. RowStaysOrEnds(s)
    <3>1. CASE step' = step
      BY <3>1 DEF RowStaysOrEnds
    <3>2. CASE step' # step
      <4>1. k.step \in Step
        BY <1>8, <2>2, <3>2, StepInHand DEF FailEvent
      <4>2. Finished(step[k.step], "failed").status = "failed"
        BY <4>1, FinishedStatus DEF Inv, TypeOK
      <4> HIDE DEF k
      <4>3. QED
        BY <2>2, <3>2, <4>1, <4>2 DEF RowStaysOrEnds, Inv, TypeOK
    <3>3. QED
      BY <3>1, <3>2
  <2>4. QED
    BY <1>0, <1>8, <2>1, <2>3, PaidWhenLeft DEF FailEvent
<1>9. ASSUME NEW w \in Worker, Raise(w) PROVE Paid(s)'
  <2>1. Moved(worker[w], "raised", "none").pc = "raised"
    BY StateUpdates DEF PC, Outcome, Inv, TypeOK
  <2>2. QED
    BY <1>0, <1>9, <2>1, PaidWhenLeft DEF Raise, Fault, RowStaysOrEnds
<1>10. ASSUME NEW w \in Worker, Abandon(w) PROVE Paid(s)'
  BY <1>0, <1>10, StateUpdates, PaidWhenLeft DEF Abandon, Fault, RowStaysOrEnds
<1>11. ASSUME NEW w \in Worker, Crash(w) PROVE Paid(s)'
  BY <1>0, <1>11, StateUpdates, PaidWhenLeft DEF Crash, Fault, RowStaysOrEnds
<1>12. ASSUME NEW w \in Worker, NEW k \in DOMAIN outbox, ClaimEvent(w, k) PROVE Paid(s)'
  <2>1. Handling(k).pc = "handling" /\ ~Tends(w, s)
    BY <1>12, StateUpdates DEF ClaimEvent, Tends, Inv, TypeOK
  <2>2. QED
    BY <1>0, <1>12, <2>1, PaidWhenLeft DEF ClaimEvent, RowStaysOrEnds
<1>13. ASSUME UNCHANGED <<step, worker, effects>>, faults' = faults \/ faults' = faults + 1
       PROVE  Paid(s)'
  BY <1>0, <1>13, PaidWhenAlone DEF RowStaysOrEnds
<1>14. ASSUME NEW r \in Step, StepLeaseRunsOut(r) \/ StepLeaseLapses(r) PROVE Paid(s)'
  BY <1>0, <1>14, PaidWhenExpired
<1>15. ASSUME NEW r \in Step, HumanAccept(r) PROVE Paid(s)'
  <2>1. step' = [step EXCEPT ![r] = Decided(step[r], "accept")]
    BY <1>15 DEF HumanAccept, DecidedStep, Decidable
  <2>2. Decided(step[r], "accept").status = "succeeded"
    BY DecidedStatus DEF DecisionTarget, DecisionKinds, Inv
  <2>3. RowStaysOrEnds(s)
    BY <2>1, <2>2 DEF RowStaysOrEnds, Inv, TypeOK
  <2>4. QED
    BY <1>0, <1>15, <2>3, PaidWhenAlone DEF HumanAccept
<1>16. QED
  BY <1>1, <1>2, <1>3, <1>4, <1>5, <1>6, <1>7, <1>8, <1>9, <1>10, <1>11, <1>12, <1>13, <1>14,
     <1>15
  DEF Next, Work, RenewEvent, EventLeaseRunsOut, EventLeaseLapses, ExpireEvent, ReplayEvent,
      HumanReject, Recover, Fault

\* At first every step may be claimed once.
LEMMA BudgetInit == Init => Budget
<1> SUFFICES ASSUME Init, NEW s \in Step PROVE Paid(s)
  BY DEF Budget
<1>1. Ready(s) = {}
  BY StateUpdates DEF Init, Ready
<1>2. IsFiniteSet(Ready(s)) /\ Cardinality(Ready(s)) = 0
  BY <1>1, FS_EmptySet
<1>3. Spare(s) \in {0, 1} /\ effects[s] = 0 /\ faults = 0
  BY DEF Init, Spare
<1>4. QED
  BY <1>2, <1>3 DEF Paid

\* Whatever is retried, deferred, recovered and replayed, by however many workers: the
\* work of a step is done once, and once more for every crash, exception and missed
\* heartbeat.
THEOREM WorkIsPaidFor == Spec => []RepetitionNeedsFault
<1>1. Inv /\ Inv' /\ Budget /\ [Next]_vars => Budget'
  <2>1. ASSUME Budget, UNCHANGED vars PROVE Budget'
    BY <2>1 DEF vars, Budget, Paid, Ready, Spare, Open, StepTended, ClaimCurrent
  <2>2. QED
    BY <2>1, BudgetNext
<1>2. Inv /\ Budget => RepetitionNeedsFault
  <2>1. ASSUME Inv, NEW s \in Step, Paid(s) PROVE effects[s] <= 1 + faults
    <3>1. Cardinality(Ready(s)) \in Nat
      BY <2>1, FS_CardinalityType DEF Paid
    <3>2. Spare(s) \in {0, 1} /\ effects[s] \in Nat /\ faults \in Nat
      BY <2>1 DEF Spare, Inv, TypeOK
    <3>3. QED
      BY <2>1, <3>1, <3>2 DEF Paid
  <2>2. QED
    BY <2>1 DEF Budget, RepetitionNeedsFault
<1>3. QED
  BY BudgetInit, <1>1, <1>2, Invariance, PTL DEF Spec

-----------------------------------------------------------------------------
(* A ready step is never forgotten. *)

\* An event that is taken off the table was handled, settled or used up.
LEMMA UnsettledEnds ==
    ASSUME Inv, Next, NEW k \in DOMAIN outbox', ~Unsettled(outbox'[k])
    PROVE  \/ k \in DOMAIN outbox /\ ~Unsettled(outbox[k])
           \/ \E w \in Worker :
                 /\ k = worker[w].event
                 /\ \/ HandleAdvance(w)
                    \/ HandleDecision(w)
                    \/ Settle(w) /\ worker[w].outcome # "defer"
                    \/ FailEvent(w) /\ Exhausted(outbox[k])
<1> DEFINE Goal == \/ k \in DOMAIN outbox /\ ~Unsettled(outbox[k])
                   \/ \E w \in Worker :
                         /\ k = worker[w].event
                         /\ \/ HandleAdvance(w)
                            \/ HandleDecision(w)
                            \/ Settle(w) /\ worker[w].outcome # "defer"
                            \/ FailEvent(w) /\ Exhausted(outbox[k])
<1>1. ASSUME k \in DOMAIN outbox => outbox'[k].status = outbox[k].status,
             k \notin DOMAIN outbox => outbox'[k] = NewRow
      PROVE  Goal
  BY <1>1 DEF Unsettled, NewRow
<1>2. ASSUME UNCHANGED outbox PROVE Goal
  BY <1>1, <1>2
<1>3. ASSUME NEW keys, outbox' = EnqueueAll(outbox, keys) PROVE Goal
  BY <1>1, <1>3 DEF EnqueueAll
<1>4. ASSUME NEW keys, NEW e \in DOMAIN outbox, NEW row, k # e,
             outbox' = [EnqueueAll(outbox, keys) EXCEPT ![e] = row]
      PROVE  Goal
  BY <1>1, <1>4 DEF EnqueueAll
<1>5. ASSUME NEW e \in DOMAIN outbox, NEW row, outbox' = [outbox EXCEPT ![e] = row],
             k # e \/ row.status \in {"pending", "processing"} \/ row = outbox[e]
      PROVE  Goal
  <2>1. k \in DOMAIN outbox /\ outbox'[k] = (IF k = e THEN row ELSE outbox[k])
    BY <1>5
  <2>2. QED
    BY <1>5, <2>1 DEF Unsettled
<1>6. ASSUME NEW w \in Worker, HandleAdvance(w) PROVE Goal
  <2>1. worker[w].event \in DOMAIN outbox
    BY <1>6, EventInHand DEF HandleAdvance
  <2>2. CASE k = worker[w].event
    BY <1>6, <2>2
  <2>3. CASE k # worker[w].event
    BY <1>4, <1>6, <2>1, <2>3 DEF HandleAdvance
  <2>4. QED
    BY <2>2, <2>3
<1>7. ASSUME NEW w \in Worker, HandleDecision(w) PROVE Goal
  <2>1. worker[w].event \in DOMAIN outbox
    BY <1>7, EventInHand DEF HandleDecision
  <2>2. CASE k = worker[w].event
    BY <1>7, <2>2
  <2>3. CASE k # worker[w].event
    BY <1>4, <1>7, <2>1, <2>3 DEF HandleDecision
  <2>4. QED
    BY <2>2, <2>3
<1>8. ASSUME NEW w \in Worker, Settle(w) PROVE Goal
  <2> DEFINE e == worker[w].event
  <2>1. e \in DOMAIN outbox /\ outbox[e] \in Row
    BY <1>8, EventInHand DEF Settle, RowOK
  <2>2. CASE worker[w].outcome = "defer"
    <3>1. outbox' = [outbox EXCEPT ![e] = DeferRow(outbox[e], w)]
      BY <1>8, <2>2 DEF Settle
    <3>2. DeferRow(outbox[e], w).status = "pending" \/ DeferRow(outbox[e], w) = outbox[e]
      BY <2>1 DEF DeferRow, Released, Row
    <3> HIDE DEF e
    <3>3. QED
      BY <1>5, <2>1, <3>1, <3>2
  <2>3. CASE worker[w].outcome # "defer"
    <3>1. outbox' = [outbox EXCEPT ![e] = CompleteRow(outbox[e], w)]
      BY <1>8, <2>3 DEF Settle
    <3>2. CASE k # e
      BY <1>5, <2>1, <3>1, <3>2
    <3>3. CASE k = e
      BY <1>8, <2>3, <3>3
    <3>4. QED
      BY <3>2, <3>3
  <2>4. QED
    BY <2>2, <2>3
<1>9. ASSUME NEW w \in Worker, FailEvent(w) PROVE Goal
  <2> DEFINE e == worker[w].event
  <2>1. e \in DOMAIN outbox /\ outbox[e] \in Row
    BY <1>9, EventInHand DEF FailEvent, RowOK
  <2>2. outbox' = [outbox EXCEPT ![e] = FailRow(outbox[e], w)]
    BY <1>9 DEF FailEvent
  <2>3. CASE k = e /\ Exhausted(outbox[e])
    BY <1>9, <2>3
  <2>4. CASE k = e /\ ~Exhausted(outbox[e])
    <3>1. FailRow(outbox[e], w).status = "pending" \/ FailRow(outbox[e], w) = outbox[e]
      BY <2>1, <2>4 DEF FailRow, Released, Row
    <3> HIDE DEF e
    <3>2. QED
      BY <1>5, <2>1, <2>2, <3>1
  <2>5. CASE k # e
    BY <1>5, <2>1, <2>2, <2>5
  <2>6. QED
    BY <2>3, <2>4, <2>5
<1>10. ASSUME NEW w \in Worker, RenewEvent(w) PROVE Goal
  <2> DEFINE e == worker[w].event
  <2>1. e \in DOMAIN outbox /\ outbox[e] \in Row
    BY <1>10, EventInHand DEF RenewEvent, Busy, RowOK
  <2>2. outbox' = [outbox EXCEPT ![e] = RenewRow(outbox[e], w)]
    BY <1>10 DEF RenewEvent
  <2>3. RenewRow(outbox[e], w).status = "processing"
    BY <1>10, <2>1 DEF RenewEvent, RenewRow, Holds, Row
  <2>4. QED
    <3> HIDE DEF e
    <3>1. QED
      BY <1>5, <2>1, <2>2, <2>3
<1>11. ASSUME NEW w \in Worker, NEW e \in DOMAIN outbox, ClaimEvent(w, e) PROVE Goal
  <2>1. ClaimRow(outbox[e], w).status = "processing"
    BY DEF ClaimRow
  <2>2. QED
    BY <1>5, <1>11, <2>1 DEF ClaimEvent
<1>12. ASSUME NEW e \in DOMAIN outbox, ExpireEvent(e) PROVE Goal
  <2>1. outbox' = [outbox EXCEPT ![e] = [outbox[e] EXCEPT !.lease = "expired"]]
    BY <1>12 DEF ExpireEvent
  <2>2. [outbox[e] EXCEPT !.lease = "expired"].status = "processing"
    BY <1>12 DEF ExpireEvent, Inv, TypeOK, Row
  <2>3. QED
    BY <1>5, <2>1, <2>2
<1>13. ASSUME NEW e \in DOMAIN outbox, ReplayEvent(e) PROVE Goal
  <2>1. ReplayRow(outbox[e]).status = "pending"
    BY <1>13 DEF ReplayEvent, ReplayRow, NewRow
  <2>2. QED
    BY <1>5, <1>13, <2>1 DEF ReplayEvent
<1>14. ASSUME NEW w \in Worker, Finalize(w) PROVE Goal
  BY <1>2, <1>3, <1>14 DEF Finalize
<1>15. ASSUME NEW s \in Step, HumanAccept(s) \/ HumanReject(s) PROVE Goal
  BY <1>3, <1>15 DEF HumanAccept, HumanReject
<1>16. ASSUME Recover PROVE Goal
  BY <1>3, <1>16 DEF Recover
<1>17. Goal
  <2> HIDE DEF Goal
  <2>1. QED
    BY <1>2, <1>6, <1>7, <1>8, <1>9, <1>10, <1>11, <1>12, <1>13, <1>14, <1>15, <1>16
    DEF Next, Work, ClaimStep, Prepare, Execute, Raise, Abandon, Crash,
        EventLeaseRunsOut, EventLeaseLapses, StepLeaseRunsOut, StepLeaseLapses, ExpireStep
<1>18. QED
  BY <1>17

\* An event for a step that is off the table has left its step past execution.
SpentEvents ==
    \A k \in DOMAIN outbox :
        k.kind \in StepKinds /\ ~Unsettled(outbox[k]) => step[k.step].status \in TerminalStatuses

\* So does an event that is about to be completed.
SettlingKnown ==
    \A w \in Worker :
        worker[w].pc = "settling" /\ worker[w].outcome # "defer"
          => step[worker[w].event.step].status \in TerminalStatuses

\* A running step was started by an event.
StartedByEvent ==
    \A s \in Step :
        step[s].status = "running" => \E k \in DOMAIN outbox : k.kind \in StepKinds /\ k.step = s

\* An advance event about a step exists only once the step has succeeded.
AdvancesAreFresh ==
    \A k \in DOMAIN outbox :
        k.kind \in AdvanceKinds /\ k.step \in Step => step[k.step].status = "succeeded"

Records == SpentEvents /\ SettlingKnown /\ StartedByEvent /\ AdvancesAreFresh

\* A step past execution never comes back to it.
LEMMA TerminalStays ==
    ASSUME StepsMove, NEW s \in Step, step[s].status \in TerminalStatuses
    PROVE  step'[s].status \in TerminalStatuses
<1>1. SameStatus(s) \/ StatusMove(s)
  BY DEF StepsMove
<1>2. QED
  BY <1>1 DEF SameStatus, StatusMove, TerminalStatuses

\* An event for a step leaves the table only when the step is past execution.
LEMMA SpentNext ==
    ASSUME Inv, Inv', SpentEvents, SettlingKnown, Next
    PROVE  SpentEvents'
<1> SUFFICES ASSUME NEW k \in DOMAIN outbox', k.kind \in StepKinds, ~Unsettled(outbox'[k])
             PROVE  step'[k.step].status \in TerminalStatuses
  BY DEF SpentEvents
<1>1. StepsMove
  BY StepsNext
<1>2. k.step \in Step
  BY DEF Inv, Justified, EventsJustified
<1>3. CASE k \in DOMAIN outbox /\ ~Unsettled(outbox[k])
  BY <1>1, <1>2, <1>3, TerminalStays DEF SpentEvents
<1>4. ASSUME NEW w \in Worker, k = worker[w].event, HandleAdvance(w) \/ HandleDecision(w)
      PROVE  FALSE
  BY <1>4 DEF HandleAdvance, HandleDecision, AdvanceKinds, StepKinds, DecisionKinds
<1>5. ASSUME NEW w \in Worker, k = worker[w].event, Settle(w), worker[w].outcome # "defer"
      PROVE  step'[k.step].status \in TerminalStatuses
  BY <1>5 DEF SettlingKnown, Settle
<1>6. ASSUME NEW w \in Worker, k = worker[w].event, FailEvent(w), Exhausted(outbox[k])
      PROVE  step'[k.step].status \in TerminalStatuses
  <2>1. FailFromOutbox(k)
    BY <1>6 DEF FailEvent, StepKinds, DecisionKinds
  <2>2. CASE StepToFail(k)
    <3>1. step' = [step EXCEPT ![k.step] = Finished(step[k.step], "failed")]
      BY <2>1, <2>2 DEF FailFromOutbox
    <3>2. Finished(step[k.step], "failed").status = "failed"
      BY <1>2, FinishedStatus DEF Inv, TypeOK
    <3>3. QED
      BY <1>2, <3>1, <3>2 DEF TerminalStatuses, Inv, TypeOK
  <2>3. CASE ~StepToFail(k)
    BY <2>1, <2>3 DEF StepToFail, FailFromOutbox
  <2>4. QED
    BY <2>2, <2>3
<1>7. QED
  BY <1>3, <1>4, <1>5, <1>6, UnsettledEnds

\* A worker that is about to complete its event has left its step past execution.
LEMMA SettlingNext ==
    ASSUME Inv, Inv', SettlingKnown, Next
    PROVE  SettlingKnown'
<1> DEFINE Settled(v) == worker'[v].pc = "settling" /\ worker'[v].outcome # "defer"
                           => step'[worker'[v].event.step].status \in TerminalStatuses
<1> SUFFICES ASSUME NEW v \in Worker PROVE Settled(v)
  BY DEF SettlingKnown
<1>1. ASSUME worker'[v] = worker[v] PROVE Settled(v)
  <2> SUFFICES ASSUME worker'[v].pc = "settling", worker'[v].outcome # "defer"
               PROVE  step'[worker'[v].event.step].status \in TerminalStatuses
    OBVIOUS
  <2>1. worker[v].event.step \in Step
    BY <1>1, StepInHand DEF Inv, Justified, ClaimsJustified
  <2>2. step[worker[v].event.step].status \in TerminalStatuses
    BY <1>1 DEF SettlingKnown
  <2>3. QED
    BY <1>1, <2>1, <2>2, StepsNext, TerminalStays
<1>2. ASSUME NEW w \in Worker, NEW state, worker' = [worker EXCEPT ![w] = state],
             state.pc # "settling"
      PROVE  Settled(v)
  <2>1. worker'[v] = IF v = w THEN state ELSE worker[v]
    BY <1>2 DEF Inv, TypeOK
  <2>2. QED
    BY <1>1, <1>2, <2>1
<1>3. ASSUME NEW w \in Worker, NEW pc \in PC \ {"settling"},
             worker' = [worker EXCEPT ![w] = Moved(worker[w], pc, "none")]
      PROVE  Settled(v)
  <2>1. Moved(worker[w], pc, "none").pc = pc
    BY StateUpdates DEF Outcome, Inv, TypeOK
  <2>2. QED
    BY <1>2, <1>3, <2>1
<1>4. ASSUME NEW w \in Worker, ClaimStep(w) PROVE Settled(v)
  <2> DEFINE r == worker[w].event.step
  <2>1. r \in Step /\ worker[w] \in WorkerState
    BY <1>4, StepInHand DEF ClaimStep, Inv, TypeOK
  <2>2. CASE ClaimableStep(step[r])
    <3>1. worker' = [worker EXCEPT ![w] = Holding(worker[w].event, Claimed(step[r], w))]
      BY <1>4, <2>2 DEF ClaimStep
    <3>2. Holding(worker[w].event, Claimed(step[r], w)).pc = "claimed"
      BY DEF Holding
    <3>3. QED
      BY <1>2, <3>1, <3>2
  <2>3. CASE ~ClaimableStep(step[r])
    <3>1. /\ worker' = [worker EXCEPT ![w] = Moved(worker[w], "settling", Disposition(step[r]))]
          /\ step' = step
      BY <1>4, <2>3 DEF ClaimStep
    <3>2. CASE v # w
      BY <1>1, <3>1, <3>2
    <3>3. CASE v = w
      <4>1. /\ worker'[w].event = worker[w].event
            /\ worker'[w].outcome = Disposition(step[r])
        BY <2>1, <3>1 DEF Moved, WorkerState, Inv, TypeOK
      <4>2. Disposition(step[r]) # "defer" => step[r].status \in TerminalStatuses
        BY <2>1, <2>3
        DEF Disposition, ClaimableStep, TerminalStatuses, Inv, TypeOK, StepRow, StepStatus
      <4>3. QED
        BY <3>1, <3>3, <4>1, <4>2
    <3>4. QED
      BY <3>2, <3>3
  <2>4. QED
    BY <2>2, <2>3
<1>5. ASSUME NEW w \in Worker, Finalize(w) PROVE Settled(v)
  <2> DEFINE r == worker[w].event.step
             target == CompletionTarget(r, worker[w].outcome)
  <2>1. r \in Step /\ worker[w] \in WorkerState
    BY <1>5, StepInHand DEF Finalize, Inv, TypeOK, Justified, ClaimsJustified
  <2>2. CASE ClaimCurrent(w)
    <3>1. /\ worker' = [worker EXCEPT ![w] = Moved(worker[w], "settling", "complete")]
          /\ step' = [step EXCEPT ![r] = Finished(step[r], target)]
      BY <1>5, <2>2 DEF Finalize
    <3>2. CASE v # w
      BY <1>1, <3>1, <3>2
    <3>3. CASE v = w
      <4>1. worker'[w].event = worker[w].event
        BY <2>1, <3>1 DEF Moved, WorkerState, Inv, TypeOK
      <4>2. Finished(step[r], target).status \in TerminalStatuses
        BY <2>1, StepRowUpdates
        DEF CompletionTarget, StepStatus, TerminalStatuses, Inv, TypeOK
      <4>3. step'[r] = Finished(step[r], target)
        BY <2>1, <3>1 DEF Inv, TypeOK
      <4>4. QED
        BY <3>3, <4>1, <4>2, <4>3
    <3>4. QED
      BY <3>2, <3>3
  <2>3. CASE ~ClaimCurrent(w)
    BY <1>3, <1>5, <2>3 DEF Finalize, PC
  <2>4. QED
    BY <2>2, <2>3
<1>6. ASSUME NEW w \in Worker, HandleAdvance(w) \/ HandleDecision(w) \/ Settle(w) \/ FailEvent(w)
                                \/ Abandon(w) \/ Crash(w)
      PROVE  Settled(v)
  BY <1>2, <1>6, StateUpdates DEF HandleAdvance, HandleDecision, Settle, FailEvent, Abandon, Crash
<1>7. ASSUME NEW w \in Worker, Prepare(w) \/ Raise(w) PROVE Settled(v)
  BY <1>3, <1>7 DEF Prepare, Raise, PC
<1>8. ASSUME NEW w \in Worker, Execute(w) PROVE Settled(v)
  <2>1. PICK result \in {"succeeded", "failed"} :
          worker' = [worker EXCEPT ![w] = Moved(worker[w], "worked", result)]
    BY <1>8 DEF Execute
  <2>2. Moved(worker[w], "worked", result).pc = "worked"
    BY StateUpdates DEF Outcome, PC, Inv, TypeOK
  <2>3. QED
    BY <1>2, <2>1, <2>2
<1>9. ASSUME NEW w \in Worker, NEW k \in DOMAIN outbox, ClaimEvent(w, k) PROVE Settled(v)
  <2>1. Handling(k).pc = "handling"
    BY StateUpdates DEF Inv, TypeOK
  <2>2. QED
    BY <1>2, <1>9, <2>1 DEF ClaimEvent
<1>10. QED
  BY <1>1, <1>4, <1>5, <1>6, <1>7, <1>8, <1>9
  DEF Next, Work, RenewEvent, EventLeaseRunsOut, EventLeaseLapses, ExpireEvent, ReplayEvent,
      StepLeaseRunsOut, StepLeaseLapses, ExpireStep, HumanAccept, HumanReject, Recover

\* A step is started by its event, and events are never taken away.
LEMMA StartedNext ==
    ASSUME Inv, Inv', StartedByEvent, Next
    PROVE  StartedByEvent'
<1> SUFFICES ASSUME NEW s \in Step, step'[s].status = "running"
             PROVE  \E k \in DOMAIN outbox' : k.kind \in StepKinds /\ k.step = s
  BY DEF StartedByEvent
<1>1. StepsMove /\ DOMAIN outbox \subseteq DOMAIN outbox'
  BY StepsNext, OutboxNext DEF OutboxGrows
<1>2. CASE step[s].status = "running"
  BY <1>1, <1>2 DEF StartedByEvent
<1>3. ASSUME step'[s].status = step[s].status PROVE step[s].status = "running"
  BY <1>3
<1>4. ASSUME NEW r \in Step, NEW row, step' = [step EXCEPT ![r] = row], row.status # "running"
      PROVE  step[s].status = "running"
  <2>1. step'[s] = IF s = r THEN row ELSE step[s]
    BY <1>4 DEF Inv, TypeOK
  <2>2. QED
    BY <1>4, <2>1
<1>5. ASSUME NEW w \in Worker, ClaimStep(w), step[s].status # "running"
      PROVE  \E k \in DOMAIN outbox' : k.kind \in StepKinds /\ k.step = s
  <2> DEFINE k == worker[w].event
  <2>1. k \in DOMAIN outbox /\ k.kind \in StepKinds /\ k.step \in Step
    BY <1>5, EventInHand, StepInHand DEF ClaimStep
  <2>2. step' = step \/ step' = [step EXCEPT ![k.step] = Claimed(step[k.step], w)]
    BY <1>5 DEF ClaimStep
  <2>3. k.step = s
    <3> HIDE DEF k
    <3>1. QED
      BY <1>5, <2>1, <2>2 DEF Inv, TypeOK
  <2>4. QED
    BY <1>1, <2>1, <2>3
<1>6. ASSUME NEW w \in Worker, HandleDecision(w) PROVE step[s].status = "running"
  <2> DEFINE k == worker[w].event
  <2>1. k.step \in Step /\ k.kind \in DecisionKinds
    BY <1>6, StepInHand DEF HandleDecision
  <2>2. step' = step \/ step' = [step EXCEPT ![k.step] = Decided(step[k.step], k.kind)]
    BY <1>6 DEF HandleDecision, DecidedStep
  <2>3. QED
    <3> HIDE DEF k
    <3>1. Decided(step[k.step], k.kind).status # "running"
      BY <2>1, DecidedStatus DEF DecisionTarget, Inv
    <3>2. QED
      BY <1>4, <2>1, <2>2, <3>1
<1>7. ASSUME NEW w \in Worker, Finalize(w) PROVE step[s].status = "running"
  <2> DEFINE r == worker[w].event.step
             target == CompletionTarget(r, worker[w].outcome)
  <2>1. r \in Step
    BY <1>7, StepInHand DEF Finalize, Inv, Justified, ClaimsJustified
  <2>2. step' = step \/ step' = [step EXCEPT ![r] = Finished(step[r], target)]
    BY <1>7 DEF Finalize
  <2>3. Finished(step[r], target).status # "running"
    BY <2>1, StepRowUpdates DEF CompletionTarget, StepStatus, Inv, TypeOK
  <2>4. QED
    <3> HIDE DEF r, target
    <3>1. QED
      BY <1>4, <2>1, <2>2, <2>3
<1>8. ASSUME NEW w \in Worker, FailEvent(w) PROVE step[s].status = "running"
  <2> DEFINE k == worker[w].event
  <2>1. CASE step' = step
    BY <2>1
  <2>2. CASE step' # step
    <3>1. k.kind \in StepKinds /\ step' = [step EXCEPT ![k.step] = Finished(step[k.step], "failed")]
      BY <1>8, <2>2 DEF FailEvent, FailFromOutbox, StepToFail
    <3>2. k.step \in Step
      BY <1>8, <3>1, StepInHand DEF FailEvent
    <3>3. Finished(step[k.step], "failed").status = "failed"
      BY <3>2, FinishedStatus DEF Inv, TypeOK
    <3> HIDE DEF k
    <3>4. QED
      BY <1>4, <3>1, <3>2, <3>3
  <2>3. QED
    BY <2>1, <2>2
<1>9. ASSUME NEW r \in Step, HumanAccept(r) PROVE step[s].status = "running"
  <2>1. step' = [step EXCEPT ![r] = Decided(step[r], "accept")]
    BY <1>9 DEF HumanAccept, DecidedStep, Decidable
  <2>2. Decided(step[r], "accept").status # "running"
    BY DecidedStatus DEF DecisionTarget, DecisionKinds, Inv
  <2>3. QED
    BY <1>4, <2>1, <2>2
<1>10. ASSUME NEW r \in Step, ExpireStep(r) PROVE step[s].status = "running"
  BY <1>10 DEF ExpireStep, Inv, TypeOK, StepRow
<1>11. QED
  BY <1>2, <1>3, <1>5, <1>6, <1>7, <1>8, <1>9, <1>10
  DEF Next, Work, HandleAdvance, Prepare, Execute, Settle, Raise, Abandon, Crash, RenewEvent,
      ClaimEvent, EventLeaseRunsOut, EventLeaseLapses, ExpireEvent, ReplayEvent,
      StepLeaseRunsOut, StepLeaseLapses, HumanReject, Recover

\* The advance events a step of the system adds are about a step that it completes.
LEMMA NewAdvances ==
    ASSUME Inv, Next, NEW k \in DOMAIN outbox' \ DOMAIN outbox, k.kind \in AdvanceKinds
    PROVE  k.step \in Step /\ step'[k.step].status = "succeeded"
<1> DEFINE Goal == k.step \in Step /\ step'[k.step].status = "succeeded"
<1>1. ASSUME NEW keys, outbox' = EnqueueAll(outbox, keys),
             \A j \in keys : j.kind \notin AdvanceKinds
      PROVE  FALSE
  BY <1>1 DEF EnqueueAll
<1>2. ASSUME NEW keys, NEW e \in DOMAIN outbox, NEW row,
             outbox' = [EnqueueAll(outbox, keys) EXCEPT ![e] = row]
      PROVE  k \in keys
  BY <1>2 DEF EnqueueAll
<1>3. ASSUME NEW keys, outbox' = EnqueueAll(outbox, keys) PROVE k \in keys
  BY <1>3 DEF EnqueueAll
<1>4. ASSUME NEW e \in DOMAIN outbox, NEW row, outbox' = [outbox EXCEPT ![e] = row] PROVE FALSE
  BY <1>4
<1>5. ASSUME NEW d \in DecisionKinds, NEW s \in Step, NEW n, k \in DecidedKeys(d, s, n),
             step' = DecidedStep(d, s, n)
      PROVE  Goal
  <2>1. k = ResumeKey(s, n) /\ d = "accept" /\ Decidable(s, n)
    BY <1>5 DEF DecidedKeys
  <2>2. step'[s] = Decided(step[s], d)
    BY <1>5, <2>1 DEF DecidedStep, Inv, TypeOK
  <2>3. Decided(step[s], d).status = "succeeded"
    BY <2>1, DecidedStatus DEF DecisionTarget, Inv
  <2>4. QED
    BY <2>1, <2>2, <2>3 DEF ResumeKey
<1>6. ASSUME NEW w \in Worker, HandleAdvance(w) PROVE FALSE
  <2>1. worker[w].event \in DOMAIN outbox
    BY <1>6, EventInHand DEF HandleAdvance
  <2>2. k \in ReadyKeys(run')
    BY <1>2, <1>6, <2>1 DEF HandleAdvance
  <2>3. QED
    BY <2>2 DEF ReadyKeys, ExecuteKey, AdvanceKinds
<1>7. ASSUME NEW w \in Worker, HandleDecision(w) PROVE Goal
  <2> DEFINE e == worker[w].event
  <2>1. e \in DOMAIN outbox /\ e.step \in Step /\ e.kind \in DecisionKinds
    BY <1>7, EventInHand, StepInHand DEF HandleDecision
  <2>2. k \in DecidedKeys(e.kind, e.step, e.n)
    BY <1>2, <1>7, <2>1 DEF HandleDecision
  <2>3. step' = DecidedStep(e.kind, e.step, e.n)
    BY <1>7 DEF HandleDecision
  <2>4. QED
    <3> HIDE DEF e, Goal
    <3>1. QED
      BY <1>5, <2>1, <2>2, <2>3
<1>8. ASSUME NEW w \in Worker, Finalize(w) PROVE Goal
  <2> DEFINE r == worker[w].event.step
             target == CompletionTarget(r, worker[w].outcome)
  <2>1. r \in Step
    BY <1>8, StepInHand DEF Finalize, Inv, Justified, ClaimsJustified
  <2>2. /\ step' = [step EXCEPT ![r] = Finished(step[r], target)]
        /\ outbox' = EnqueueAll(outbox, AdvanceKeys(r, target, step[r].attempt))
    BY <1>8 DEF Finalize
  <2>3. target = "succeeded" /\ k = AdvanceKey(r, step[r].attempt)
    BY <1>3, <2>2 DEF AdvanceKeys
  <2>4. Finished(step[r], "succeeded").status = "succeeded"
    BY <2>1, FinishedStatus DEF Inv, TypeOK
  <2>5. step'[r] = Finished(step[r], "succeeded")
    BY <2>1, <2>2, <2>3 DEF Inv, TypeOK
  <2>6. QED
    BY <2>1, <2>3, <2>4, <2>5 DEF AdvanceKey
<1>9. ASSUME NEW s \in Step, HumanAccept(s) PROVE Goal
  <2>1. k \in {DecisionKey("accept", s, step[s].version)}
              \cup DecidedKeys("accept", s, step[s].version)
    BY <1>3, <1>9 DEF HumanAccept
  <2>2. k \in DecidedKeys("accept", s, step[s].version)
    BY <2>1 DEF DecisionKey, AdvanceKinds
  <2>3. QED
    <3> HIDE DEF Goal
    <3>1. QED
      BY <1>5, <1>9, <2>2 DEF HumanAccept, DecisionKinds
<1>10. ASSUME NEW s \in Step, HumanReject(s) PROVE FALSE
  BY <1>1, <1>10 DEF HumanReject, DecisionKey, AdvanceKinds
<1>11. ASSUME Recover PROVE FALSE
  BY <1>1, <1>11 DEF Recover, RecoverKeys, RecoverKey, AdvanceKinds
<1>12. Goal
  <2> HIDE DEF Goal
  <2>1. QED
    BY <1>4, <1>6, <1>7, <1>8, <1>9, <1>10, <1>11, EventInHand
    DEF Next, Work, ClaimStep, Prepare, Execute, Settle, FailEvent, Raise, Abandon, Crash,
        RenewEvent, ClaimEvent, EventLeaseRunsOut, EventLeaseLapses, ExpireEvent, ReplayEvent,
        StepLeaseRunsOut, StepLeaseLapses, ExpireStep, Busy
<1>13. QED
  BY <1>12

\* An advance is asked for by a step that has succeeded, and that does not change.
LEMMA FreshNext ==
    ASSUME Inv, AdvancesAreFresh, Next
    PROVE  AdvancesAreFresh'
<1> SUFFICES ASSUME NEW k \in DOMAIN outbox', k.kind \in AdvanceKinds, k.step \in Step
             PROVE  step'[k.step].status = "succeeded"
  BY DEF AdvancesAreFresh
<1>1. CASE k \in DOMAIN outbox
  BY <1>1, StepsNext, SucceededStays DEF AdvancesAreFresh
<1>2. CASE k \notin DOMAIN outbox
  BY <1>2, NewAdvances
<1>3. QED
  BY <1>1, <1>2

\* What will start step s, should it be ready: an advance on its way, an event of its own,
\* a human, or nothing, because the run has failed.
Waiting == \E t \in Step : step[t].status = "waiting_human"
AdvanceComing == \E k \in DOMAIN outbox : k.kind \in AdvanceKinds /\ Unsettled(outbox[k])
EventFor(s) == \E k \in DOMAIN outbox : k.kind \in StepKinds /\ k.step = s

WillStart(s) == run = "failed" \/ Waiting \/ AdvanceComing \/ EventFor(s)

Idling(s) == step[s].status = "queued" /\ DepsSucceeded(step, s)

Remembered == \A s \in Step : Idling(s) => WillStart(s)

\* Events for a step stay in the table.
LEMMA EventsStay ==
    ASSUME Inv, Next, NEW s
    PROVE  EventFor(s) => EventFor(s)'
  BY OutboxNext DEF OutboxGrows, EventFor

\* An advance event is handled, or its attempts are used up.
AdvanceTaken ==
    \E w \in Worker :
        \/ HandleAdvance(w)
        \/ /\ FailEvent(w)
           /\ worker[w].event.kind \in AdvanceKinds
           /\ Exhausted(outbox[worker[w].event])

\* An advance that is not taken keeps coming.
LEMMA AdvanceStays ==
    ASSUME Inv, Next, AdvanceComing, ~AdvanceTaken
    PROVE  AdvanceComing'
<1>1. PICK k \in DOMAIN outbox : k.kind \in AdvanceKinds /\ Unsettled(outbox[k])
  BY DEF AdvanceComing
<1>2. k \in DOMAIN outbox'
  BY OutboxNext DEF OutboxGrows
<1>3. ASSUME NEW w \in Worker, k = worker[w].event, HandleDecision(w) \/ Settle(w) PROVE FALSE
  BY <1>1, <1>3
  DEF HandleDecision, Settle, AdvanceKinds, StepKinds, DecisionKinds, Inv, Justified, ClaimsJustified
<1>4. Unsettled(outbox'[k])
  BY <1>1, <1>2, <1>3, UnsettledEnds DEF AdvanceTaken
<1>5. QED
  BY <1>1, <1>2, <1>4 DEF AdvanceComing

\* Nothing changes for the steps, and the run stays failed if it was.
LEMMA RememberedWhenQuiet ==
    ASSUME Inv, Inv', Next, Remembered, NEW s \in Step, Idling(s)',
           \A t \in Step : SameStatus(t) \/ step'[t].status = "running",
           ~\E t \in Step : step[t].status = "waiting_human" /\ step'[t].status = "running",
           run = "failed" => run' = "failed", ~AdvanceTaken
    PROVE  WillStart(s)'
<1>1. Idling(s)
  BY DEF Idling, DepsSucceeded, Succeeded, SameStatus
<1>2. WillStart(s)
  BY <1>1 DEF Remembered
<1>3. Waiting => Waiting'
  BY DEF Waiting, SameStatus
<1>4. QED
  BY <1>2, <1>3, EventsStay, AdvanceStays DEF WillStart

\* An event that was not in the table yet.
LEMMA FreshComes ==
    ASSUME NEW k \in DOMAIN outbox', outbox'[k] = NewRow, k.kind \in AdvanceKinds
    PROVE  AdvanceComing'
  BY DEF AdvanceComing, Unsettled, NewRow

\* A decision leaves the run failed, or a fresh advance.
LEMMA RememberedWhenDecided ==
    ASSUME Inv, Inv', AdvancesAreFresh, NEW d \in DecisionKinds, NEW r \in Step, NEW n \in Nat,
           Decidable(r, n), step' = DecidedStep(d, r, n), run' = DecidedRun(d, r, n),
           d = "accept" => ResumeKey(r, n) \in DOMAIN outbox',
           d = "accept" /\ ResumeKey(r, n) \notin DOMAIN outbox => outbox'[ResumeKey(r, n)] = NewRow
    PROVE  run' = "failed" \/ AdvanceComing'
<1>1. step'[r] = Decided(step[r], d) /\ Decided(step[r], d).status = DecisionTarget(d)
  BY DecidedStatus DEF DecidedStep, Inv, TypeOK
<1>2. CASE d = "accept"
  <2>1. ResumeKey(r, n).kind \in AdvanceKinds /\ ResumeKey(r, n).step = r
    BY DEF ResumeKey, AdvanceKinds
  <2>2. ResumeKey(r, n) \notin DOMAIN outbox
    BY <2>1 DEF AdvancesAreFresh, Decidable
  <2>3. QED
    BY <1>2, <2>1, <2>2, FreshComes
<1>3. CASE d = "reject"
  <2>1. step'[r].status = "failed"
    BY <1>1, <1>3 DEF DecisionTarget
  <2>2. run' = DeriveRunStatus(step')
    BY DEF DecidedRun
  <2>3. \A t \in Step : step'[t].status \in StepStatus
    BY DEF Inv, TypeOK, StepRow
  <2>4. run' = "failed"
    BY <2>1, <2>2, <2>3, DerivedReflects DEF Reflects
  <2>5. QED
    BY <2>4
<1>4. QED
  BY <1>2, <1>3 DEF DecisionKinds

\* A ready step has its event or an advance coming, unless the run failed or waits for a human.
LEMMA RememberedNext ==
    ASSUME Inv, Inv', AdvancesAreFresh, Remembered, Next
    PROVE  Remembered'
<1> SUFFICES ASSUME NEW s \in Step, Idling(s)' PROVE WillStart(s)'
  BY DEF Remembered
<1>1. \A t \in Step : step'[t].status \in StepStatus
  BY DEF Inv, TypeOK, StepRow
<1>2. ASSUME NEW r \in Step, run' = DeriveRunStatus(step'), step'[r].status = "failed"
      PROVE  WillStart(s)'
  BY <1>1, <1>2, DerivedReflects DEF Reflects, WillStart
<1>3. ASSUME NEW w \in Worker, HandleAdvance(w) PROVE WillStart(s)'
  <2> DEFINE k == worker[w].event
  <2>1. /\ run' = DeriveRunStatus(step) /\ step' = step
        /\ outbox' = [EnqueueAll(outbox, ReadyKeys(run')) EXCEPT ![k] = CompleteRow(@, w)]
    BY <1>3 DEF HandleAdvance
  <2>2. run' # "succeeded" /\ (run' = "waiting_human" => Waiting')
    BY <1>1, <2>1, DerivedReflects DEF Reflects, Idling, Waiting
  <2>3. CASE run' \notin {"succeeded", "failed", "waiting_human"}
    <3>1. ExecuteKey(s, step[s].version) \in ReadyKeys(run')
      BY <2>1, <2>3 DEF ReadyKeys, ReadySteps, ClaimableStep, Idling
    <3>2. ExecuteKey(s, step[s].version) \in DOMAIN outbox'
      BY <2>1, <3>1 DEF EnqueueAll
    <3>3. EventFor(s)'
      BY <3>2 DEF EventFor, ExecuteKey, StepKinds
    <3>4. QED
      BY <3>3 DEF WillStart
  <2>4. QED
    BY <2>2, <2>3 DEF WillStart
<1>4. ASSUME NEW w \in Worker, FailEvent(w), Exhausted(outbox[worker[w].event]),
             worker[w].event.kind \notin DecisionKinds
      PROVE  WillStart(s)'
  <2> DEFINE k == worker[w].event
  <2>1. FailFromOutbox(k)
    BY <1>4 DEF FailEvent
  <2>2. CASE StepToFail(k)
    <3>1. /\ step' = [step EXCEPT ![k.step] = Finished(step[k.step], "failed")]
          /\ run' = DeriveRunStatus(step')
      BY <2>1, <2>2 DEF FailFromOutbox
    <3>2. k.step \in Step
      BY <1>4, <2>2, StepInHand DEF FailEvent, StepToFail
    <3>3. Finished(step[k.step], "failed").status = "failed"
      BY <3>2, FinishedStatus DEF Inv, TypeOK
    <3>4. step'[k.step].status = "failed"
      BY <3>1, <3>2, <3>3 DEF Inv, TypeOK
    <3>5. QED
      BY <1>2, <3>1, <3>2, <3>4
  <2>3. CASE ~StepToFail(k)
    BY <2>1, <2>3 DEF FailFromOutbox, WillStart
  <2>4. QED
    BY <2>2, <2>3
<1>5. CASE AdvanceTaken
  BY <1>3, <1>4, <1>5 DEF AdvanceTaken, AdvanceKinds, DecisionKinds
<1>6. CASE ~AdvanceTaken
  <2>1. ASSUME \A t \in Step : SameStatus(t), run' = run PROVE WillStart(s)'
    BY <1>6, <2>1, RememberedWhenQuiet DEF SameStatus
  <2>2. ASSUME NEW w \in Worker, HandleDecision(w) PROVE WillStart(s)'
    <3>1. PICK k \in DOMAIN outbox : k = worker[w].event
      BY <2>2, EventInHand DEF HandleDecision
    <3>2. /\ k.step \in Step /\ k.kind \in DecisionKinds /\ k.n \in Nat
          /\ step' = DecidedStep(k.kind, k.step, k.n)
          /\ run' = DecidedRun(k.kind, k.step, k.n)
          /\ outbox' = [EnqueueAll(outbox, DecidedKeys(k.kind, k.step, k.n))
                           EXCEPT ![k] = CompleteRow(@, w)]
      BY <2>2, <3>1, StepInHand DEF HandleDecision
    <3>3. CASE Decidable(k.step, k.n)
      <4> DEFINE j == ResumeKey(k.step, k.n)
      <4>1. j # k /\ (k.kind = "accept" => DecidedKeys(k.kind, k.step, k.n) = {j})
        BY <3>2, <3>3 DEF ResumeKey, DecisionKinds, DecidedKeys
      <4>2. k.kind = "accept" => /\ j \in DOMAIN outbox'
                                 /\ j \notin DOMAIN outbox => outbox'[j] = NewRow
        <5> HIDE DEF j
        <5>1. QED
          BY <3>2, <4>1 DEF EnqueueAll
      <4>3. run' = "failed" \/ AdvanceComing'
        BY <3>2, <3>3, <4>2, RememberedWhenDecided
      <4>4. QED
        BY <4>3 DEF WillStart
    <3>4. CASE ~Decidable(k.step, k.n)
      BY <2>1, <3>2, <3>4 DEF DecidedStep, DecidedRun, SameStatus
    <3>5. QED
      BY <3>3, <3>4
  <2>3. ASSUME NEW r \in Step, HumanAccept(r) PROVE WillStart(s)'
    <3> DEFINE n == step[r].version
               j == ResumeKey(r, n)
    <3>1. /\ Decidable(r, n) /\ n \in Nat
          /\ step' = DecidedStep("accept", r, n)
          /\ run' = DecidedRun("accept", r, n)
          /\ outbox' = EnqueueAll(outbox, {DecisionKey("accept", r, n)}
                                             \cup DecidedKeys("accept", r, n))
      BY <2>3 DEF HumanAccept, Decidable, Inv, TypeOK, StepRow
    <3>2. j \in DecidedKeys("accept", r, n)
      BY <3>1 DEF DecidedKeys
    <3>3. /\ j \in DOMAIN outbox'
          /\ j \notin DOMAIN outbox => outbox'[j] = NewRow
      <4> HIDE DEF j
      <4>1. QED
        BY <3>1, <3>2 DEF EnqueueAll
    <3>4. QED
      <4> HIDE DEF n
      <4>1. QED
        BY <3>1, <3>3, RememberedWhenDecided DEF WillStart, DecisionKinds
  <2>4. ASSUME NEW w \in Worker, Finalize(w) PROVE WillStart(s)'
    <3> DEFINE r == worker[w].event.step
               target == CompletionTarget(r, worker[w].outcome)
               j == AdvanceKey(r, step[r].attempt)
    <3>1. r \in Step
      BY <2>4, StepInHand DEF Finalize, Inv, Justified, ClaimsJustified
    <3>2. CASE ClaimCurrent(w)
      <4>1. /\ step[r].status = "running"
            /\ step' = [step EXCEPT ![r] = Finished(step[r], target)]
            /\ run' = DeriveRunStatus(step')
            /\ outbox' = EnqueueAll(outbox, AdvanceKeys(r, target, step[r].attempt))
        BY <2>4, <3>2 DEF Finalize, ClaimCurrent
      <4>2. Finished(step[r], target).status = target
        BY <3>1, StepRowUpdates DEF CompletionTarget, StepStatus, Inv, TypeOK
      <4>3. step'[r].status = target
        BY <3>1, <4>1, <4>2 DEF Inv, TypeOK
      <4>4. CASE target = "failed"
        BY <1>2, <3>1, <4>1, <4>3, <4>4
      <4>5. CASE target = "waiting_human"
        BY <3>1, <4>3, <4>5 DEF WillStart, Waiting
      <4>6. CASE target = "succeeded"
        <5>1. j.kind \in AdvanceKinds /\ j.step = r /\ j \in AdvanceKeys(r, target, step[r].attempt)
          BY <4>6 DEF AdvanceKey, AdvanceKinds, AdvanceKeys
        <5>2. j \notin DOMAIN outbox
          BY <3>1, <4>1, <5>1 DEF AdvancesAreFresh
        <5>3. j \in DOMAIN outbox' /\ outbox'[j] = NewRow
          <6> HIDE DEF j
          <6>1. QED
            BY <4>1, <5>1, <5>2 DEF EnqueueAll
        <5>4. QED
          BY <5>1, <5>3, FreshComes DEF WillStart
      <4>7. QED
        BY <4>4, <4>5, <4>6 DEF CompletionTarget
    <3>3. CASE ~ClaimCurrent(w)
      BY <2>1, <2>4, <3>3 DEF Finalize, SameStatus
    <3>4. QED
      BY <3>2, <3>3
  <2>5. ASSUME NEW w \in Worker, ClaimStep(w) PROVE WillStart(s)'
    <3> DEFINE r == worker[w].event.step
    <3>1. CASE ClaimableStep(step[r])
      <4>1. /\ step' = [step EXCEPT ![r] = Claimed(step[r], w)]
            /\ run = "failed" => run' = "failed"
        BY <2>5, <3>1 DEF ClaimStep
      <4>2. r \in Step /\ step[r].status \in {"queued", "running"}
        BY <2>5, <3>1, StepInHand DEF ClaimStep, ClaimableStep, ExpiredStep
      <4>3. Claimed(step[r], w).status = "running"
        BY DEF Claimed
      <4>4. /\ \A t \in Step : SameStatus(t) \/ step'[t].status = "running"
            /\ ~\E t \in Step : step[t].status = "waiting_human" /\ step'[t].status = "running"
        <5> HIDE DEF r
        <5>1. \A t \in Step : step'[t] = IF t = r THEN Claimed(step[r], w) ELSE step[t]
          BY <4>1, <4>2 DEF Inv, TypeOK
        <5>2. QED
          BY <4>2, <4>3, <5>1 DEF SameStatus
      <4>5. QED
        BY <1>6, <4>1, <4>4, RememberedWhenQuiet
    <3>2. CASE ~ClaimableStep(step[r])
      BY <2>1, <2>5, <3>2 DEF ClaimStep, SameStatus
    <3>3. QED
      BY <3>1, <3>2
  <2>6. ASSUME NEW w \in Worker, FailEvent(w) PROVE WillStart(s)'
    <3>1. CASE Exhausted(outbox[worker[w].event]) /\ worker[w].event.kind \notin DecisionKinds
      BY <1>4, <2>6, <3>1
    <3>2. CASE ~(Exhausted(outbox[worker[w].event]) /\ worker[w].event.kind \notin DecisionKinds)
      BY <2>1, <2>6, <3>2 DEF FailEvent, SameStatus
    <3>3. QED
      BY <3>1, <3>2
  <2>7. ASSUME NEW r \in Step, ExpireStep(r) PROVE WillStart(s)'
    <3>1. \A t \in Step : SameStatus(t)
      BY <2>7 DEF ExpireStep, SameStatus, Inv, TypeOK, StepRow
    <3>2. QED
      BY <2>1, <2>7, <3>1 DEF ExpireStep
  <2>8. QED
    BY <1>3, <2>1, <2>2, <2>3, <2>4, <2>5, <2>6, <2>7
    DEF Next, Work, Prepare, Execute, Settle, Raise, Abandon, Crash, RenewEvent, ClaimEvent,
        EventLeaseRunsOut, EventLeaseLapses, ExpireEvent, ReplayEvent, StepLeaseRunsOut,
        StepLeaseLapses, HumanReject, Recover, SameStatus
<1>7. QED
  BY <1>5, <1>6

\* What keeps the trigger of a ready step from being lost.
Triggers == Records /\ Remembered

\* At first the start event is pending and every step waits for it.
LEMMA TriggersInit == Init => Triggers
<1> SUFFICES ASSUME Init PROVE Triggers
  OBVIOUS
<1>1. \A s \in Step : step[s].status = "queued"
  BY DEF Init, NewStep
<1>2. /\ DOMAIN outbox = {StartKey} /\ outbox[StartKey] = NewRow
      /\ StartKey.kind = "advance" /\ StartKey.step = NoStep
  BY DEF Init, StartKey
<1>3. \A w \in Worker : worker[w].pc = "idle"
  BY StateUpdates DEF Init
<1>4. AdvanceComing
  BY <1>2 DEF AdvanceComing, AdvanceKinds, Unsettled, NewRow
<1>5. SpentEvents /\ AdvancesAreFresh
  BY <1>2, NoStepAssumption DEF SpentEvents, AdvancesAreFresh, StepKinds
<1>6. SettlingKnown /\ StartedByEvent
  BY <1>1, <1>3 DEF SettlingKnown, StartedByEvent
<1>7. QED
  BY <1>4, <1>5, <1>6 DEF Triggers, Records, Remembered, WillStart

\* The triggers are inductive.
LEMMA TriggersNext ==
    ASSUME Inv, Inv', Triggers, [Next]_vars
    PROVE  Triggers'
<1>1. CASE Next
  BY <1>1, SpentNext, SettlingNext, StartedNext, FreshNext, RememberedNext DEF Triggers, Records
<1>2. CASE UNCHANGED vars
  <2>1. Records'
    BY <1>2
    DEF vars, Triggers, Records, SpentEvents, SettlingKnown, StartedByEvent, AdvancesAreFresh
  <2>2. Remembered'
    <3> SUFFICES ASSUME NEW s \in Step, Idling(s)' PROVE WillStart(s)'
      BY DEF Remembered
    <3>1. Idling(s)
      BY <1>2 DEF vars, Idling, DepsSucceeded, Succeeded
    <3>2. WillStart(s)
      BY <3>1 DEF Triggers, Remembered
    <3>3. QED
      BY <1>2, <3>2 DEF vars, WillStart, Waiting, AdvanceComing, EventFor
  <2>3. QED
    BY <2>1, <2>2 DEF Triggers
<1>3. QED
  BY <1>1, <1>2

\* A ready step has its trigger.
LEMMA TriggersSuffice == Inv /\ Triggers => NoLostTrigger
<1> SUFFICES ASSUME Inv, Triggers, NEW s \in ReadySteps(step), run # "failed", ~Waiting, ~AdvanceComing
             PROVE  \E k \in DOMAIN outbox :
                       Unsettled(outbox[k]) /\ k.kind \in StepKinds /\ k.step = s
  BY DEF NoLostTrigger, Waiting, AdvanceComing
<1>1. s \in Step /\ step[s].status \in {"queued", "running"} /\ DepsSucceeded(step, s)
  BY DEF ReadySteps, ClaimableStep, ExpiredStep
<1>2. EventFor(s)
  BY <1>1 DEF Triggers, Records, StartedByEvent, Remembered, Idling, WillStart, EventFor
<1>3. PICK k \in DOMAIN outbox : k.kind \in StepKinds /\ k.step = s
  BY <1>2 DEF EventFor
<1>4. Unsettled(outbox[k])
  BY <1>1, <1>3 DEF Triggers, Records, SpentEvents, TerminalStatuses
<1>5. QED
  BY <1>3, <1>4

\* No ready step is forgotten, whatever crashes, expires, is deferred, dead-lettered or
\* replayed between its turning ready and its execution.
THEOREM TriggersSurvive == Spec => []NoLostTrigger
  BY TriggersInit, TriggersNext, TriggersSuffice, Invariance, PTL DEF Spec
=============================================================================
