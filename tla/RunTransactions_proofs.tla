------------------------ MODULE RunTransactions_proofs ------------------------
(***************************************************************************)
(* Proofs about RunTransactions: for any number of transactions and steps  *)
(* and any dependencies, however the statements interleave.                *)
(*                                                                         *)
(* fail_from_outbox writes a step without a guard, and a fault may make it *)
(* do so; the theorems that do not survive this say so: `retired = {}' is  *)
(* that it has not happened yet, `faults = 0' that nothing went wrong yet. *)
(***************************************************************************)
EXTENDS RunTransactions, TLAPS

TxnAssumption == TxnNoStepAssumption /\ TxnStepAssumption /\ TxnDepAssumption /\ TxnBoundAssumption

-----------------------------------------------------------------------------
(* The inductive invariants. *)

Fences == {"claim", "finalize", "decide"}

\* What a transaction of each kind is about.
Kinds ==
    \A t \in Txn : LET x == txn[t]
                   IN  /\ x.pc = "idle" <=> x.kind = "none"
                       /\ x.kind \in Fences \cup {"fail"} => x.step \in Step
                       /\ x.kind = "claim" => x.to = "running"
                       /\ x.kind = "finalize" => x.to \in {"succeeded", "waiting_human", "failed"}
                       /\ x.kind = "decide" => x.to \in {"succeeded", "failed"}

\* A step is locked by one transaction at a time.
Exclusive == \A t, u \in Txn, s \in Step : LocksStep(txn[t], s) /\ LocksStep(txn[u], s) => t = u

\* A step that a transaction fenced stays as the fence found it.
Guarded ==
    \A t \in Txn : LET x == txn[t]
                   IN  x.kind \in Fences =>
                          /\ row[x.step].version = x.version
                          /\ x.kind = "claim" => row[x.step].status \in {"queued", "running"}
                          /\ x.kind = "finalize" => row[x.step].status = "running"
                          /\ x.kind = "decide" => row[x.step].status = "waiting_human"

Basics == TypeOK /\ Kinds /\ Exclusive /\ Guarded

Met(st, s) == \A d \in Dep[s] : st[d].status = "succeeded"

\* What starts a step has seen its dependencies succeed: the row that is no longer queued,
\* the event that asks for it and the transaction that claims it.
Ordered ==
    retired = {} =>
        /\ \A s \in Step : row[s].status # "queued" => Met(row, s)
        /\ \A e \in pending : e.kind = "execute" => e.step \in Step /\ Met(row, e.step)
        /\ \A t \in Txn : txn[t].kind = "claim" => Met(row, txn[t].step)

\* Why a run may be failed.
Reason == retired # {} \/ \E s \in Step : row[s].status = "failed"

\* The run is failed for a reason, and so is what a transaction read or means to write.
Founded ==
    /\ run.status = "failed" => Reason
    /\ \A t \in Txn : LET x == txn[t]
                      IN  /\ x.seen.status = "failed" => Reason
                          /\ x.pc # "open" /\ x.status = "failed" =>
                                 Reason \/ x.kind = "fail" \/ (WritesStep(x) /\ x.to = "failed")

\* Without a fault nothing fails and no claim is lost: a running step is on its first claim.
Flawless ==
    faults = 0 =>
        /\ exhausted = {} /\ retired = {}
        /\ \A s \in Step : row[s].status \in {"queued", "running", "succeeded"}
        /\ \A c \in claims : Fenced(c)
        /\ \A t \in Txn : LET x == txn[t]
                          IN  /\ x.kind \in {"none", "claim", "finalize", "advance"}
                              /\ x.kind = "claim" => row[x.step].status = "queued"
                              /\ x.kind = "finalize" => x.to = "succeeded"

Started == \E s \in Step : row[s].status # "queued"
AllDone == \A s \in Step : row[s].status = "succeeded"

Advance(s, v) == [kind |-> "advance", step |-> s, version |-> v]

\* An advance is pending until its one handler commits; one for a step comes after that step,
\* the first one before all steps.
Advances ==
    faults = 0 =>
        /\ \A e \in pending : e.kind = "advance" =>
               IF e.step \in Step THEN row[e.step].status = "succeeded"
               ELSE /\ e.version = 0 /\ ~Started
                    /\ \A f \in pending : f.kind # "execute"
                    /\ \A t \in Txn : txn[t].kind # "claim"
        /\ \A t \in Txn : txn[t].kind = "advance" => Advance(txn[t].step, txn[t].version) \in pending
        /\ \A t, u \in Txn : /\ txn[t].kind = "advance" /\ txn[u].kind = "advance"
                             /\ txn[t].step = txn[u].step /\ txn[t].version = txn[u].version
                             => t = u

\* What a transaction read of the run, and what it derived, lags behind the steps but never
\* runs ahead of them.
ReadRun(x) ==
    /\ x.seen.status \in {"queued", "running", "succeeded"}
    /\ x.seen.status # "queued" => Started
    /\ x.seen.status = "succeeded" => run.status = "succeeded"
    /\ x.kind = "finalize" => x.seen.status = "running"
    /\ x.kind = "advance" => (x.step \in Step <=> x.seen.status # "queued")

ReadSteps(x) ==
    /\ x.kind = "claim" =>
           x.status = IF x.seen.status = "queued" THEN "running" ELSE x.seen.status
    /\ x.kind = "finalize" =>
           /\ x.status \in {"running", "succeeded"}
           /\ x.status = "succeeded" => \A s \in Step : s # x.step => row[s].status = "succeeded"
    /\ x.kind = "advance" =>
           /\ x.status = "queued" <=> x.seen.status = "queued"
           /\ x.status \in {"queued", "running", "succeeded"}
           /\ x.status = "succeeded" => AllDone
           /\ x.seen.status = "succeeded" => x.status = "succeeded"

Reads ==
    faults = 0 => \A t \in Txn : txn[t].kind # "none" =>
                      ReadRun(txn[t]) /\ (txn[t].pc # "open" => ReadSteps(txn[t]))

\* A run that all its steps have finished and that does not tell it yet has an advance
\* pending whose handler, if it has begun, saw or will see every step done.
Repaired ==
    faults = 0 /\ AllDone /\ run.status # "succeeded" =>
        \E e \in pending : /\ e.kind = "advance" /\ e.step \in Step
                           /\ \A t \in Txn : txn[t].kind = "advance" /\ txn[t].step = e.step
                                             /\ txn[t].version = e.version =>
                                  txn[t].pc = "open" \/ txn[t].status = "succeeded"

\* The run tells what the steps say, but for the end, which an advance brings.
Told ==
    faults = 0 =>
        /\ run.status \in {"queued", "running", "succeeded"}
        /\ run.status = "queued" <=> ~Started
        /\ run.status = "succeeded" => AllDone

Telling == Flawless /\ Advances /\ Reads /\ Told /\ Repaired

-----------------------------------------------------------------------------
(* What a step does. *)

\* A transaction is opened for a reason.
Opens(t, kind, s, v, to) ==
    /\ txn[t].pc = "idle" /\ txn' = [txn EXCEPT ![t] = Opened(kind, s, v, to)]
    /\ UNCHANGED <<row, input, run, pending, claims, exhausted, retired, card>>
    /\ \/ faults' = faults
       \/ faults < MaxFaults /\ faults' = faults + 1
    /\ v \in Nat /\ to \in Status
    /\ \/ /\ kind = "claim" /\ s \in Step /\ StepFree(t, s) /\ v = row[s].version /\ to = "running"
          /\ \/ /\ [kind |-> "execute", step |-> s, version |-> v] \in pending /\ row[s].status = "queued"
                /\ faults' = faults
             \/ row[s].status = "running" /\ faults' = faults + 1
       \/ /\ kind = "finalize" /\ s \in Step /\ StepFree(t, s)
          /\ row[s].status = "running" /\ row[s].version = v
          /\ \/ to = "failed" /\ faults' = faults + 1
             \/ to = IF s \in RedLine THEN "waiting_human" ELSE "succeeded"
       \/ /\ kind = "decide" /\ s \in Step /\ StepFree(t, s)
          /\ row[s].status = "waiting_human" /\ row[s].version = v
          /\ to \in {"succeeded", "failed"} /\ (to = "failed" => faults' = faults + 1)
       \/ kind = "fail" /\ s \in exhausted
       \/ /\ kind = "advance" /\ [kind |-> "advance", step |-> s, version |-> v] \in pending
          /\ NotHandled("advance", s, v)

\* A transaction goes on: it keeps what it is about.
GoesOn(t) ==
    /\ txn' \in [Txn -> TxnState]
    /\ UNCHANGED <<row, input, run, pending, claims, exhausted, retired, card, faults>>
    /\ txn[t].pc # "idle" /\ txn'[t].pc \in {"derived", "written", "piped"}
    /\ txn'[t].kind = txn[t].kind /\ txn'[t].step = txn[t].step /\ txn'[t].version = txn[t].version
    /\ txn'[t].to = txn[t].to /\ txn'[t].seen = txn[t].seen
    /\ \A u \in Txn : u # t => txn'[u] = txn[u]
    /\ \/ txn[t].pc = "open" /\ txn'[t].status = StatusFor(t)
       \/ txn[t].pc # "open" /\ txn'[t].status = txn[t].status
    /\ txn[t].pc = "open" /\ txn[t].kind = "fail" /\ WritesStep(txn[t]) => StepFree(t, txn[t].step)

\* The fields of a transaction that was just opened.
LEMMA OpenedFields ==
    ASSUME NEW kind, NEW s, NEW v, NEW to
    PROVE  LET x == Opened(kind, s, v, to)
           IN  /\ x.pc = "open" /\ x.kind = kind /\ x.step = s /\ x.version = v /\ x.to = to
               /\ x.seen = run /\ x.status = "queued" /\ x.inputs = [r \in Step |-> {}]
BY DEF Opened

\* A transaction that is not open is a transaction.
LEMMA ClosedType == Closed \in TxnState
BY DEF Closed, TxnState, TxnKind, Status, Versioned

\* And so is one that was just opened.
LEMMA OpenedType ==
    ASSUME run \in Versioned, NEW kind \in TxnKind, NEW s \in Step \cup {NoStep}, NEW v \in Nat, NEW to \in Status
    PROVE  Opened(kind, s, v, to) \in TxnState
BY DEF Opened, TxnState, Status

\* The fields of the rows and the transactions.
LEMMA Fields ==
    ASSUME TypeOK
    PROVE  /\ \A s \in Step : row[s] \in Versioned /\ row[s].status \in Status /\ row[s].version \in Nat
           /\ run.status \in Status /\ run.version \in Nat
           /\ \A t \in Txn : /\ txn[t] \in TxnState /\ txn[t].kind \in TxnKind /\ txn[t].step \in Step \cup {NoStep}
                             /\ txn[t].version \in Nat /\ txn[t].to \in Status /\ txn[t].status \in Status
                             /\ txn[t].seen \in Versioned
                             /\ txn[t].seen.status \in Status /\ txn[t].seen.version \in Nat
                             /\ txn[t].inputs \in [Step -> SUBSET Step]
                             /\ txn[t].pc \in {"idle", "open", "derived", "written", "piped"}
           /\ \A e \in pending : /\ e.kind \in {"advance", "execute"} /\ e.step \in Step \cup {NoStep}
                                 /\ e.version \in Nat
           /\ \A c \in claims : c.step \in Step /\ c.version \in Nat
<1>1. \A r \in Versioned : r.status \in Status /\ r.version \in Nat
      BY DEF Versioned
<1>2. \A x \in TxnState : /\ x.kind \in TxnKind /\ x.step \in Step \cup {NoStep} /\ x.version \in Nat
                          /\ x.to \in Status /\ x.status \in Status /\ x.seen \in Versioned
                          /\ x.inputs \in [Step -> SUBSET Step]
                          /\ x.pc \in {"idle", "open", "derived", "written", "piped"}
      BY DEF TxnState
<1>3. \A e \in pending : /\ e.kind \in {"advance", "execute"} /\ e.step \in Step \cup {NoStep}
                         /\ e.version \in Nat
      BY DEF TypeOK, Event
<1>4. \A c \in claims : c.step \in Step /\ c.version \in Nat
      BY DEF TypeOK, Claim
<1> QED BY <1>1, <1>2, <1>3, <1>4 DEF TypeOK

\* What the transaction sees of the steps are steps, and what it derives is a status.
LEMMA ViewType ==
    ASSUME TypeOK, Kinds, NEW t \in Txn
    PROVE  /\ View(t) \in [Step -> Versioned]
           /\ \A s \in Step : View(t)[s].status = IF WritesStep(txn[t]) /\ txn[t].step = s
                                                  THEN txn[t].to ELSE row[s].status
           /\ StatusFor(t) \in Status
<1>1. ASSUME WritesStep(txn[t])
      PROVE  /\ View(t) \in [Step -> Versioned]
             /\ \A s \in Step : View(t)[s].status = IF txn[t].step = s THEN txn[t].to ELSE row[s].status
  <2>1. View(t) = [row EXCEPT ![txn[t].step] = [row[txn[t].step] EXCEPT !.status = txn[t].to]]
        BY <1>1 DEF View, TypeOK, Kinds, WritesStep, Fences
  <2>2. /\ txn[t].step \in Step
        /\ [row[txn[t].step] EXCEPT !.status = txn[t].to] \in Versioned
        /\ [row[txn[t].step] EXCEPT !.status = txn[t].to].status = txn[t].to
        BY <1>1, Fields DEF Kinds, WritesStep, Fences, Versioned
  <2> QED BY <2>1, <2>2 DEF TypeOK
<1>2. ASSUME ~WritesStep(txn[t]) PROVE View(t) = row
      BY <1>2 DEF View
<1>3. DeriveRunStatus(View(t)) \in Status
      BY DEF DeriveRunStatus, Status
<1>4. StatusFor(t) \in Status
      BY <1>3, Fields DEF StatusFor, Status
<1> QED BY <1>1, <1>2, <1>4 DEF TypeOK

\* Every step opens a transaction, goes on with one, commits one or gives up an attempt.
LEMMA Steps ==
    ASSUME TypeOK, Kinds, [Next]_vars
    PROVE  \/ \E t \in Txn, kind \in TxnKind, s \in Step \cup {NoStep}, v \in Nat, to \in Status : Opens(t, kind, s, v, to)
           \/ \E t \in Txn : GoesOn(t)
           \/ \E t \in Txn : Commit(t)
           \/ \E c \in claims : GiveUp(c)
           \/ UNCHANGED vars
<1> DEFINE Goal == \/ \E t \in Txn, kind \in TxnKind, s \in Step \cup {NoStep}, v \in Nat, to \in Status : Opens(t, kind, s, v, to)
                   \/ \E t \in Txn : GoesOn(t)
                   \/ \E t \in Txn : Commit(t)
                   \/ \E c \in claims : GiveUp(c)
                   \/ UNCHANGED vars
<1> DEFINE Counts == \/ faults' = faults
                     \/ faults < MaxFaults /\ faults' = faults + 1
<1>0. /\ UNCHANGED faults => faults' = faults /\ Counts
      /\ Fault => faults' = faults + 1 /\ Counts
      BY DEF Fault
<1>Typed. \A t, kind, s, v, to : Opens(t, kind, s, v, to) => v \in Nat /\ to \in Status
      BY DEF Opens
<1>1. ASSUME NEW t \in Txn, NEW s \in Step, OpenClaim(t, s)
      PROVE  Opens(t, "claim", s, row[s].version, "running")
  <2>1. /\ row[s].version \in Nat /\ "running" \in Status
        /\ txn[t].pc = "idle" /\ txn' = [txn EXCEPT ![t] = Opened("claim", s, row[s].version, "running")]
        /\ UNCHANGED <<row, input, run, pending, claims, exhausted, retired, card>> /\ StepFree(t, s)
        BY <1>1, Fields DEF OpenClaim, Open, Idle, Status
  <2>2. \/ /\ [kind |-> "execute", step |-> s, version |-> row[s].version] \in pending
           /\ row[s].status = "queued" /\ UNCHANGED faults
        \/ row[s].status = "running" /\ Fault
        BY <1>1 DEF OpenClaim
  <2> QED BY <1>0, <2>1, <2>2 DEF Opens
<1>2. ASSUME NEW t \in Txn, NEW s \in Step, OpenFail(t, s)
      PROVE  Opens(t, "fail", s, row[s].version,
                   IF row[s].status \in Untouchable THEN row[s].status ELSE "failed")
  <2> DEFINE to == IF row[s].status \in Untouchable THEN row[s].status ELSE "failed"
  <2>1. /\ row[s].version \in Nat /\ to \in Status
        /\ txn[t].pc = "idle" /\ txn' = [txn EXCEPT ![t] = Opened("fail", s, row[s].version, to)]
        /\ UNCHANGED <<row, input, run, pending, claims, exhausted, retired, card>> /\ s \in exhausted
        /\ faults' = faults
        BY <1>2, Fields DEF OpenFail, Open, Idle, Status
  <2> HIDE DEF to
  <2>2. Opens(t, "fail", s, row[s].version, to)
        BY <2>1 DEF Opens
  <2> QED BY <2>2 DEF to
<1>3. ASSUME NEW t \in Txn, NEW s \in Step, NEW to \in {"succeeded", "failed"}, OpenDecide(t, s, to)
      PROVE  Opens(t, "decide", s, row[s].version, to)
  <2>1. /\ row[s].version \in Nat /\ to \in Status
        /\ txn[t].pc = "idle" /\ txn' = [txn EXCEPT ![t] = Opened("decide", s, row[s].version, to)]
        /\ UNCHANGED <<row, input, run, pending, claims, exhausted, retired, card>> /\ StepFree(t, s)
        /\ row[s].status = "waiting_human"
        BY <1>3, Fields DEF OpenDecide, Open, Idle, Status
  <2>2. IF to = "failed" THEN Fault ELSE UNCHANGED faults
        BY <1>3 DEF OpenDecide
  <2> QED BY <1>0, <2>1, <2>2 DEF Opens
<1>4. ASSUME NEW t \in Txn, NEW c \in claims, NEW ok \in BOOLEAN, OpenFinalize(t, c, ok)
      PROVE  Opens(t, "finalize", c.step, c.version,
                   IF ~ok THEN "failed" ELSE IF c.step \in RedLine THEN "waiting_human" ELSE "succeeded")
  <2> DEFINE to == IF ~ok THEN "failed" ELSE IF c.step \in RedLine THEN "waiting_human" ELSE "succeeded"
  <2>1. c.step \in Step /\ c.version \in Nat /\ to \in Status
        BY Fields DEF Status
  <2>2. row[c.step].status = "running" /\ row[c.step].version = c.version
        BY <1>4 DEF OpenFinalize, Fenced
  <2>3. /\ txn[t].pc = "idle" /\ txn' = [txn EXCEPT ![t] = Opened("finalize", c.step, c.version, to)]
        /\ UNCHANGED <<row, input, run, pending, claims, exhausted, retired, card>> /\ StepFree(t, c.step)
        BY <1>4 DEF OpenFinalize, Open, Idle
  <2>4. \/ to = "failed" /\ Fault
        \/ to = (IF c.step \in RedLine THEN "waiting_human" ELSE "succeeded") /\ UNCHANGED faults
        BY <1>4 DEF OpenFinalize
  <2> HIDE DEF to
  <2>5. Opens(t, "finalize", c.step, c.version, to)
        BY <1>0, <2>1, <2>2, <2>3, <2>4 DEF Opens
  <2> QED BY <2>5 DEF to
<1>5. ASSUME NEW t \in Txn, NEW e \in pending, OpenAdvance(t, e)
      PROVE  Opens(t, "advance", e.step, e.version, "queued")
  <2>1. e = [kind |-> "advance", step |-> e.step, version |-> e.version] /\ e.version \in Nat
        BY <1>5 DEF OpenAdvance, TypeOK, Event
  <2>2. /\ "queued" \in Status /\ faults' = faults
        /\ txn[t].pc = "idle" /\ txn' = [txn EXCEPT ![t] = Opened("advance", e.step, e.version, "queued")]
        /\ UNCHANGED <<row, input, run, pending, claims, exhausted, retired, card>>
        /\ NotHandled("advance", e.step, e.version)
        BY <1>5 DEF OpenAdvance, Open, Idle, Status
  <2> QED BY <2>1, <2>2 DEF Opens
<1>6. ASSUME NEW t \in Txn, Derive(t) PROVE GoesOn(t)
  <2>1. /\ [txn[t] EXCEPT !.pc = "derived", !.status = StatusFor(t)] \in TxnState
        /\ LET y == [txn[t] EXCEPT !.pc = "derived", !.status = StatusFor(t)]
           IN  /\ y.pc = "derived" /\ y.kind = txn[t].kind /\ y.step = txn[t].step /\ y.version = txn[t].version
               /\ y.to = txn[t].to /\ y.seen = txn[t].seen /\ y.status = StatusFor(t)
        BY ViewType, Fields DEF TxnState
  <2>2. txn' = [txn EXCEPT ![t] = [txn[t] EXCEPT !.pc = "derived", !.status = StatusFor(t)]]
        BY <1>6 DEF Derive, TypeOK
  <2> QED BY <1>6, <2>1, <2>2 DEF Derive, GoesOn, TypeOK
<1>7. ASSUME NEW t \in Txn, WriteRun(t) PROVE GoesOn(t)
  <2>1. /\ [txn[t] EXCEPT !.pc = "written"] \in TxnState
        /\ LET y == [txn[t] EXCEPT !.pc = "written"]
           IN  /\ y.pc = "written" /\ y.kind = txn[t].kind /\ y.step = txn[t].step /\ y.version = txn[t].version
               /\ y.to = txn[t].to /\ y.seen = txn[t].seen /\ y.status = txn[t].status
        BY Fields DEF TxnState
  <2>2. txn' = [txn EXCEPT ![t] = [txn[t] EXCEPT !.pc = "written"]]
        BY <1>7 DEF WriteRun, TypeOK
  <2> QED BY <1>7, <2>1, <2>2 DEF WriteRun, GoesOn, TypeOK
<1>8. ASSUME NEW t \in Txn, Pipe(t) PROVE GoesOn(t)
  <2>1. /\ [txn[t] EXCEPT !.pc = "piped", !.inputs = input] \in TxnState
        /\ LET y == [txn[t] EXCEPT !.pc = "piped", !.inputs = input]
           IN  /\ y.pc = "piped" /\ y.kind = txn[t].kind /\ y.step = txn[t].step /\ y.version = txn[t].version
               /\ y.to = txn[t].to /\ y.seen = txn[t].seen /\ y.status = txn[t].status
        BY Fields DEF TxnState, TypeOK
  <2>2. txn' = [txn EXCEPT ![t] = [txn[t] EXCEPT !.pc = "piped", !.inputs = input]]
        BY <1>8 DEF Pipe, TypeOK
  <2> QED BY <1>8, <2>1, <2>2 DEF Pipe, GoesOn, TypeOK
<1>9. CASE \E t \in Txn, s \in Step : \/ OpenClaim(t, s) \/ OpenFail(t, s)
                                      \/ \E to \in {"succeeded", "failed"} : OpenDecide(t, s, to)
  <2> {"claim", "fail", "decide"} \subseteq TxnKind
      BY DEF TxnKind
  <2> QED BY <1>1, <1>2, <1>3, <1>9, <1>Typed
<1>10. CASE \E t \in Txn, c \in claims, ok \in BOOLEAN : OpenFinalize(t, c, ok)
  <2> "finalize" \in TxnKind /\ \A c \in claims : c.step \in Step
      BY Fields DEF TxnKind
  <2> QED BY <1>4, <1>10, <1>Typed
<1>11. CASE \E t \in Txn, e \in pending : OpenAdvance(t, e)
  <2> "advance" \in TxnKind /\ \A e \in pending : e.step \in Step \cup {NoStep}
      BY Fields DEF TxnKind
  <2> QED BY <1>5, <1>11, <1>Typed
<1>12. CASE \E t \in Txn : Proceed(t)
       BY <1>6, <1>7, <1>8, <1>12 DEF Proceed
<1> QED BY <1>9, <1>10, <1>11, <1>12 DEF Next

\* What a transaction does to the others and to the rows when it is opened.
LEMMA OpensTxn ==
    ASSUME TypeOK, NEW t \in Txn, NEW kind, NEW s, NEW v, NEW to, Opens(t, kind, s, v, to)
    PROVE  /\ txn'[t].pc = "open" /\ txn'[t].kind = kind /\ txn'[t].step = s /\ txn'[t].version = v
           /\ txn'[t].to = to /\ txn'[t].seen = run
           /\ \A u \in Txn : u # t => txn'[u] = txn[u]
BY OpenedFields DEF Opens, TypeOK

\* And when it commits.
LEMMA CommitsTxn ==
    ASSUME TypeOK, NEW t \in Txn, Commit(t)
    PROVE  /\ txn'[t].pc = "idle" /\ txn'[t].kind = "none"
           /\ \A u \in Txn : u # t => txn'[u] = txn[u]
           /\ txn[t].pc \in {"written", "piped"}
<1>1. Closed.pc = "idle" /\ Closed.kind = "none"
      BY DEF Closed
<1> QED BY <1>1 DEF Commit, TypeOK

\* The rows after a commit.
LEMMA CommitsRow ==
    ASSUME TypeOK, Kinds, NEW t \in Txn, Commit(t)
    PROVE  /\ row' \in [Step -> Versioned]
           /\ \A s \in Step : IF WritesStep(txn[t]) /\ s = txn[t].step
                              THEN row'[s].status = txn[t].to /\ row'[s].version = txn[t].version + 1
                              ELSE row'[s] = row[s]
<1>1. CASE WritesStep(txn[t])
  <2>1. /\ [status |-> txn[t].to, version |-> txn[t].version + 1] \in Versioned
        /\ txn[t].step \in Step
        BY <1>1, Fields DEF Versioned, Kinds, WritesStep, Fences
  <2>2. row' = [row EXCEPT ![txn[t].step] = [status |-> txn[t].to, version |-> txn[t].version + 1]]
        BY <1>1 DEF Commit
  <2> QED BY <1>1, <2>1, <2>2 DEF TypeOK
<1>2. CASE ~WritesStep(txn[t])
      BY <1>2 DEF Commit, TypeOK
<1> QED BY <1>1, <1>2

-----------------------------------------------------------------------------
(* Types, what a transaction is about, and the locks. *)

\* The initial state is well formed.
LEMMA BasicsInit == TxnAssumption /\ Init => Basics
<1> SUFFICES ASSUME TxnAssumption, Init PROVE Basics
    OBVIOUS
<1>1. TypeOK
  <2>1. /\ [status |-> "queued", version |-> 0] \in Versioned
        /\ [kind |-> "advance", step |-> NoStep, version |-> 0] \in Event
        BY DEF Versioned, Status, Event
  <2> QED BY <2>1, ClosedType DEF Init, TypeOK, TxnAssumption, TxnBoundAssumption
<1>2. \A t \in Txn : txn[t].pc = "idle" /\ txn[t].kind = "none"
      BY DEF Init, Closed
<1> QED BY <1>1, <1>2 DEF Basics, Kinds, Exclusive, Guarded, LocksStep, Fences

\* The types survive every step.
LEMMA TypeNext ==
    ASSUME TxnAssumption, TypeOK, Kinds, [Next]_vars
    PROVE  TypeOK'
<1>1. ASSUME NEW t \in Txn, NEW kind \in TxnKind, NEW s \in Step \cup {NoStep}, NEW v, NEW to,
             Opens(t, kind, s, v, to)
      PROVE  TypeOK'
  <2>1. Opened(kind, s, v, to) \in TxnState
        BY <1>1, OpenedType DEF Opens, TypeOK
  <2>2. faults' \in 0..MaxFaults
        BY <1>1 DEF Opens, TypeOK, TxnAssumption, TxnBoundAssumption
  <2> QED BY <1>1, <2>1, <2>2 DEF Opens, TypeOK
<1>2. ASSUME NEW t \in Txn, GoesOn(t) PROVE TypeOK'
      BY <1>2 DEF GoesOn, TypeOK
<1>3. ASSUME NEW t \in Txn, Commit(t) PROVE TypeOK'
  <2> DEFINE x == txn[t]
  <2>1. /\ x.kind \in TxnKind /\ x.step \in Step \cup {NoStep} /\ x.version \in Nat /\ x.to \in Status
        /\ x.status \in Status /\ x.seen.version \in Nat /\ x.inputs \in [Step -> SUBSET Step]
        /\ x.kind \in Fences \cup {"fail"} => x.step \in Step
        BY Fields DEF Kinds
  <2>2. row' \in [Step -> Versioned]
        BY <1>3, CommitsRow
  <2>3. input' \in [Step -> SUBSET Step]
    <3>1. CASE Pipes(x)
      <4>1. x.step \in Step
            BY <2>1, <3>1 DEF Pipes, Fences
      <4>2. input' = [s \in Step |-> IF s \in Downstream(x.step)
                                     THEN x.inputs[s] \cup {x.step} ELSE input[s]]
            BY <1>3, <3>1 DEF Commit
      <4> QED BY <2>1, <4>1, <4>2 DEF TypeOK
    <3>2. CASE ~Pipes(x)
          BY <1>3, <3>2 DEF Commit, TypeOK
    <3> QED BY <3>1, <3>2
  <2>4. run' \in Versioned
    <3>1. [status |-> x.status, version |-> x.seen.version + 1] \in Versioned
          BY <2>1 DEF Versioned
    <3> QED BY <1>3, <3>1 DEF Commit, TypeOK
  <2>5. card' \in Versioned
        BY <1>3, <2>4 DEF Commit, TypeOK
  <2>6. pending' \subseteq Event
    <3>1. Enqueued(x) \subseteq Event
      <4>1. \A s \in Step : [kind |-> "execute", step |-> s, version |-> row[s].version] \in Event
            BY Fields DEF Event
      <4>2. [kind |-> "advance", step |-> x.step, version |-> x.version] \in Event
            BY <2>1 DEF Event
      <4> QED BY <4>1, <4>2 DEF Enqueued, Ready
    <3> QED BY <1>3, <3>1 DEF Commit, TypeOK
  <2>7. claims' \subseteq Claim
    <3>1. x.kind = "claim" => [step |-> x.step, version |-> x.version + 1] \in Claim
          BY <2>1 DEF Claim, Fences
    <3> QED BY <1>3, <3>1 DEF Commit, TypeOK
  <2>8. exhausted' \subseteq Step /\ retired' \subseteq Step /\ faults' \in 0..MaxFaults
        BY <1>3, <2>1 DEF Commit, TypeOK
  <2>9. txn' \in [Txn -> TxnState]
        BY <1>3, ClosedType DEF Commit, TypeOK
  <2> QED BY <2>2, <2>3, <2>4, <2>5, <2>6, <2>7, <2>8, <2>9 DEF TypeOK
<1>4. ASSUME NEW c \in claims, GiveUp(c) PROVE TypeOK'
  <2>1. faults' \in 0..MaxFaults
        BY <1>4 DEF GiveUp, Fault, TypeOK, TxnAssumption, TxnBoundAssumption
  <2> QED BY <1>4, <2>1, Fields DEF GiveUp, TypeOK
<1>5. CASE UNCHANGED vars
      BY <1>5 DEF vars, TypeOK
<1> QED BY <1>1, <1>2, <1>3, <1>4, <1>5, Steps

\* What a transaction is about does not change while it is open.
LEMMA KindsNext ==
    ASSUME TypeOK, Kinds, [Next]_vars
    PROVE  Kinds'
<1>1. ASSUME NEW t \in Txn, NEW kind \in TxnKind, NEW s \in Step \cup {NoStep}, NEW v, NEW to,
             Opens(t, kind, s, v, to)
      PROVE  Kinds'
  <2>1. /\ kind # "none"
        /\ kind \in Fences \cup {"fail"} => s \in Step
        /\ kind = "claim" => to = "running"
        /\ kind = "finalize" => to \in {"succeeded", "waiting_human", "failed"}
        /\ kind = "decide" => to \in {"succeeded", "failed"}
        BY <1>1 DEF Opens, Fences, TypeOK
  <2> QED BY <1>1, <2>1, OpensTxn DEF Kinds
<1>2. ASSUME NEW t \in Txn, GoesOn(t) PROVE Kinds'
      BY <1>2 DEF GoesOn, Kinds
<1>3. ASSUME NEW t \in Txn, Commit(t) PROVE Kinds'
      BY <1>3, CommitsTxn DEF Kinds, Fences
<1>4. ASSUME NEW c \in claims, GiveUp(c) PROVE Kinds'
      BY <1>4 DEF GiveUp, Kinds
<1>5. CASE UNCHANGED vars
      BY <1>5 DEF vars, Kinds
<1> QED BY <1>1, <1>2, <1>3, <1>4, <1>5, Steps

\* A row lock is taken only where no other transaction holds it.
LEMMA ExclusiveNext ==
    ASSUME TypeOK, Kinds, Exclusive, [Next]_vars
    PROVE  Exclusive'
<1>1. ASSUME NEW t \in Txn, NEW kind \in TxnKind, NEW s \in Step \cup {NoStep}, NEW v, NEW to,
             Opens(t, kind, s, v, to)
      PROVE  Exclusive'
  <2>1. ASSUME NEW r \in Step, LocksStep(txn'[t], r)
        PROVE  r = s /\ StepFree(t, s)
    <3>1. txn'[t].pc = "open" /\ txn'[t].kind = kind /\ txn'[t].step = s
          BY <1>1, OpensTxn
    <3>2. kind \in {"claim", "finalize", "decide"} => StepFree(t, s)
          BY <1>1 DEF Opens
    <3> QED BY <2>1, <3>1, <3>2 DEF LocksStep, WritesStep
  <2> QED BY <1>1, <2>1, OpensTxn DEF Exclusive, StepFree
<1>2. ASSUME NEW t \in Txn, GoesOn(t) PROVE Exclusive'
  <2>1. ASSUME NEW r \in Step, LocksStep(txn'[t], r)
        PROVE  LocksStep(txn[t], r) \/ StepFree(t, r)
        BY <1>2, <2>1 DEF LocksStep, WritesStep, GoesOn
  <2>2. \A u \in Txn : u # t => txn'[u] = txn[u]
        BY <1>2 DEF GoesOn
  <2> QED BY <2>1, <2>2 DEF Exclusive, StepFree
<1>3. ASSUME NEW t \in Txn, Commit(t) PROVE Exclusive'
      BY <1>3, CommitsTxn DEF Exclusive, LocksStep
<1>4. ASSUME NEW c \in claims, GiveUp(c) PROVE Exclusive'
      BY <1>4 DEF GiveUp, Exclusive
<1>5. CASE UNCHANGED vars
      BY <1>5 DEF vars, Exclusive
<1> QED BY <1>1, <1>2, <1>3, <1>4, <1>5, Steps

\* What a fence found holds until its transaction commits: whoever writes the row holds its lock.
LEMMA GuardedNext ==
    ASSUME TypeOK, Kinds, Exclusive, Guarded, [Next]_vars
    PROVE  Guarded'
<1>1. ASSUME NEW t \in Txn, NEW kind \in TxnKind, NEW s \in Step \cup {NoStep}, NEW v, NEW to,
             Opens(t, kind, s, v, to)
      PROVE  Guarded'
  <2>1. /\ kind \in Fences => row[s].version = v
        /\ kind = "claim" => row[s].status \in {"queued", "running"}
        /\ kind = "finalize" => row[s].status = "running"
        /\ kind = "decide" => row[s].status = "waiting_human"
        BY <1>1 DEF Opens, Fences
  <2>2. row' = row
        BY <1>1 DEF Opens
  <2> QED BY <1>1, <2>1, <2>2, OpensTxn DEF Guarded
<1>2. ASSUME NEW t \in Txn, GoesOn(t) PROVE Guarded'
      BY <1>2 DEF GoesOn, Guarded
<1>3. ASSUME NEW t \in Txn, Commit(t) PROVE Guarded'
  <2>1. ASSUME NEW u \in Txn, txn'[u].kind \in Fences
        PROVE  txn'[u] = txn[u] /\ u # t /\ txn[u].step \in Step
        BY <1>3, <2>1, CommitsTxn DEF Fences, Kinds
  <2>2. ASSUME NEW u \in Txn, txn'[u].kind \in Fences
        PROVE  row'[txn[u].step] = row[txn[u].step]
    <3>1. LocksStep(txn[u], txn[u].step)
          BY <2>1, <2>2 DEF LocksStep, WritesStep, Fences, Kinds
    <3>2. WritesStep(txn[t]) /\ txn[t].step = txn[u].step => LocksStep(txn[t], txn[u].step)
          BY <1>3, CommitsTxn DEF LocksStep
    <3> QED BY <1>3, <2>1, <2>2, <3>1, <3>2, CommitsRow DEF Exclusive
  <2> QED BY <2>1, <2>2 DEF Guarded
<1>4. ASSUME NEW c \in claims, GiveUp(c) PROVE Guarded'
      BY <1>4 DEF GiveUp, Guarded
<1>5. CASE UNCHANGED vars
      BY <1>5 DEF vars, Guarded
<1> QED BY <1>1, <1>2, <1>3, <1>4, <1>5, Steps

\* The basic invariant is inductive.
LEMMA BasicsNext == TxnAssumption /\ Basics /\ [Next]_vars => Basics'
BY TypeNext, KindsNext, ExclusiveNext, GuardedNext DEF Basics

\* Every row, transaction, event and claim keeps its shape; a row lock has one holder, and
\* the row a transaction fenced is what the fence found until the commit.
THEOREM TransactionsAreFenced == TxnAssumption /\ Spec => []Basics
<1> SUFFICES ASSUME TxnAssumption PROVE Spec => []Basics
    OBVIOUS
<1>1. Init => Basics
      BY BasicsInit
<1>2. Basics /\ [Next]_vars => Basics'
      BY BasicsNext
<1> QED BY <1>1, <1>2, PTL DEF Spec

\* While no event was given up on, a step's row is written only by a transaction that read
\* its present version.
THEOREM NoUpdateIsLost == TxnAssumption /\ Spec => [][retired' = {} => NoLostUpdate]_vars
<1> SUFFICES ASSUME TxnAssumption PROVE Spec => [][retired' = {} => NoLostUpdate]_vars
    OBVIOUS
<1>1. ASSUME Basics, [Next]_vars PROVE [retired' = {} => NoLostUpdate]_vars
  <2> SUFFICES ASSUME retired' = {}, NEW s \in Step, row'[s] # row[s]
               PROVE  \E t \in Txn : /\ txn[t].step = s /\ txn[t].version = row[s].version
                                     /\ row'[s].version = row[s].version + 1
      BY DEF NoLostUpdate
  <2>1. PICK t \in Txn : Commit(t)
    <3>1. \A t \in Txn, kind \in TxnKind, r \in Step \cup {NoStep}, v \in Nat, to \in Status : Opens(t, kind, r, v, to) => row' = row
          BY DEF Opens
    <3>2. /\ \A t \in Txn : GoesOn(t) => row' = row
          /\ \A c \in claims : GiveUp(c) => row' = row
          /\ UNCHANGED vars => row' = row
          BY DEF GoesOn, GiveUp, vars
    <3> QED BY <1>1, <3>1, <3>2, Steps DEF Basics
  <2>2. /\ WritesStep(txn[t]) /\ s = txn[t].step
        /\ row'[s].version = txn[t].version + 1
        BY <1>1, <2>1, CommitsRow DEF Basics
  <2>3. txn[t].kind # "fail"
        BY <2>1 DEF Commit
  <2>4. row[s].version = txn[t].version
        BY <1>1, <2>2, <2>3 DEF Basics, Guarded, WritesStep, Fences
  <2> QED BY <2>2, <2>4
<1>2. Spec => []Basics
      BY TransactionsAreFenced
<1> QED BY <1>1, <1>2, PTL DEF Spec

-----------------------------------------------------------------------------
(* Dependencies. *)

\* A commit that is not a give-up leaves a finished step alone.
LEMMA FinishedStays ==
    ASSUME TxnAssumption, Basics, NEW t \in Txn, Commit(t), txn[t].kind # "fail", NEW s \in Step,
           row[s].status \in {"succeeded", "failed"}
    PROVE  row'[s] = row[s]
<1>1. WritesStep(txn[t]) => row[txn[t].step].status \in {"queued", "running", "waiting_human"}
      BY DEF Basics, Guarded, WritesStep, Fences
<1> QED BY <1>1, CommitsRow DEF Basics

\* A commit takes no event away but the one it consumes, and adds what Enqueued names.
LEMMA CommitsPending ==
    ASSUME NEW t \in Txn, Commit(t)
    PROVE  pending' = (pending \cup Enqueued(txn[t])) \ Consumed(txn[t])
BY DEF Commit

\* Ordered is inductive: while no event is given up on, what has succeeded stays so.
LEMMA OrderedNext ==
    ASSUME TxnAssumption, Basics, Ordered, [Next]_vars
    PROVE  Ordered'
<1> SUFFICES ASSUME retired' = {}
             PROVE  /\ \A s \in Step : row'[s].status # "queued" => Met(row', s)
                    /\ \A e \in pending' : e.kind = "execute" => e.step \in Step /\ Met(row', e.step)
                    /\ \A t \in Txn : txn'[t].kind = "claim" => Met(row', txn'[t].step)
    BY DEF Ordered, Met
<1> USE TxnAssumption DEF TxnDepAssumption
<1>0. \A s \in Step : Dep[s] \subseteq Step
      BY DEF TxnAssumption
<1>1. ASSUME NEW t \in Txn, NEW kind \in TxnKind, NEW s \in Step \cup {NoStep}, NEW v, NEW to,
             Opens(t, kind, s, v, to)
      PROVE  /\ \A r \in Step : row'[r].status # "queued" => Met(row', r)
             /\ \A e \in pending' : e.kind = "execute" => e.step \in Step /\ Met(row', e.step)
             /\ \A u \in Txn : txn'[u].kind = "claim" => Met(row', txn'[u].step)
  <2>1. row' = row /\ pending' = pending /\ retired = {}
        BY <1>1 DEF Opens
  <2>2. /\ \A r \in Step : row[r].status # "queued" => Met(row, r)
        /\ \A e \in pending : e.kind = "execute" => e.step \in Step /\ Met(row, e.step)
        /\ \A u \in Txn : txn[u].kind = "claim" => Met(row, txn[u].step)
        BY <2>1 DEF Ordered
  <2>3. kind = "claim" => Met(row, s)
        BY <1>1, <2>2 DEF Opens
  <2> QED BY <1>1, <2>1, <2>2, <2>3, OpensTxn DEF Basics, Met
<1>2. ASSUME NEW t \in Txn, GoesOn(t)
      PROVE  /\ \A r \in Step : row'[r].status # "queued" => Met(row', r)
             /\ \A e \in pending' : e.kind = "execute" => e.step \in Step /\ Met(row', e.step)
             /\ \A u \in Txn : txn'[u].kind = "claim" => Met(row', txn'[u].step)
      BY <1>2 DEF GoesOn, Ordered, Met
<1>3. ASSUME NEW t \in Txn, Commit(t)
      PROVE  /\ \A r \in Step : row'[r].status # "queued" => Met(row', r)
             /\ \A e \in pending' : e.kind = "execute" => e.step \in Step /\ Met(row', e.step)
             /\ \A u \in Txn : txn'[u].kind = "claim" => Met(row', txn'[u].step)
  <2>1. txn[t].kind # "fail" /\ retired = {}
        BY <1>3 DEF Commit
  <2>2. /\ \A r \in Step : row[r].status # "queued" => Met(row, r)
        /\ \A e \in pending : e.kind = "execute" => e.step \in Step /\ Met(row, e.step)
        /\ \A u \in Txn : txn[u].kind = "claim" => Met(row, txn[u].step)
        BY <2>1 DEF Ordered
  <2>3. \A r \in Step : Met(row, r) => Met(row', r)
        BY <1>0, <1>3, <2>1, FinishedStays DEF Met
  <2>4. ASSUME NEW r \in Step, row'[r].status # "queued"
        PROVE  Met(row, r)
    <3>1. CASE WritesStep(txn[t]) /\ r = txn[t].step
          BY <2>1, <2>2, <3>1 DEF Basics, Guarded, WritesStep, Fences
    <3>2. CASE ~(WritesStep(txn[t]) /\ r = txn[t].step)
          BY <1>3, <2>2, <2>4, <3>2, CommitsRow DEF Basics
    <3> QED BY <3>1, <3>2
  <2>5. ASSUME NEW e \in pending', e.kind = "execute"
        PROVE  e.step \in Step /\ Met(row, e.step)
    <3>1. e \in Enqueued(txn[t]) => e.step \in Step /\ Met(row, e.step)
          BY <2>5 DEF Enqueued, Ready, Met
    <3> QED BY <1>3, <2>2, <2>5, <3>1, CommitsPending
  <2>6. ASSUME NEW u \in Txn, txn'[u].kind = "claim"
        PROVE  txn'[u].step \in Step /\ Met(row, txn'[u].step)
        BY <1>3, <2>2, <2>6, CommitsTxn DEF Basics, Kinds, Fences
  <2> QED BY <2>3, <2>4, <2>5, <2>6 DEF Met
<1>4. ASSUME NEW c \in claims, GiveUp(c)
      PROVE  /\ \A r \in Step : row'[r].status # "queued" => Met(row', r)
             /\ \A e \in pending' : e.kind = "execute" => e.step \in Step /\ Met(row', e.step)
             /\ \A u \in Txn : txn'[u].kind = "claim" => Met(row', txn'[u].step)
      BY <1>4 DEF GiveUp, Ordered, Met
<1>5. CASE UNCHANGED vars
      BY <1>5 DEF vars, Ordered, Met
<1> QED BY <1>1, <1>2, <1>3, <1>4, <1>5, Steps DEF Basics

\* Nothing has started at first.
LEMMA OrderedInit == TxnAssumption /\ Init => Ordered
<1> SUFFICES ASSUME TxnAssumption, Init PROVE Ordered
    OBVIOUS
<1>1. \A t \in Txn : txn[t].kind = "none"
      BY DEF Init, Closed
<1> QED BY <1>1 DEF Init, Ordered

\* Unless an event was given up on, no step starts on the strength of a dependency that
\* another transaction has not committed (enqueue_ready_steps lists the steps twice).
THEOREM DependenciesComeFirst == TxnAssumption /\ Spec => [](retired = {} => DependenciesBeforeStart)
<1> SUFFICES ASSUME TxnAssumption PROVE Spec => [](retired = {} => DependenciesBeforeStart)
    OBVIOUS
<1>1. Init => Ordered
      BY OrderedInit
<1>2. Basics /\ Ordered /\ [Next]_vars => Ordered'
      BY OrderedNext
<1>3. Ordered => (retired = {} => DependenciesBeforeStart)
      BY DEF Ordered, DependenciesBeforeStart, Met
<1>4. Spec => []Basics
      BY TransactionsAreFenced
<1> QED BY <1>1, <1>2, <1>3, <1>4, PTL DEF Spec

-----------------------------------------------------------------------------
(* Why a run is failed. *)

\* A reason does not go away: a failed step is only written by a give-up.
LEMMA ReasonStays ==
    ASSUME TxnAssumption, Basics, [Next]_vars, Reason
    PROVE  Reason'
<1>1. \A t \in Txn, kind \in TxnKind, r \in Step \cup {NoStep}, v \in Nat, to \in Status :
          Opens(t, kind, r, v, to) => UNCHANGED <<row, retired>>
      BY DEF Opens
<1>2. /\ \A t \in Txn : GoesOn(t) => UNCHANGED <<row, retired>>
      /\ \A c \in claims : GiveUp(c) => UNCHANGED <<row, retired>>
      /\ UNCHANGED vars => UNCHANGED <<row, retired>>
      BY DEF GoesOn, GiveUp, vars
<1>3. ASSUME NEW t \in Txn, Commit(t) PROVE Reason'
  <2>1. txn[t].kind = "fail" => retired' # {}
        BY <1>3 DEF Commit
  <2>2. txn[t].kind # "fail" => retired' = retired
        BY <1>3 DEF Commit
  <2> QED BY <1>3, <2>1, <2>2, FinishedStays DEF Reason
<1>4. UNCHANGED <<row, retired>> => Reason'
      BY DEF Reason
<1> QED BY <1>1, <1>2, <1>3, <1>4, Steps DEF Basics

\* Founded is inductive.
LEMMA FoundedNext ==
    ASSUME TxnAssumption, Basics, Founded, [Next]_vars
    PROVE  Founded'
<1>0. ASSUME NEW u \in Txn, txn'[u] = txn[u]
      PROVE  /\ txn'[u].seen.status = "failed" => Reason'
             /\ txn'[u].pc # "open" /\ txn'[u].status = "failed" =>
                    Reason' \/ txn'[u].kind = "fail" \/ (WritesStep(txn'[u]) /\ txn'[u].to = "failed")
      BY <1>0, ReasonStays DEF Founded
<1>1. ASSUME NEW t \in Txn, NEW kind \in TxnKind, NEW s \in Step \cup {NoStep}, NEW v, NEW to,
             Opens(t, kind, s, v, to)
      PROVE  Founded'
  <2>1. run' = run
        BY <1>1 DEF Opens
  <2>2. txn'[t].pc = "open" /\ txn'[t].seen = run /\ \A u \in Txn : u # t => txn'[u] = txn[u]
        BY <1>1, OpensTxn DEF Basics
  <2> QED BY <1>0, <2>1, <2>2, ReasonStays DEF Founded
<1>2. ASSUME NEW t \in Txn, GoesOn(t) PROVE Founded'
  <2>1. /\ run' = run /\ txn'[t].seen = txn[t].seen /\ txn'[t].kind = txn[t].kind /\ txn'[t].to = txn[t].to
        /\ \A u \in Txn : u # t => txn'[u] = txn[u]
        /\ Reason => Reason'
        BY <1>2, ReasonStays DEF GoesOn
  <2>2. ASSUME txn[t].pc = "open", StatusFor(t) = "failed"
        PROVE  Reason \/ txn[t].kind = "fail" \/ (WritesStep(txn[t]) /\ txn[t].to = "failed")
    <3>1. CASE txn[t].kind \in {"claim", "fail"}
          BY <2>2, <3>1 DEF StatusFor, FailsRun, Founded
    <3>2. CASE txn[t].kind \notin {"claim", "fail"}
      <4>1. DeriveRunStatus(View(t)) = "failed"
            BY <2>2, <3>2 DEF StatusFor, FailsRun
      <4>2. PICK s \in Step : View(t)[s].status = "failed"
            BY <4>1 DEF DeriveRunStatus
      <4>3. row[s].status = "failed" \/ (WritesStep(txn[t]) /\ txn[t].to = "failed")
            BY <4>2, ViewType DEF Basics
      <4> QED BY <4>3 DEF Reason
    <3> QED BY <3>1, <3>2
  <2>3. \/ txn[t].pc = "open" /\ txn'[t].status = StatusFor(t)
        \/ txn[t].pc # "open" /\ txn'[t].status = txn[t].status
        BY <1>2 DEF GoesOn
  <2>4. /\ txn'[t].seen.status = "failed" => Reason'
        /\ txn'[t].status = "failed" =>
               Reason' \/ txn'[t].kind = "fail" \/ (WritesStep(txn'[t]) /\ txn'[t].to = "failed")
        BY <2>1, <2>2, <2>3 DEF Founded, WritesStep
  <2> QED BY <1>0, <2>1, <2>4 DEF Founded
<1>3. ASSUME NEW t \in Txn, Commit(t) PROVE Founded'
  <2>1. /\ txn[t].pc \in {"written", "piped"} /\ txn'[t] = Closed
        /\ \A u \in Txn : u # t => txn'[u] = txn[u]
        BY <1>3, CommitsTxn DEF Commit, Basics, TypeOK
  <2>2. Closed.seen.status = "queued" /\ Closed.status = "queued"
        BY DEF Closed
  <2>3. ASSUME run'.status = "failed" PROVE Reason'
    <3>1. CASE ~ChangesRun(txn[t])
          BY <1>3, <2>3, <3>1, ReasonStays DEF Commit, Founded
    <3>2. CASE ChangesRun(txn[t])
      <4>1. txn[t].status = "failed"
            BY <1>3, <2>3, <3>2 DEF Commit
      <4>2. CASE txn[t].kind = "fail"
            BY <1>3, <4>2 DEF Commit, Reason
      <4>3. CASE WritesStep(txn[t]) /\ txn[t].to = "failed" /\ txn[t].kind # "fail"
            BY <1>3, <4>3, CommitsRow DEF Reason, Basics, Kinds, WritesStep, Fences
      <4> QED BY <2>1, <4>1, <4>2, <4>3, ReasonStays DEF Founded
    <3> QED BY <3>1, <3>2
  <2> QED BY <1>0, <2>1, <2>2, <2>3 DEF Founded
<1>4. ASSUME NEW c \in claims, GiveUp(c) PROVE Founded'
      BY <1>0, <1>4, ReasonStays DEF GiveUp, Founded
<1>5. CASE UNCHANGED vars
      BY <1>0, <1>5, ReasonStays DEF vars, Founded
<1> QED BY <1>1, <1>2, <1>3, <1>4, <1>5, Steps DEF Basics

\* At first nothing is failed.
LEMMA FoundedInit == Init => Founded
<1>1. Closed.seen.status = "queued" /\ Closed.status = "queued"
      BY DEF Closed
<1> QED BY <1>1 DEF Init, Founded

\* No run is failed but for a step that failed or an event that was given up on, whatever a
\* transaction had read when it wrote the status (refresh_run_status, fail_from_outbox).
THEOREM RunsFailForAReason == TxnAssumption /\ Spec => []FailedForAReason
<1> SUFFICES ASSUME TxnAssumption PROVE Spec => []FailedForAReason
    OBVIOUS
<1>1. Init => Founded
      BY FoundedInit
<1>2. Basics /\ Founded /\ [Next]_vars => Founded'
      BY FoundedNext
<1>3. Founded => FailedForAReason
      BY DEF Founded, FailedForAReason, Reason
<1>4. Spec => []Basics
      BY TransactionsAreFenced
<1> QED BY <1>1, <1>2, <1>3, <1>4, PTL DEF Spec

-----------------------------------------------------------------------------
(* The run's status, as long as nothing goes wrong. *)

Smooth(st) == \A s \in Step : st[s].status \in {"queued", "running", "succeeded"}

\* What derive_run_status says of steps that did not fail.
LEMMA Derived ==
    ASSUME TxnAssumption, NEW st, Smooth(st)
    PROVE  /\ DeriveRunStatus(st) \in {"queued", "running", "succeeded"}
           /\ DeriveRunStatus(st) = "succeeded" <=> \A s \in Step : st[s].status = "succeeded"
           /\ DeriveRunStatus(st) = "queued" <=> \A s \in Step : st[s].status = "queued"
<1> DEFINE statuses == {st[s].status : s \in Step}
<1>1. "failed" \notin statuses /\ "waiting_human" \notin statuses /\ statuses # {}
      BY DEF Smooth, TxnAssumption, TxnStepAssumption
<1>2. statuses = {"succeeded"} <=> \A s \in Step : st[s].status = "succeeded"
      BY DEF TxnAssumption, TxnStepAssumption
<1>3. statuses \cap {"running", "succeeded"} = {} <=> \A s \in Step : st[s].status = "queued"
      BY DEF Smooth
<1>4. DeriveRunStatus(st) = IF statuses = {"succeeded"} THEN "succeeded"
                            ELSE IF statuses \cap {"running", "succeeded"} # {} THEN "running"
                            ELSE "queued"
      BY <1>1 DEF DeriveRunStatus
<1>5. (\A s \in Step : st[s].status = "queued") => ~(\A s \in Step : st[s].status = "succeeded")
      BY DEF TxnAssumption, TxnStepAssumption
<1> HIDE DEF statuses
<1> QED BY <1>2, <1>3, <1>4, <1>5

\* The steps of a behaviour without a fault.
LEMMA QuietSteps ==
    ASSUME TypeOK, Kinds, Flawless, RedLine = {}, [Next]_vars, faults' = 0
    PROVE  /\ faults = 0
           /\ \/ \E t \in Txn, kind \in {"claim", "finalize", "advance"}, s \in Step \cup {NoStep}, v \in Nat, to \in Status :
                     /\ Opens(t, kind, s, v, to)
                     /\ kind = "claim" => /\ row[s].status = "queued"
                                          /\ \E e \in pending : e.kind = "execute"
                     /\ kind = "finalize" => to = "succeeded"
              \/ \E t \in Txn : GoesOn(t)
              \/ \E t \in Txn : Commit(t)
              \/ UNCHANGED vars
<1>0. faults \in Nat
      BY DEF TypeOK
<1>1. ASSUME NEW t \in Txn, NEW kind \in TxnKind, NEW s \in Step \cup {NoStep}, NEW v, NEW to,
             Opens(t, kind, s, v, to)
      PROVE  /\ faults = 0 /\ kind \in {"claim", "finalize", "advance"}
             /\ kind = "claim" => /\ row[s].status = "queued"
                                  /\ \E e \in pending : e.kind = "execute"
             /\ kind = "finalize" => to = "succeeded"
  <2>1. faults = 0
        BY <1>0, <1>1 DEF Opens
  <2>2. exhausted = {} /\ \A r \in Step : row[r].status # "waiting_human"
        BY <2>1 DEF Flawless
  <2>3. kind \in {"claim", "finalize", "decide", "fail", "advance"}
        BY <1>1 DEF Opens
  <2>4. kind # "decide" /\ kind # "fail"
        BY <1>1, <2>2 DEF Opens
  <2>5. ASSUME kind = "claim"
        PROVE  row[s].status = "queued" /\ [kind |-> "execute", step |-> s, version |-> v] \in pending
        BY <1>1, <2>1, <2>5 DEF Opens
  <2>6. ASSUME kind = "finalize" PROVE to = "succeeded"
        BY <1>1, <2>1, <2>6 DEF Opens
  <2> QED BY <2>1, <2>3, <2>4, <2>5, <2>6
<1>2. ASSUME NEW t \in Txn, GoesOn(t) PROVE faults = 0
      BY <1>2 DEF GoesOn
<1>3. ASSUME NEW t \in Txn, Commit(t) PROVE faults = 0
      BY <1>3 DEF Commit
<1>4. ASSUME NEW c \in claims, GiveUp(c) PROVE FALSE
  <2>1. faults = 0 /\ ~Fenced(c)
        BY <1>0, <1>4 DEF GiveUp, Fault
  <2> QED BY <2>1 DEF Flawless
<1>5. UNCHANGED vars => faults = 0
      BY DEF vars
<1> QED BY <1>1, <1>2, <1>3, <1>4, <1>5, Steps

\* A commit does not touch the step another transaction has fenced.
LEMMA OthersKeep ==
    ASSUME Basics, NEW t \in Txn, Commit(t), NEW u \in Txn \ {t}, txn[u].kind \in Fences
    PROVE  row'[txn[u].step] = row[txn[u].step]
<1>1. txn[u].step \in Step /\ LocksStep(txn[u], txn[u].step)
      BY DEF Basics, Kinds, LocksStep, WritesStep, Fences
<1>2. WritesStep(txn[t]) /\ txn[t].step = txn[u].step => LocksStep(txn[t], txn[u].step)
      BY CommitsTxn DEF LocksStep, Basics
<1> QED BY <1>1, <1>2, CommitsRow DEF Basics, Exclusive

\* What a commit does when nothing went wrong: a claim starts its step, a finalize ends it
\* and asks for an advance, an advance asks for executions.
LEMMA QuietCommits ==
    ASSUME Basics, Flawless, faults = 0, NEW t \in Txn, Commit(t)
    PROVE  LET x == txn[t]
           IN  /\ x.kind \in {"claim", "finalize", "advance"} /\ x.pc \notin {"idle", "open"}
               /\ run'.status = IF x.status # x.seen.status THEN x.status ELSE run.status
               /\ \A s \in Step : s # x.step \/ x.kind = "advance" => row'[s] = row[s]
               /\ x.kind = "claim" =>
                      /\ x.step \in Step /\ row[x.step].status = "queued" /\ row'[x.step].status = "running"
                      /\ \A e : e.kind = "advance" => (e \in pending' <=> e \in pending)
               /\ x.kind = "finalize" =>
                      /\ x.step \in Step /\ row[x.step].status = "running" /\ row'[x.step].status = "succeeded"
                      /\ pending' = pending \cup {Advance(x.step, x.version)}
               /\ x.kind = "advance" =>
                      /\ \A e : e.kind = "advance" =>
                             (e \in pending' <=> e \in pending /\ e # Advance(x.step, x.version))
                      /\ \A s \in Step : row'[s] = row[s]
<1> DEFINE x == txn[t]
<1>1. x.kind \in {"claim", "finalize", "advance"} /\ x.pc \in {"written", "piped"}
  <2>1. x.pc \in {"written", "piped"}
        BY CommitsTxn DEF Basics
  <2> QED BY <2>1 DEF Flawless, Basics, Kinds
<1>2. WritesStep(x) <=> x.kind \in {"claim", "finalize"}
      BY <1>1 DEF WritesStep
<1>3. run'.status = IF x.status # x.seen.status THEN x.status ELSE run.status
  <2>1. ~FailsRun(x)
        BY <1>1 DEF FailsRun
  <2> QED BY <2>1 DEF Commit, ChangesRun
<1>4. \A s \in Step : IF x.kind \in {"claim", "finalize"} /\ s = x.step
                      THEN row'[s].status = x.to ELSE row'[s] = row[s]
      BY <1>2, CommitsRow DEF Basics
<1>5. ASSUME x.kind = "claim"
      PROVE  /\ x.step \in Step /\ row[x.step].status = "queued" /\ x.to = "running"
             /\ \A e : e.kind = "advance" => (e \in pending' <=> e \in pending)
  <2>1. Enqueued(x) = {} /\ Consumed(x) = {[kind |-> "execute", step |-> x.step, version |-> x.version]}
        BY <1>5 DEF Enqueued, Consumed
  <2> QED BY <1>5, <2>1, CommitsPending DEF Basics, Kinds, Fences, Flawless
<1>6. ASSUME x.kind = "finalize"
      PROVE  /\ x.step \in Step /\ row[x.step].status = "running" /\ x.to = "succeeded"
             /\ pending' = pending \cup {Advance(x.step, x.version)}
  <2>1. x.to = "succeeded"
        BY <1>6 DEF Flawless
  <2>2. Enqueued(x) = {Advance(x.step, x.version)} /\ Consumed(x) = {}
        BY <1>6, <2>1 DEF Enqueued, Consumed, Advance
  <2> QED BY <1>6, <2>1, <2>2, CommitsPending DEF Basics, Kinds, Fences, Guarded
<1>7. ASSUME x.kind = "advance"
      PROVE  \A e : e.kind = "advance" => (e \in pending' <=> e \in pending /\ e # Advance(x.step, x.version))
  <2>1. Consumed(x) = {Advance(x.step, x.version)} /\ \A e \in Enqueued(x) : e.kind = "execute"
        BY <1>7 DEF Enqueued, Consumed, Advance
  <2> QED BY <2>1, CommitsPending
<1> QED BY <1>1, <1>3, <1>4, <1>5, <1>6, <1>7

\* What has succeeded stays, and what has started stays started.
LEMMA QuietRowsGrow ==
    ASSUME Basics, Flawless, faults = 0, NEW t \in Txn, Commit(t)
    PROVE  /\ \A s \in Step : row[s].status = "succeeded" => row'[s].status = "succeeded"
           /\ \A s \in Step : row[s].status # "queued" => row'[s].status # "queued"
           /\ Started => Started' 
           /\ AllDone => AllDone' /\ txn[t].kind = "advance"
<1> DEFINE x == txn[t]
<1>1. /\ x.kind \in {"claim", "finalize", "advance"}
      /\ \A s \in Step : s # x.step \/ x.kind = "advance" => row'[s] = row[s]
      /\ x.kind = "claim" =>
             x.step \in Step /\ row[x.step].status = "queued" /\ row'[x.step].status = "running"
      /\ x.kind = "finalize" =>
             x.step \in Step /\ row[x.step].status = "running" /\ row'[x.step].status = "succeeded"
      BY QuietCommits
<1>2. /\ \A s \in Step : row[s].status = "succeeded" => row'[s].status = "succeeded"
      /\ \A s \in Step : row[s].status # "queued" => row'[s].status # "queued"
      BY <1>1
<1>3. AllDone => x.kind = "advance"
      BY <1>1 DEF AllDone
<1> QED BY <1>2, <1>3 DEF Started, AllDone

\* Nothing goes wrong by itself.
LEMMA FlawlessNext ==
    ASSUME Basics, Flawless, RedLine = {}, [Next]_vars
    PROVE  Flawless'
<1> SUFFICES ASSUME faults' = 0
             PROVE  /\ exhausted' = {} /\ retired' = {}
                    /\ \A s \in Step : row'[s].status \in {"queued", "running", "succeeded"}
                    /\ \A c \in claims' : row'[c.step] = [status |-> "running", version |-> c.version]
                    /\ \A t \in Txn : /\ txn'[t].kind \in {"none", "claim", "finalize", "advance"}
                                      /\ txn'[t].kind = "claim" => row'[txn'[t].step].status = "queued"
                                      /\ txn'[t].kind = "finalize" => txn'[t].to = "succeeded"
    BY DEF Flawless, Fenced
<1> USE DEF Basics
<1>0. faults = 0
      BY QuietSteps
<1>1. /\ exhausted = {} /\ retired = {} /\ Smooth(row)
      /\ \A c \in claims : row[c.step] = [status |-> "running", version |-> c.version]
      /\ \A t \in Txn : /\ txn[t].kind \in {"none", "claim", "finalize", "advance"}
                        /\ txn[t].kind = "claim" => row[txn[t].step].status = "queued"
                        /\ txn[t].kind = "finalize" => txn[t].to = "succeeded"
      BY <1>0 DEF Flawless, Fenced, Smooth
<1>6. \A c \in claims : c.step \in Step /\ row[c.step].status = "running" /\ row[c.step].version = c.version
  <2> SUFFICES ASSUME NEW c \in claims
               PROVE  c.step \in Step /\ row[c.step].status = "running" /\ row[c.step].version = c.version
      OBVIOUS
  <2>1. row[c.step] = [status |-> "running", version |-> c.version]
        BY <1>1
  <2> QED BY <2>1, Fields
<1>2. ASSUME NEW t \in Txn, NEW kind \in {"claim", "finalize", "advance"}, NEW s \in Step \cup {NoStep},
             NEW v, NEW to, Opens(t, kind, s, v, to), kind = "claim" => row[s].status = "queued",
             kind = "finalize" => to = "succeeded"
      PROVE  /\ UNCHANGED <<row, claims, exhausted, retired>>
             /\ \A u \in Txn : /\ txn'[u].kind \in {"none", "claim", "finalize", "advance"}
                               /\ txn'[u].kind = "claim" => row[txn'[u].step].status = "queued"
                               /\ txn'[u].kind = "finalize" => txn'[u].to = "succeeded"
  <2>1. UNCHANGED <<row, claims, exhausted, retired>>
        BY <1>2 DEF Opens
  <2> QED BY <1>1, <1>2, <2>1, OpensTxn
<1>3. ASSUME NEW t \in Txn, GoesOn(t)
      PROVE  /\ UNCHANGED <<row, claims, exhausted, retired>>
             /\ \A u \in Txn : /\ txn'[u].kind = txn[u].kind
                               /\ txn'[u].step = txn[u].step /\ txn'[u].to = txn[u].to
      BY <1>3 DEF GoesOn
<1>4. ASSUME NEW t \in Txn, Commit(t)
      PROVE  /\ exhausted' = {} /\ retired' = {}
             /\ \A s \in Step : row'[s].status \in {"queued", "running", "succeeded"}
             /\ \A c \in claims' : row'[c.step] = [status |-> "running", version |-> c.version]
             /\ \A u \in Txn : /\ txn'[u].kind \in {"none", "claim", "finalize", "advance"}
                               /\ txn'[u].kind = "claim" => row'[txn'[u].step].status = "queued"
                               /\ txn'[u].kind = "finalize" => txn'[u].to = "succeeded"
  <2> DEFINE x == txn[t]
  <2>1. /\ x.kind \in {"claim", "finalize", "advance"}
        /\ \A s \in Step : s # x.step \/ x.kind = "advance" => row'[s] = row[s]
        /\ x.kind = "claim" =>
               x.step \in Step /\ row[x.step].status = "queued" /\ row'[x.step].status = "running"
        /\ x.kind = "finalize" =>
               x.step \in Step /\ row[x.step].status = "running" /\ row'[x.step].status = "succeeded"
        BY <1>0, <1>4, QuietCommits
  <2>2. exhausted' = {} /\ retired' = {}
        BY <1>1, <1>4, <2>1 DEF Commit
  <2>3. \A s \in Step : row'[s].status \in {"queued", "running", "succeeded"}
        BY <1>1, <2>1 DEF Smooth
  <2>4. ASSUME NEW c \in claims'
        PROVE  row'[c.step] = [status |-> "running", version |-> c.version]
    <3>0. \A d \in claims : d.step \in Step /\ d.version \in Nat /\ d = [step |-> d.step, version |-> d.version]
          BY DEF TypeOK, Claim
    <3>1. CASE x.kind = "claim"
      <4>1. claims' = claims \cup {[step |-> x.step, version |-> x.version + 1]}
            BY <1>4, <3>1 DEF Commit
      <4>2. row'[x.step] = [status |-> "running", version |-> x.version + 1]
        <5>1. row' = [row EXCEPT ![x.step] = [status |-> x.to, version |-> x.version + 1]]
              BY <1>4, <3>1 DEF Commit, WritesStep
        <5> QED BY <2>1, <3>1, <5>1 DEF TypeOK, Kinds
      <4>3. \A d \in claims : d.step # x.step
            BY <1>6, <2>1, <3>1
      <4> QED BY <1>1, <2>1, <3>0, <4>1, <4>2, <4>3
    <3>2. CASE x.kind = "finalize"
      <4>1. claims' = claims \ {[step |-> x.step, version |-> x.version]}
            BY <1>4, <3>2 DEF Commit
      <4>2. row[x.step].version = x.version
            BY <3>2 DEF Guarded, Fences
      <4>3. c.step # x.step
            BY <1>6, <3>0, <4>1, <4>2
      <4> QED BY <1>1, <2>1, <3>0, <4>1, <4>3
    <3>3. CASE x.kind = "advance"
          BY <1>1, <1>4, <2>1, <3>0, <3>3 DEF Commit
    <3> QED BY <2>1, <3>1, <3>2, <3>3
  <2>5. ASSUME NEW u \in Txn
        PROVE  /\ txn'[u].kind \in {"none", "claim", "finalize", "advance"}
               /\ txn'[u].kind = "claim" => row'[txn'[u].step].status = "queued"
               /\ txn'[u].kind = "finalize" => txn'[u].to = "succeeded"
    <3>1. CASE u = t
          BY <1>4, <3>1, CommitsTxn
    <3>2. CASE u # t
      <4>1. txn'[u] = txn[u]
            BY <1>4, <3>2, CommitsTxn
      <4>2. txn[u].kind = "claim" => row'[txn[u].step] = row[txn[u].step]
            BY <1>4, <3>2, OthersKeep DEF Fences
      <4> QED BY <1>1, <4>1, <4>2
    <3> QED BY <3>1, <3>2
  <2> QED BY <2>2, <2>3, <2>4, <2>5
<1>5. CASE UNCHANGED vars
      BY <1>1, <1>5 DEF vars, Smooth
<1> QED
  <2>1. CASE \E t \in Txn, kind \in {"claim", "finalize", "advance"}, s \in Step \cup {NoStep}, v \in Nat, to \in Status :
                 /\ Opens(t, kind, s, v, to)
                 /\ kind = "claim" => row[s].status = "queued"
                 /\ kind = "finalize" => to = "succeeded"
        BY <1>1, <1>2, <2>1 DEF Smooth
  <2>2. CASE \E t \in Txn : GoesOn(t)
        BY <1>1, <1>3, <2>2 DEF Smooth
  <2>3. CASE \E t \in Txn : Commit(t)
        BY <1>4, <2>3
  <2> QED BY <1>5, <2>1, <2>2, <2>3, QuietSteps

\* An advance stays pending until its one handler commits.
LEMMA AdvancesNext ==
    ASSUME Basics, Flawless, Advances, RedLine = {}, [Next]_vars
    PROVE  Advances'
<1> SUFFICES ASSUME faults' = 0
             PROVE  /\ \A e \in pending' : e.kind = "advance" =>
                           IF e.step \in Step THEN row'[e.step].status = "succeeded"
                           ELSE /\ e.version = 0 /\ ~Started'
                                /\ \A f \in pending' : f.kind # "execute"
                                /\ \A t \in Txn : txn'[t].kind # "claim"
                    /\ \A t \in Txn : txn'[t].kind = "advance" =>
                           Advance(txn'[t].step, txn'[t].version) \in pending'
                    /\ \A t, u \in Txn : /\ txn'[t].kind = "advance" /\ txn'[u].kind = "advance"
                                         /\ txn'[t].step = txn'[u].step /\ txn'[t].version = txn'[u].version
                                         => t = u
    BY DEF Advances, Advance
<1> USE DEF Basics
<1>0. faults = 0
      BY QuietSteps
<1>1. /\ \A e \in pending : e.kind = "advance" =>
             IF e.step \in Step THEN row[e.step].status = "succeeded"
             ELSE /\ e.version = 0 /\ ~Started
                  /\ \A f \in pending : f.kind # "execute"
                  /\ \A t \in Txn : txn[t].kind # "claim"
      /\ \A t \in Txn : txn[t].kind = "advance" => Advance(txn[t].step, txn[t].version) \in pending
      /\ \A t, u \in Txn : /\ txn[t].kind = "advance" /\ txn[u].kind = "advance"
                           /\ txn[t].step = txn[u].step /\ txn[t].version = txn[u].version
                           => t = u
      BY <1>0 DEF Advances
<1>2. ASSUME NEW t \in Txn, NEW kind \in {"claim", "finalize", "advance"}, NEW s \in Step \cup {NoStep},
             NEW v, NEW to, Opens(t, kind, s, v, to),
             kind = "claim" => \E e \in pending : e.kind = "execute"
      PROVE  /\ UNCHANGED <<row, pending>>
             /\ kind = "claim" => \A e \in pending : e.kind = "advance" => e.step \in Step
             /\ kind = "advance" => Advance(s, v) \in pending /\ NotHandled("advance", s, v)
             /\ txn'[t].kind = kind /\ txn'[t].step = s /\ txn'[t].version = v
             /\ \A u \in Txn : u # t => txn'[u] = txn[u]
  <2>1. UNCHANGED <<row, pending>>
        BY <1>2 DEF Opens
  <2>2. kind = "advance" => Advance(s, v) \in pending /\ NotHandled("advance", s, v)
        BY <1>2 DEF Opens, Advance
  <2>3. kind = "claim" => \A e \in pending : e.kind = "advance" => e.step \in Step
        BY <1>1, <1>2
  <2> QED BY <1>2, <2>1, <2>2, <2>3, OpensTxn
<1>3. ASSUME NEW t \in Txn, GoesOn(t)
      PROVE  /\ UNCHANGED <<row, pending>>
             /\ \A u \in Txn : /\ txn'[u].kind = txn[u].kind
                               /\ txn'[u].step = txn[u].step /\ txn'[u].version = txn[u].version
      BY <1>3 DEF GoesOn
<1>4. ASSUME NEW t \in Txn, Commit(t)
      PROVE  /\ \A e \in pending' : e.kind = "advance" =>
                    e.step \in Step /\ row'[e.step].status = "succeeded"
             /\ \A u \in Txn : txn'[u].kind = "advance" =>
                    u # t /\ txn'[u] = txn[u] /\ Advance(txn[u].step, txn[u].version) \in pending'
  <2> DEFINE x == txn[t]
  <2>1. /\ x.kind \in {"claim", "finalize", "advance"}
        /\ x.kind = "claim" => \A e : e.kind = "advance" => (e \in pending' <=> e \in pending)
        /\ x.kind = "finalize" =>
               /\ x.step \in Step /\ row[x.step].status = "running" /\ row'[x.step].status = "succeeded"
               /\ pending' = pending \cup {Advance(x.step, x.version)}
        /\ x.kind = "advance" =>
               \A e : e.kind = "advance" => (e \in pending' <=> e \in pending /\ e # Advance(x.step, x.version))
        BY <1>0, <1>4, QuietCommits
  <2>2. \A r \in Step : row[r].status = "succeeded" => row'[r].status = "succeeded"
        BY <1>0, <1>4, QuietRowsGrow
  <2>3. \A r, v : Advance(r, v).kind = "advance" /\ Advance(r, v).step = r /\ Advance(r, v).version = v
        BY DEF Advance
  <2>4. \A e \in pending : e.kind = "advance" => e = Advance(e.step, e.version)
        BY DEF TypeOK, Event, Advance
  <2>5. ASSUME NEW e \in pending, e \in pending', e.kind = "advance"
        PROVE  e.step \in Step /\ row'[e.step].status = "succeeded"
    <3>1. CASE e.step \in Step
          BY <1>1, <2>2, <2>5, <3>1
    <3>2. CASE e.step \notin Step
      <4>1. e.version = 0 /\ ~Started /\ x.kind # "claim" /\ e.step = NoStep
            BY <1>1, <2>5, <3>2, Fields
      <4>2. x.kind = "advance"
            BY <2>1, <4>1 DEF Started
      <4>3. Advance(x.step, x.version) \in pending
            BY <1>1, <4>2
      <4>4. x.step \notin Step
            BY <1>1, <2>3, <4>1, <4>3 DEF Started
      <4>5. x.step = NoStep /\ x.version = 0
            BY <1>1, <2>3, <4>3, <4>4, Fields
      <4> QED BY <2>1, <2>4, <2>5, <4>1, <4>2, <4>5
    <3> QED BY <3>1, <3>2
  <2>6. ASSUME NEW e \in pending', e.kind = "advance"
        PROVE  e.step \in Step /\ row'[e.step].status = "succeeded"
        BY <2>1, <2>3, <2>5, <2>6
  <2>7. ASSUME NEW u \in Txn, txn'[u].kind = "advance"
        PROVE  u # t /\ txn'[u] = txn[u] /\ Advance(txn[u].step, txn[u].version) \in pending'
    <3>1. u # t /\ txn'[u] = txn[u]
          BY <1>4, <2>7, CommitsTxn
    <3>2. Advance(txn[u].step, txn[u].version) \in pending
          BY <1>1, <2>7, <3>1
    <3>3. x.kind = "advance" => Advance(txn[u].step, txn[u].version) # Advance(x.step, x.version)
          BY <1>1, <2>3, <2>7, <3>1
    <3> QED BY <2>1, <2>3, <3>1, <3>2, <3>3
  <2> QED BY <2>6, <2>7
<1>5. CASE UNCHANGED vars
      BY <1>1, <1>5 DEF vars, Started
<1> QED
  <2>1. ASSUME NEW t \in Txn, NEW kind \in {"claim", "finalize", "advance"}, NEW s \in Step \cup {NoStep},
               NEW v, NEW to, Opens(t, kind, s, v, to),
               kind = "claim" => \E e \in pending : e.kind = "execute"
        PROVE  Advances'
    <3> USE <1>2, <2>1
    <3>1. \A e \in pending' : e.kind = "advance" =>
              IF e.step \in Step THEN row'[e.step].status = "succeeded"
              ELSE /\ e.version = 0 /\ ~Started'
                   /\ \A f \in pending' : f.kind # "execute"
                   /\ \A u \in Txn : txn'[u].kind # "claim"
          BY <1>1 DEF Started
    <3>2. \A u \in Txn : txn'[u].kind = "advance" => Advance(txn'[u].step, txn'[u].version) \in pending'
          BY <1>1
    <3>3. \A u, w \in Txn : /\ txn'[u].kind = "advance" /\ txn'[w].kind = "advance"
                            /\ txn'[u].step = txn'[w].step /\ txn'[u].version = txn'[w].version
                            => u = w
      <4>1. ASSUME NEW u \in Txn, u # t, txn'[u].kind = "advance", txn'[t].kind = "advance"
            PROVE  ~(txn'[u].step = txn'[t].step /\ txn'[u].version = txn'[t].version)
            BY <4>1 DEF NotHandled
      <4> QED BY <1>1, <4>1
    <3> QED BY <3>1, <3>2, <3>3 DEF Advances, Advance
  <2>2. CASE \E t \in Txn : GoesOn(t)
        BY <1>1, <1>3, <2>2 DEF Started
  <2>3. CASE \E t \in Txn : Commit(t)
        BY <1>1, <1>4, <2>3
  <2> QED BY <1>5, <2>1, <2>2, <2>3, QuietSteps DEF Advances, Advance

\* A run that told the end keeps telling it, and what a commit makes of the others.
LEMMA RunStays ==
    ASSUME Basics, Flawless, Reads, Told, faults = 0, NEW t \in Txn, Commit(t)
    PROVE  /\ ReadRun(txn[t]) /\ ReadSteps(txn[t])
           /\ run.status = "succeeded" => run'.status = "succeeded"
           /\ run.status # "queued" => run'.status # "queued"
<1> DEFINE x == txn[t]
<1>1. /\ x.kind \in {"claim", "finalize", "advance"} /\ x.pc \notin {"idle", "open"}
      /\ run'.status = IF x.status # x.seen.status THEN x.status ELSE run.status
      BY QuietCommits
<1>2. ReadRun(x) /\ ReadSteps(x)
      BY <1>1 DEF Reads
<1>3. run.status = "succeeded" => AllDone /\ x.kind = "advance"
      BY QuietRowsGrow DEF Told
<1>4. x.status # x.seen.status => x.status # "queued"
      BY <1>1, <1>2 DEF ReadRun, ReadSteps
<1>5. x.kind = "advance" /\ x.status # x.seen.status => x.status = "succeeded"
      BY <1>2 DEF ReadRun, ReadSteps
<1> QED BY <1>1, <1>2, <1>3, <1>4, <1>5

\* A transaction reads a run that tells no more than the steps.
LEMMA ReadsNext ==
    ASSUME TxnAssumption, Basics, Flawless, Advances, Reads, Told, RedLine = {}, [Next]_vars
    PROVE  Reads'
<1> SUFFICES ASSUME faults' = 0, NEW u \in Txn, txn'[u].kind # "none"
             PROVE  ReadRun(txn[u])' /\ (txn'[u].pc # "open" => ReadSteps(txn[u])')
    BY DEF Reads
<1> USE DEF Basics
<1>0. faults = 0
      BY QuietSteps
<1>1. /\ txn[u].kind # "none" => ReadRun(txn[u]) /\ (txn[u].pc # "open" => ReadSteps(txn[u]))
      /\ run.status \in {"queued", "running", "succeeded"}
      /\ run.status = "queued" <=> ~Started
      /\ run.status = "succeeded" => AllDone
      /\ Smooth(row)
      BY <1>0 DEF Reads, Told, Flawless, Smooth
<1>2. ASSUME txn'[u] = txn[u], row' = row, run' = run
      PROVE  ReadRun(txn[u])' /\ (txn'[u].pc # "open" => ReadSteps(txn[u])')
      BY <1>1, <1>2 DEF ReadRun, ReadSteps, Started, AllDone
<1>3. ASSUME NEW t \in Txn, NEW kind \in {"claim", "finalize", "advance"}, NEW s \in Step \cup {NoStep},
             NEW v, NEW to, Opens(t, kind, s, v, to)
      PROVE  ReadRun(txn[u])' /\ (txn'[u].pc # "open" => ReadSteps(txn[u])')
  <2>1. row' = row /\ run' = run
        BY <1>3 DEF Opens
  <2>2. CASE u # t
        BY <1>2, <1>3, <2>1, <2>2, OpensTxn
  <2>3. CASE u = t
    <3>1. txn'[u].pc = "open" /\ txn'[u].kind = kind /\ txn'[u].step = s /\ txn'[u].seen = run
          BY <1>3, <2>3, OpensTxn
    <3>2. kind = "finalize" => run.status = "running"
      <4>1. ASSUME kind = "finalize" PROVE s \in Step /\ row[s].status = "running"
            BY <1>3, <4>1 DEF Opens
      <4> QED BY <1>1, <4>1 DEF Started, AllDone
    <3>3. kind = "advance" => (s \in Step <=> run.status # "queued")
      <4>1. ASSUME kind = "advance" PROVE Advance(s, v) \in pending
            BY <1>3, <4>1 DEF Opens, Advance
      <4>2. Advance(s, v).kind = "advance" /\ Advance(s, v).step = s
            BY DEF Advance
      <4>3. ASSUME kind = "advance" PROVE IF s \in Step THEN row[s].status = "succeeded" ELSE ~Started
            BY <1>0, <4>1, <4>2, <4>3 DEF Advances
      <4> QED BY <1>1, <4>3 DEF Started
    <3>4. run.status # "queued" => Started'
          BY <1>1, <2>1 DEF Started
    <3> QED BY <1>1, <2>1, <3>1, <3>2, <3>3, <3>4 DEF ReadRun
  <2> QED BY <2>2, <2>3
<1>4. ASSUME NEW t \in Txn, GoesOn(t)
      PROVE  ReadRun(txn[u])' /\ (txn'[u].pc # "open" => ReadSteps(txn[u])')
  <2>1. row' = row /\ run' = run
        BY <1>4 DEF GoesOn
  <2>2. CASE u # t
        BY <1>2, <1>4, <2>1, <2>2 DEF GoesOn
  <2>3. CASE u = t
    <3>1. /\ txn'[u].kind = txn[u].kind /\ txn'[u].step = txn[u].step /\ txn'[u].seen = txn[u].seen
          /\ \/ txn[u].pc = "open" /\ txn'[u].status = StatusFor(u)
             \/ txn[u].pc # "open" /\ txn'[u].status = txn[u].status
          BY <1>4, <2>3 DEF GoesOn
    <3>2. ReadRun(txn[u])'
          BY <1>1, <2>1, <3>1 DEF ReadRun, Started
    <3>3. CASE txn[u].pc # "open"
          BY <1>1, <2>1, <3>1, <3>2, <3>3 DEF ReadSteps, AllDone
    <3>4. CASE txn[u].pc = "open"
      <4>1. txn'[u].status = StatusFor(u) /\ ~FailsRun(txn[u])
            BY <1>0, <3>1, <3>4 DEF FailsRun, Flawless
      <4>2. CASE txn[u].kind = "claim"
            BY <3>1, <3>2, <4>1, <4>2 DEF StatusFor, ReadSteps
      <4>3. CASE txn[u].kind = "finalize"
        <5>1. txn[u].to = "succeeded" /\ txn[u].step \in Step /\ WritesStep(txn[u])
              BY <1>0, <4>3 DEF Flawless, Kinds, Fences, WritesStep
        <5>2. \A s \in Step : View(u)[s].status = IF txn[u].step = s THEN "succeeded" ELSE row[s].status
              BY <5>1, ViewType
        <5>3. Smooth(View(u)) /\ StatusFor(u) = DeriveRunStatus(View(u))
              BY <1>1, <4>1, <4>3, <5>2 DEF Smooth, StatusFor
        <5>4. /\ StatusFor(u) \in {"running", "succeeded"}
              /\ StatusFor(u) = "succeeded" =>
                     \A s \in Step : s # txn[u].step => row[s].status = "succeeded"
              BY <5>1, <5>2, <5>3, Derived
        <5> QED BY <2>1, <3>1, <3>2, <4>1, <4>3, <5>4 DEF ReadSteps
      <4>4. CASE txn[u].kind = "advance"
        <5>1. StatusFor(u) = DeriveRunStatus(row)
              BY <4>1, <4>4 DEF StatusFor, View, WritesStep
        <5>2. txn[u].seen.status = "queued" <=> ~Started
          <6>1. Advance(txn[u].step, txn[u].version) \in pending
                BY <1>0, <4>4 DEF Advances
          <6>2. /\ Advance(txn[u].step, txn[u].version).kind = "advance"
                /\ Advance(txn[u].step, txn[u].version).step = txn[u].step
                BY DEF Advance
          <6>3. IF txn[u].step \in Step THEN row[txn[u].step].status = "succeeded" ELSE ~Started
                BY <1>0, <6>1, <6>2 DEF Advances
          <6>4. txn[u].step \in Step <=> txn[u].seen.status # "queued"
                BY <1>1, <4>4 DEF ReadRun
          <6> QED BY <6>3, <6>4 DEF Started
        <5>3. txn[u].seen.status = "succeeded" => AllDone
              BY <1>1, <4>4 DEF ReadRun
        <5>4. /\ DeriveRunStatus(row) \in {"queued", "running", "succeeded"}
              /\ DeriveRunStatus(row) = "succeeded" <=> AllDone
              /\ DeriveRunStatus(row) = "queued" <=> ~Started
              BY <1>1, Derived DEF Started, AllDone
        <5> QED BY <2>1, <3>1, <3>2, <4>1, <4>4, <5>1, <5>2, <5>3, <5>4 DEF ReadSteps, AllDone
      <4>5. txn[u].kind \in {"none", "claim", "finalize", "advance"}
            BY <1>0 DEF Flawless
      <4> QED BY <3>1, <4>2, <4>3, <4>4, <4>5
    <3> QED BY <3>3, <3>4
  <2> QED BY <2>2, <2>3
<1>5. ASSUME NEW t \in Txn, Commit(t)
      PROVE  ReadRun(txn[u])' /\ (txn'[u].pc # "open" => ReadSteps(txn[u])')
  <2>1. u # t /\ txn'[u] = txn[u]
        BY <1>5, CommitsTxn
  <2>2. /\ \A s \in Step : row[s].status = "succeeded" => row'[s].status = "succeeded"
        /\ Started => Started'
        /\ AllDone => AllDone'
        BY <1>0, <1>5, QuietRowsGrow
  <2>3. run.status = "succeeded" => run'.status = "succeeded"
        BY <1>0, <1>5, RunStays
  <2>4. ReadRun(txn[u])'
        BY <1>1, <2>1, <2>2, <2>3 DEF ReadRun
  <2>5. txn[u].pc # "open" => ReadSteps(txn[u])'
        BY <1>1, <2>1, <2>2 DEF ReadSteps
  <2> QED BY <2>1, <2>4, <2>5
<1>6. CASE UNCHANGED vars
      BY <1>2, <1>6 DEF vars
<1> QED BY <1>3, <1>4, <1>5, <1>6, QuietSteps

\* The run's own row tells no more than the steps.
LEMMA ToldNext ==
    ASSUME TxnAssumption, Basics, Flawless, Advances, Reads, Told, RedLine = {}, [Next]_vars
    PROVE  Told'
<1> SUFFICES ASSUME faults' = 0
             PROVE  /\ run'.status \in {"queued", "running", "succeeded"}
                    /\ run'.status = "queued" <=> ~Started'
                    /\ run'.status = "succeeded" => AllDone'
    BY DEF Told
<1> USE DEF Basics
<1>0. faults = 0
      BY QuietSteps
<1>1. /\ run.status \in {"queued", "running", "succeeded"}
      /\ run.status = "queued" <=> ~Started
      /\ run.status = "succeeded" => AllDone
      BY <1>0 DEF Told
<1>2. CASE row' = row /\ run' = run
      BY <1>1, <1>2 DEF Started, AllDone
<1>3. ASSUME NEW t \in Txn, Commit(t)
      PROVE  /\ run'.status \in {"queued", "running", "succeeded"}
             /\ run'.status = "queued" <=> ~Started'
             /\ run'.status = "succeeded" => AllDone'
  <2> DEFINE x == txn[t]
  <2>1. /\ x.kind \in {"claim", "finalize", "advance"}
        /\ run'.status = IF x.status # x.seen.status THEN x.status ELSE run.status
        /\ \A s \in Step : s # x.step \/ x.kind = "advance" => row'[s] = row[s]
        /\ x.kind = "claim" =>
               x.step \in Step /\ row[x.step].status = "queued" /\ row'[x.step].status = "running"
        /\ x.kind = "finalize" =>
               x.step \in Step /\ row[x.step].status = "running" /\ row'[x.step].status = "succeeded"
        BY <1>0, <1>3, QuietCommits
  <2>2. ReadRun(x) /\ ReadSteps(x) /\ (run.status # "queued" => run'.status # "queued")
        BY <1>0, <1>3, RunStays
  <2>3. CASE x.kind = "claim"
        BY <1>1, <2>1, <2>2, <2>3 DEF ReadRun, ReadSteps, Started, AllDone
  <2>4. CASE x.kind = "finalize"
        BY <1>1, <2>1, <2>2, <2>4 DEF ReadRun, ReadSteps, Started, AllDone
  <2>5. CASE x.kind = "advance"
    <3>1. /\ Started' <=> Started
          /\ AllDone' <=> AllDone
          BY <2>1, <2>5 DEF Started, AllDone
    <3>2. AllDone => Started
          BY DEF AllDone, Started, TxnAssumption, TxnStepAssumption
    <3> QED BY <1>1, <2>1, <2>2, <2>5, <3>1, <3>2 DEF ReadRun, ReadSteps
  <2> QED BY <2>1, <2>3, <2>4, <2>5
<1>4. \A t \in Txn, kind \in {"claim", "finalize", "advance"}, s \in Step \cup {NoStep}, v \in Nat, to \in Status :
          Opens(t, kind, s, v, to) => row' = row /\ run' = run
      BY DEF Opens
<1>5. \A t \in Txn : GoesOn(t) => row' = row /\ run' = run
      BY DEF GoesOn
<1>6. UNCHANGED vars => row' = row /\ run' = run
      BY DEF vars
<1> QED BY <1>2, <1>3, <1>4, <1>5, <1>6, QuietSteps

Handles(x, e) == x.kind = "advance" /\ x.step = e.step /\ x.version = e.version

\* What one transaction overlooked, the advance of another brings.
LEMMA RepairedNext ==
    ASSUME TxnAssumption, Basics, Telling, RedLine = {}, [Next]_vars
    PROVE  Repaired'
<1> SUFFICES ASSUME faults' = 0, AllDone', run'.status # "succeeded"
             PROVE  \E e \in pending' :
                        /\ e.kind = "advance" /\ e.step \in Step
                        /\ \A u \in Txn : Handles(txn'[u], e) =>
                               txn'[u].pc = "open" \/ txn'[u].status = "succeeded"
    BY DEF Repaired, Handles
<1> USE DEF Basics, Telling
<1>0. faults = 0
      BY QuietSteps
<1>1. ASSUME AllDone, run.status # "succeeded"
      PROVE  \E e \in pending : /\ e.kind = "advance" /\ e.step \in Step
                                /\ \A u \in Txn : Handles(txn[u], e) =>
                                       txn[u].pc = "open" \/ txn[u].status = "succeeded"
      BY <1>0, <1>1 DEF Repaired, Handles
<1>2. ASSUME NEW t \in Txn, NEW kind \in {"claim", "finalize", "advance"}, NEW s \in Step \cup {NoStep},
             NEW v, NEW to, Opens(t, kind, s, v, to)
      PROVE  \E e \in pending' : /\ e.kind = "advance" /\ e.step \in Step
                                 /\ \A u \in Txn : Handles(txn'[u], e) =>
                                        txn'[u].pc = "open" \/ txn'[u].status = "succeeded"
  <2>1. AllDone /\ run' = run /\ pending' = pending
        BY <1>2 DEF Opens, AllDone
  <2> QED BY <1>1, <1>2, <2>1, OpensTxn
<1>3. ASSUME NEW t \in Txn, GoesOn(t)
      PROVE  \E e \in pending' : /\ e.kind = "advance" /\ e.step \in Step
                                 /\ \A u \in Txn : Handles(txn'[u], e) =>
                                        txn'[u].pc = "open" \/ txn'[u].status = "succeeded"
  <2>1. AllDone /\ run' = run /\ pending' = pending
        BY <1>3 DEF GoesOn, AllDone
  <2>2. /\ txn'[t].kind = txn[t].kind /\ txn'[t].step = txn[t].step /\ txn'[t].version = txn[t].version
        /\ \A u \in Txn : u # t => txn'[u] = txn[u]
        /\ \/ txn[t].pc = "open" /\ txn'[t].status = StatusFor(t)
           \/ txn[t].pc # "open" /\ txn'[t].status = txn[t].status
        BY <1>3 DEF GoesOn
  <2>3. txn[t].kind = "advance" => StatusFor(t) = "succeeded"
    <3>1. txn[t].kind = "advance" => StatusFor(t) = DeriveRunStatus(row)
          BY DEF StatusFor, View, WritesStep, FailsRun
    <3>2. Smooth(row)
          BY <1>0 DEF Flawless, Smooth
    <3> QED BY <2>1, <3>1, <3>2, Derived DEF AllDone
  <2> QED BY <1>1, <2>1, <2>2, <2>3 DEF Handles
<1>4. ASSUME NEW t \in Txn, Commit(t)
      PROVE  \E e \in pending' : /\ e.kind = "advance" /\ e.step \in Step
                                 /\ \A u \in Txn : Handles(txn'[u], e) =>
                                        txn'[u].pc = "open" \/ txn'[u].status = "succeeded"
  <2> DEFINE x == txn[t]
  <2>1. /\ x.kind \in {"claim", "finalize", "advance"} /\ x.pc # "open"
        /\ run'.status = IF x.status # x.seen.status THEN x.status ELSE run.status
        /\ x.kind = "claim" => x.step \in Step /\ row'[x.step].status = "running"
        /\ x.kind = "finalize" =>
               /\ x.step \in Step /\ row[x.step].status = "running"
               /\ pending' = pending \cup {Advance(x.step, x.version)}
        /\ x.kind = "advance" =>
               /\ \A e : e.kind = "advance" =>
                      (e \in pending' <=> e \in pending /\ e # Advance(x.step, x.version))
               /\ \A s \in Step : row'[s] = row[s]
        BY <1>0, <1>4, QuietCommits
  <2>2. /\ txn'[t].kind = "none"
        /\ \A u \in Txn : u # t => txn'[u] = txn[u]
        BY <1>4, CommitsTxn
  <2>3. \A r, v : Advance(r, v).kind = "advance" /\ Advance(r, v).step = r /\ Advance(r, v).version = v
        BY DEF Advance
  <2>4. CASE x.kind = "claim"
        BY <2>1, <2>4 DEF AllDone
  <2>5. CASE x.kind = "finalize"
    <3>1. ASSUME NEW u \in Txn, Handles(txn'[u], Advance(x.step, x.version)) PROVE FALSE
      <4>1. txn[u].kind = "advance" /\ txn[u].step = x.step
            BY <2>2, <2>3, <3>1 DEF Handles
      <4>2. Advance(txn[u].step, txn[u].version) \in pending
            BY <1>0, <4>1 DEF Advances
      <4>3. row[x.step].status = "succeeded"
            BY <1>0, <2>1, <2>3, <2>5, <4>1, <4>2 DEF Advances
      <4> QED BY <2>1, <2>5, <4>3
    <3>2. Advance(x.step, x.version) \in pending'
          BY <2>1, <2>5
    <3> QED BY <2>1, <2>3, <2>5, <3>1, <3>2
  <2>6. CASE x.kind = "advance"
    <3>1. AllDone
          BY <2>1, <2>6 DEF AllDone
    <3>2. run.status # "succeeded"
          BY <1>0, <1>4, RunStays
    <3>3. PICK e \in pending : /\ e.kind = "advance" /\ e.step \in Step
                               /\ \A u \in Txn : Handles(txn[u], e) =>
                                      txn[u].pc = "open" \/ txn[u].status = "succeeded"
          BY <1>1, <3>1, <3>2
    <3>4. ~Handles(x, e)
      <4>1. ReadRun(x)
            BY <1>0, <1>4, RunStays
      <4>2. x.status # "succeeded"
            BY <2>1, <3>2, <4>1 DEF ReadRun
      <4> QED BY <2>1, <3>3, <4>2
    <3>5. e # Advance(x.step, x.version)
          BY <2>3, <2>6, <3>4 DEF Handles
    <3> QED BY <2>1, <2>2, <2>6, <3>3, <3>5 DEF Handles
  <2> QED BY <2>1, <2>4, <2>5, <2>6
<1>5. CASE UNCHANGED vars
  <2>1. AllDone /\ run' = run /\ pending' = pending /\ txn' = txn
        BY <1>5 DEF vars, AllDone
  <2> QED BY <1>1, <2>1
<1> QED BY <1>2, <1>3, <1>4, <1>5, QuietSteps

\* At first the run and the steps are queued and one advance is pending.
LEMMA TellingInit == TxnAssumption /\ Init => Telling
<1> SUFFICES ASSUME TxnAssumption, Init PROVE Telling
    OBVIOUS
<1>1. \A t \in Txn : txn[t].kind = "none"
      BY DEF Init, Closed
<1>2. ~Started /\ ~AllDone
      BY DEF Init, Started, AllDone, TxnAssumption, TxnStepAssumption
<1>3. Flawless
      BY <1>1 DEF Init, Flawless
<1>4. Advances
      BY <1>1, <1>2 DEF Init, Advances, TxnAssumption, TxnNoStepAssumption
<1>5. Reads /\ Told /\ Repaired
      BY <1>1, <1>2 DEF Init, Reads, Told, Repaired
<1> QED BY <1>3, <1>4, <1>5 DEF Telling

\* With no red-line step and while nothing went wrong: when nothing is left to do, the run's
\* status is the one its steps give, however the statements of its transactions interleaved.
THEOREM QuietRunsTell == TxnAssumption /\ RedLine = {} /\ Spec => [](faults = 0 => QuietRunTells)
<1> SUFFICES ASSUME TxnAssumption, RedLine = {} PROVE Spec => [](faults = 0 => QuietRunTells)
    OBVIOUS
<1>1. Init => Telling
      BY TellingInit
<1>2. Basics /\ Telling /\ [Next]_vars => Telling'
      BY FlawlessNext, AdvancesNext, ReadsNext, ToldNext, RepairedNext DEF Telling
<1>3. Telling => (faults = 0 => QuietRunTells)
  <2> SUFFICES ASSUME Telling, faults = 0, Quiet
               PROVE  run.status = DeriveRunStatus(row)
      BY DEF QuietRunTells
  <2>1. Smooth(row) /\ (AllDone => run.status = "succeeded")
        BY DEF Telling, Flawless, Smooth, Repaired, Quiet
  <2>2. /\ run.status \in {"queued", "running", "succeeded"}
        /\ run.status = "queued" <=> ~Started
        /\ run.status = "succeeded" => AllDone
        BY DEF Telling, Told
  <2> QED BY <2>1, <2>2, Derived DEF Started, AllDone
<1>4. Spec => []Basics
      BY TransactionsAreFenced
<1> QED BY <1>1, <1>2, <1>3, <1>4, PTL DEF Spec

-----------------------------------------------------------------------------
(* The transactions implement WorkflowContract, but for one write. *)

\* What the contract sees: a red-line step that has succeeded was accepted; what a worker
\* does outside a transaction is not seen.
Shown == [s \in Step |-> row[s].status]
Accepted == {s \in Step : s \in RedLine /\ row[s].status = "succeeded"}

Contract == INSTANCE WorkflowContract WITH status <- Shown, worked <- {}, accepted <- Accepted

\* The give-up that fail_from_outbox has flushed did not overtake the end of its step: what
\* it read without a lock still held when it took the lock.
NotOvertaken ==
    \A t \in Txn : LET x == txn[t]
                   IN  x.kind = "fail" /\ x.pc # "open" /\ WritesStep(x) =>
                           row[x.step].status \in {"queued", "running"}

\* Ordered, give-ups included: whatever acts for a step has seen its dependencies succeed.
Entitled ==
    /\ \A s \in Step : row[s].status # "queued" => Met(row, s)
    /\ \A e \in pending : e.kind = "execute" => e.step \in Step /\ Met(row, e.step)
    /\ \A t \in Txn : txn[t].kind \in {"claim", "fail"} => Met(row, txn[t].step)
    /\ \A c \in claims : Met(row, c.step)
    /\ \A s \in exhausted : Met(row, s)

\* Only a red-line step waits for a human, and none succeeds without one.
RedWaits ==
    /\ \A s \in Step : row[s].status = "waiting_human" => s \in RedLine
    /\ \A t \in Txn : txn[t].kind = "finalize" =>
           /\ txn[t].to = "succeeded" => txn[t].step \notin RedLine
           /\ txn[t].to = "waiting_human" => txn[t].step \in RedLine

\* A committed write of a step's row, by the kind of the transaction.
RowMove(s) ==
    \/ /\ row[s].status \in {"queued", "running"} /\ Met(row, s) /\ row'[s].status = "running"
    \/ /\ row[s].status = "running"
       /\ \/ row'[s].status = "failed"
          \/ row'[s].status = IF s \in RedLine THEN "waiting_human" ELSE "succeeded"
    \/ row[s].status = "waiting_human" /\ row'[s].status \in {"succeeded", "failed"}
    \/ row[s].status \in {"queued", "running"} /\ Met(row, s) /\ row'[s].status = "failed"

\* What is not a commit leaves the rows alone.
LEMMA OnlyCommitsWrite ==
    ASSUME Basics, [Next]_vars, row' # row
    PROVE  \E t \in Txn : Commit(t)
<1>1. \A t \in Txn, kind \in TxnKind, r \in Step \cup {NoStep}, v \in Nat, to \in Status :
          Opens(t, kind, r, v, to) => row' = row
      BY DEF Opens
<1>2. /\ \A t \in Txn : GoesOn(t) => row' = row
      /\ \A c \in claims : GiveUp(c) => row' = row
      /\ UNCHANGED vars => row' = row
      BY DEF GoesOn, GiveUp, vars
<1> QED BY <1>1, <1>2, Steps DEF Basics

\* What a commit does to the row of its step.
LEMMA CommitMoves ==
    ASSUME Basics, Entitled, RedWaits, NotOvertaken, NEW t \in Txn, Commit(t)
    PROVE  \/ row' = row
           \/ /\ txn[t].step \in Step /\ RowMove(txn[t].step)
              /\ \A s \in Step : s # txn[t].step => row'[s] = row[s]
              /\ txn[t].kind = "decide" <=> row[txn[t].step].status = "waiting_human"
<1> DEFINE x == txn[t]
<1>1. CASE ~WritesStep(x)
      BY <1>1 DEF Commit
<1>2. CASE WritesStep(x)
  <2>1. /\ x.step \in Step /\ row'[x.step].status = x.to
        /\ \A s \in Step : s # x.step => row'[s] = row[s]
        BY <1>2, CommitsRow DEF Basics, Kinds, WritesStep, Fences
  <2>2. x.pc # "open"
        BY CommitsTxn DEF Basics
  <2>3. CASE x.kind = "claim"
    <3>1. x.to = "running" /\ row[x.step].status \in {"queued", "running"} /\ Met(row, x.step)
          BY <2>3 DEF Basics, Kinds, Guarded, Fences, Entitled
    <3> QED BY <2>1, <2>3, <3>1 DEF RowMove
  <2>4. CASE x.kind = "finalize"
    <3>1. /\ row[x.step].status = "running" /\ x.to \in {"succeeded", "waiting_human", "failed"}
          /\ x.to = "succeeded" => x.step \notin RedLine
          /\ x.to = "waiting_human" => x.step \in RedLine
          BY <2>4 DEF Basics, Kinds, Guarded, Fences, RedWaits
    <3> QED BY <2>1, <2>4, <3>1 DEF RowMove
  <2>5. CASE x.kind = "decide"
    <3>1. row[x.step].status = "waiting_human" /\ x.to \in {"succeeded", "failed"}
          BY <2>5 DEF Basics, Kinds, Guarded, Fences
    <3> QED BY <2>1, <2>5, <3>1 DEF RowMove
  <2>6. CASE x.kind = "fail"
    <3>1. row[x.step].status \in {"queued", "running"} /\ Met(row, x.step) /\ x.to = "failed"
          BY <1>2, <2>2, <2>6 DEF NotOvertaken, Entitled, WritesStep
    <3> QED BY <2>1, <2>6, <3>1 DEF RowMove
  <2> QED BY <1>2, <2>3, <2>4, <2>5, <2>6 DEF WritesStep
<1> QED BY <1>1, <1>2

\* Then what has succeeded stays so, and with it every step that was ready.
LEMMA MetStays ==
    ASSUME TxnAssumption, Basics, Entitled, RedWaits, NotOvertaken, [Next]_vars
    PROVE  \A s \in Step : Met(row, s) => Met(row', s)
<1>1. \A s \in Step : Dep[s] \subseteq Step
      BY DEF TxnAssumption, TxnDepAssumption
<1>2. ASSUME NEW d \in Step, row[d].status = "succeeded" PROVE row'[d].status = "succeeded"
  <2>1. CASE row' = row
        BY <1>2, <2>1
  <2>2. CASE row' # row
    <3>1. PICK t \in Txn : Commit(t)
          BY <2>2, OnlyCommitsWrite
    <3>2. RowMove(d) => FALSE
          BY <1>2 DEF RowMove
    <3> QED BY <1>2, <2>2, <3>1, <3>2, CommitMoves
  <2> QED BY <2>1, <2>2
<1> QED BY <1>1, <1>2 DEF Met

\* Entitled is inductive while no give-up overtakes.
LEMMA EntitledNext ==
    ASSUME TxnAssumption, Basics, Entitled, RedWaits, NotOvertaken, [Next]_vars
    PROVE  Entitled'
<1>0. \A s \in Step : Met(row, s) => Met(row', s)
      BY MetStays
<1>1. /\ \A t \in Txn : txn[t].kind \in {"claim", "fail"} => txn[t].step \in Step
      /\ \A c \in claims : c.step \in Step
      /\ exhausted \subseteq Step
      BY Fields DEF Basics, Kinds, Fences, TypeOK
<1>2. ASSUME NEW t \in Txn, NEW kind \in TxnKind, NEW s \in Step \cup {NoStep}, NEW v, NEW to,
             Opens(t, kind, s, v, to)
      PROVE  Entitled'
  <2>1. row' = row /\ pending' = pending /\ claims' = claims /\ exhausted' = exhausted
        BY <1>2 DEF Opens
  <2>2. kind \in {"claim", "fail"} => Met(row, s)
    <3>1. kind = "claim" => \/ s \in Step /\ row[s].status = "running"
                            \/ [kind |-> "execute", step |-> s, version |-> v] \in pending
          BY <1>2 DEF Opens
    <3>2. kind = "fail" => s \in exhausted
          BY <1>2 DEF Opens
    <3> QED BY <3>1, <3>2 DEF Entitled
  <2>3. /\ txn'[t].kind = kind /\ txn'[t].step = s
        /\ \A u \in Txn : u # t => txn'[u] = txn[u]
        BY <1>2, OpensTxn DEF Basics
  <2> QED BY <2>1, <2>2, <2>3 DEF Entitled, Met
<1>3. ASSUME NEW t \in Txn, GoesOn(t) PROVE Entitled'
      BY <1>3 DEF GoesOn, Entitled, Met
<1>4. ASSUME NEW t \in Txn, Commit(t) PROVE Entitled'
  <2>1. ASSUME NEW s \in Step, row'[s].status # "queued" PROVE Met(row', s)
    <3>1. row[s].status # "queued" \/ RowMove(s)
          BY <1>4, <2>1, CommitMoves
    <3>2. RowMove(s) => Met(row, s)
          BY DEF RowMove, Entitled
    <3> QED BY <1>0, <3>1, <3>2 DEF Entitled
  <2>2. ASSUME NEW e \in pending', e.kind = "execute" PROVE e.step \in Step /\ Met(row', e.step)
    <3>1. e \in pending \/ e \in Enqueued(txn[t])
          BY <1>4, CommitsPending
    <3>2. e \in Enqueued(txn[t]) => e.step \in Step /\ Met(row, e.step)
          BY <2>2 DEF Enqueued, Ready, Met
    <3> QED BY <1>0, <2>2, <3>1, <3>2 DEF Entitled
  <2>3. ASSUME NEW u \in Txn, txn'[u].kind \in {"claim", "fail"} PROVE Met(row', txn'[u].step)
    <3>1. txn'[u] = txn[u]
          BY <1>4, <2>3, CommitsTxn DEF Basics
    <3> QED BY <1>0, <1>1, <2>3, <3>1 DEF Entitled
  <2>4. ASSUME NEW c \in claims' PROVE Met(row', c.step)
    <3>1. c \in claims \/ (txn[t].kind = "claim" /\ c.step = txn[t].step)
          BY <1>4 DEF Commit
    <3> QED BY <1>0, <1>1, <3>1 DEF Entitled
  <2>5. ASSUME NEW s \in exhausted' PROVE Met(row', s)
    <3>1. s \in exhausted
          BY <1>4 DEF Commit
    <3> QED BY <1>0, <1>1, <3>1 DEF Entitled
  <2> QED BY <2>1, <2>2, <2>3, <2>4, <2>5 DEF Entitled, Met
<1>5. ASSUME NEW c \in claims, GiveUp(c) PROVE Entitled'
      BY <1>5 DEF GiveUp, Entitled, Met
<1>6. CASE UNCHANGED vars
      BY <1>6 DEF vars, Entitled, Met
<1> QED BY <1>2, <1>3, <1>4, <1>5, <1>6, Steps DEF Basics

\* RedWaits is inductive: complete_step chooses the status by the step's red_line.
LEMMA RedWaitsNext ==
    ASSUME TxnAssumption, Basics, RedWaits, [Next]_vars
    PROVE  RedWaits'
<1>1. ASSUME NEW t \in Txn, NEW kind \in TxnKind, NEW s \in Step \cup {NoStep}, NEW v, NEW to,
             Opens(t, kind, s, v, to)
      PROVE  RedWaits'
  <2>1. kind = "finalize" => /\ to = "succeeded" => s \notin RedLine
                             /\ to = "waiting_human" => s \in RedLine
        BY <1>1 DEF Opens
  <2>2. row' = row
        BY <1>1 DEF Opens
  <2> QED BY <1>1, <2>1, <2>2, OpensTxn DEF Basics, RedWaits
<1>2. ASSUME NEW t \in Txn, GoesOn(t) PROVE RedWaits'
      BY <1>2 DEF GoesOn, RedWaits
<1>3. ASSUME NEW t \in Txn, Commit(t) PROVE RedWaits'
  <2>1. ASSUME NEW s \in Step, row'[s].status = "waiting_human" PROVE s \in RedLine
    <3>1. CASE WritesStep(txn[t]) /\ s = txn[t].step
      <4>1. txn[t].to = "waiting_human"
            BY <1>3, <2>1, <3>1, CommitsRow DEF Basics
      <4>2. txn[t].kind = "finalize"
            BY <3>1, <4>1 DEF Basics, Kinds, WritesStep
      <4> QED BY <3>1, <4>1, <4>2 DEF RedWaits
    <3>2. CASE ~(WritesStep(txn[t]) /\ s = txn[t].step)
          BY <1>3, <2>1, <3>2, CommitsRow DEF Basics, RedWaits
    <3> QED BY <3>1, <3>2
  <2>2. \A u \in Txn : txn'[u].kind = "finalize" => txn'[u] = txn[u]
        BY <1>3, CommitsTxn DEF Basics
  <2> QED BY <2>1, <2>2 DEF RedWaits
<1>4. ASSUME NEW c \in claims, GiveUp(c) PROVE RedWaits'
      BY <1>4 DEF GiveUp, RedWaits
<1>5. CASE UNCHANGED vars
      BY <1>5 DEF vars, RedWaits
<1> QED BY <1>1, <1>2, <1>3, <1>4, <1>5, Steps DEF Basics

\* At first nothing has started.
LEMMA EntitledInit == Init => Entitled /\ RedWaits
<1> SUFFICES ASSUME Init PROVE Entitled /\ RedWaits
    OBVIOUS
<1>1. \A t \in Txn : txn[t].kind = "none"
      BY DEF Init, Closed
<1> QED BY <1>1 DEF Init, Entitled, RedWaits

\* What holds of every behaviour in which no give-up overtakes the end of its step.
LEMMA WhileNotOvertaken ==
    TxnAssumption => (Spec /\ []NotOvertaken => [](Basics /\ Entitled /\ RedWaits))
<1> SUFFICES ASSUME TxnAssumption
             PROVE  Spec /\ []NotOvertaken => [](Basics /\ Entitled /\ RedWaits)
    OBVIOUS
<1>1. Init => Entitled /\ RedWaits
      BY EntitledInit
<1>2. Basics /\ NotOvertaken /\ Entitled /\ RedWaits /\ [Next]_vars => Entitled' /\ RedWaits'
      BY EntitledNext, RedWaitsNext
<1>3. Spec => []Basics
      BY TransactionsAreFenced
<1> QED BY <1>1, <1>2, <1>3, PTL DEF Spec

\* The contract's actions, for a row that moves alone.
LEMMA ContractMoves ==
    ASSUME TxnAssumption, NEW s \in Step, RowMove(s), row[s].status = "waiting_human" => s \in RedLine,
           \A r \in Step : r # s => row'[r] = row[r]
    PROVE  [Contract!Next]_(Contract!vars)
<1>1. /\ Shown[s] = row[s].status
      /\ Shown' = [Shown EXCEPT ![s] = row'[s].status]
      BY DEF Shown
<1>2. \A to : row'[s].status = to => Contract!Move(s, to)
      BY <1>1 DEF Contract!Move
<1>3. Met(row, s) => Contract!Ready(s)
      BY DEF Met, Contract!Ready, Shown, TxnAssumption, TxnDepAssumption
<1>4. Accepted' = IF s \in RedLine /\ row'[s].status = "succeeded" THEN Accepted \cup {s}
                  ELSE Accepted \ (IF row[s].status = "succeeded" THEN {s} ELSE {})
      BY DEF Accepted
<1>5. row[s].status # "succeeded"
      BY DEF RowMove
<1>6. CASE row[s].status \in {"queued", "running"} /\ Met(row, s) /\ row'[s].status = "running"
  <2>1. CASE row[s].status = "queued"
        BY <1>1, <1>2, <1>3, <1>4, <1>5, <1>6, <2>1 DEF Contract!Next, Contract!Start
  <2>2. CASE row[s].status = "running"
    <3>1. Shown' = Shown /\ Accepted' = Accepted
          BY <1>1, <1>4, <1>5, <1>6, <2>2 DEF Shown
    <3> QED BY <3>1 DEF Contract!vars
  <2> QED BY <1>6, <2>1, <2>2
<1>7. CASE /\ row[s].status = "running"
           /\ \/ row'[s].status = "failed"
              \/ row'[s].status = IF s \in RedLine THEN "waiting_human" ELSE "succeeded"
  <2>1. Accepted' = Accepted
        BY <1>4, <1>5, <1>7
  <2>2. Contract!Finish(s)
        BY <1>1, <1>2, <1>7, <2>1 DEF Contract!Finish
  <2> QED BY <2>2 DEF Contract!Next
<1>8. CASE row[s].status = "waiting_human" /\ row'[s].status \in {"succeeded", "failed"}
  <2>1. Contract!Accept(s) \/ Contract!Reject(s)
        BY <1>1, <1>2, <1>4, <1>5, <1>8 DEF Contract!Accept, Contract!Reject
  <2> QED BY <2>1 DEF Contract!Next
<1>9. CASE row[s].status \in {"queued", "running"} /\ Met(row, s) /\ row'[s].status = "failed"
  <2>1. Contract!GiveUp(s)
        BY <1>1, <1>2, <1>3, <1>4, <1>5, <1>9 DEF Contract!GiveUp
  <2> QED BY <2>1 DEF Contract!Next
<1> QED BY <1>6, <1>7, <1>8, <1>9 DEF RowMove

\* Every behaviour of the transactions, their statements interleaved in any way, is one of
\* WorkflowContract, unless a give-up overtakes the end of its step.
THEOREM TransactionsKeepContract ==
    TxnAssumption => (Spec /\ []NotOvertaken => Contract!Spec)
<1> SUFFICES ASSUME TxnAssumption PROVE Spec /\ []NotOvertaken => Contract!Spec
    OBVIOUS
<1>1. Init => Contract!Init
      BY DEF Init, Contract!Init, Shown, Accepted
<1>2. ASSUME Basics, Entitled, RedWaits, NotOvertaken, [Next]_vars
      PROVE  [Contract!Next]_(Contract!vars)
  <2>1. CASE row' = row
        BY <2>1 DEF Contract!vars, Shown, Accepted
  <2>2. CASE row' # row
    <3>1. PICK t \in Txn : Commit(t)
          BY <1>2, <2>2, OnlyCommitsWrite
    <3>2. /\ txn[t].step \in Step /\ RowMove(txn[t].step)
          /\ \A s \in Step : s # txn[t].step => row'[s] = row[s]
          BY <1>2, <2>2, <3>1, CommitMoves
    <3> QED BY <1>2, <3>2, ContractMoves DEF RedWaits
  <2> QED BY <2>1, <2>2
<1>3. Spec /\ []NotOvertaken => [](Basics /\ Entitled /\ RedWaits)
      BY WhileNotOvertaken
<1> QED BY <1>1, <1>2, <1>3, PTL DEF Spec, Contract!Spec

\* Then the rule of the durable-workflow-runtime spec that a completed step is not done again
\* is kept too: a give-up that overtakes the end of its step is the one way to break it.
THEOREM CompletedStaysUnlessOvertaken ==
    TxnAssumption => (Spec /\ []NotOvertaken => CompletedStepsStay)
<1> SUFFICES ASSUME TxnAssumption PROVE Spec /\ []NotOvertaken => CompletedStepsStay
    OBVIOUS
<1>1. ASSUME Basics, Entitled, RedWaits, NotOvertaken, [Next]_vars,
             NEW s \in Step, row[s].status \in {"succeeded", "waiting_human"}, row'[s] # row[s]
      PROVE  \E t \in Txn : txn[t].kind = "decide" /\ txn[t].step = s
  <2>1. PICK t \in Txn : Commit(t)
        BY <1>1, OnlyCommitsWrite
  <2>2. s = txn[t].step /\ RowMove(s) /\ (txn[t].kind = "decide" <=> row[s].status = "waiting_human")
        BY <1>1, <2>1, CommitMoves
  <2> QED BY <1>1, <2>2 DEF RowMove
<1>2. Basics /\ Entitled /\ RedWaits /\ NotOvertaken /\ [Next]_vars =>
          [\A s \in Step : row[s].status \in {"succeeded", "waiting_human"} =>
               \/ row'[s] = row[s]
               \/ \E t \in Txn : txn[t].kind = "decide" /\ txn[t].step = s]_vars
      BY <1>1
<1>3. Spec /\ []NotOvertaken => [](Basics /\ Entitled /\ RedWaits)
      BY WhileNotOvertaken
<1> QED BY <1>2, <1>3, PTL DEF Spec, CompletedStepsStay

\* And the dependencies of a step that started have succeeded and stay so, give-ups or not.
THEOREM DependenciesStayUnlessOvertaken ==
    TxnAssumption => (Spec /\ []NotOvertaken => []DependenciesBeforeStart)
<1> SUFFICES ASSUME TxnAssumption PROVE Spec /\ []NotOvertaken => []DependenciesBeforeStart
    OBVIOUS
<1>1. Entitled => DependenciesBeforeStart
      BY DEF Entitled, DependenciesBeforeStart, Met
<1>2. Spec /\ []NotOvertaken => [](Basics /\ Entitled /\ RedWaits)
      BY WhileNotOvertaken
<1> QED BY <1>1, <1>2, PTL
=============================================================================
