----------------------------- MODULE OutboxTable -----------------------------
(***************************************************************************)
(* The rows of the outbox table (app/platform/outbox/model.py) and the     *)
(* guarded UPDATE statements of app/platform/outbox/repository.py, as      *)
(* operators on a table: a function from dedupe keys to rows whose DOMAIN  *)
(* grows with every new key.                                               *)
(*                                                                         *)
(* Time is abstracted.  lease_until is "none", "live" (not before now) or  *)
(* "expired" (before now); available_at is not represented, so a pending   *)
(* row may be claimed at any time and in any order, which includes every   *)
(* order the retry delays and the ORDER BY of claim_next can produce.      *)
(***************************************************************************)
EXTENDS Integers

CONSTANTS
    Worker,       \* worker_id values; one per process incarnation
    NoWorker,     \* lease_owner = None
    MaxAttempts   \* max_attempts, the same for every event

ASSUME NoWorkerAssumption == NoWorker \notin Worker
ASSUME MaxAttemptsAssumption == MaxAttempts \in Nat \ {0}

OutboxStatus == {"pending", "processing", "done", "failed"}
Lease == {"none", "live", "expired"}

\* The columns of OutboxEvent the protocol reads.
Row == [status   : OutboxStatus,
        attempts : Nat,
        owner    : Worker \cup {NoWorker},
        lease    : Lease]

\* enqueue: a fresh row.
NewRow == [status |-> "pending", attempts |-> 0, owner |-> NoWorker, lease |-> "none"]

\* enqueue: keys the table already has, whatever their status, are left alone.
EnqueueAll(table, keys) ==
    [k \in DOMAIN table \cup keys |-> IF k \in DOMAIN table THEN table[k] ELSE NewRow]

\* Variant of Claimable with a plausible mistake: the lease is not looked at.
ClaimableLeased(row) == row.status \in {"pending", "processing"}

\* claim_next: a pending row, or a processing row whose lease has run out.
\* The statement does not look at attempts.
Claimable(row) ==
    \/ row.status = "pending"
    \/ row.status = "processing" /\ row.lease = "expired"

ClaimRow(row, w) ==
    [status |-> "processing", attempts |-> row.attempts + 1, owner |-> w, lease |-> "live"]

\* The WHERE clause shared by complete, renew_lease, defer and fail: it asks for
\* the owner and not for an unexpired lease.
Holds(row, w) == row.status = "processing" /\ row.owner = w

Released(row, status) ==
    [row EXCEPT !.status = status, !.owner = NoWorker, !.lease = "none"]

CompleteRow(row, w) == IF Holds(row, w) THEN Released(row, "done") ELSE row

\* Variant of DeferRow with a plausible mistake: the WHERE clause is forgotten.
DeferUnheld(row, w) == [Released(row, "pending") EXCEPT !.attempts = row.attempts - 1]

\* defer gives the attempt back.
DeferRow(row, w) ==
    IF Holds(row, w)
    THEN [Released(row, "pending") EXCEPT !.attempts = row.attempts - 1]
    ELSE row

\* attempts >= max_attempts
Exhausted(row) == row.attempts >= MaxAttempts

FailRow(row, w) ==
    IF Holds(row, w)
    THEN Released(row, IF Exhausted(row) THEN "failed" ELSE "pending")
    ELSE row

RenewRow(row, w) == IF Holds(row, w) THEN [row EXCEPT !.lease = "live"] ELSE row

\* replay (with reset_attempts): out of failed only.
Replayable(row) == row.status = "failed"
ReplayRow(row) == IF Replayable(row) THEN NewRow ELSE row

\* Not yet settled: a worker will still take this row up.
Unsettled(row) == row.status \in {"pending", "processing"}
=============================================================================
