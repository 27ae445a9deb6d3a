---------------------------- MODULE EventTransport ----------------------------
(***************************************************************************)
(* The contracts of events between services: an inbox that gives leased    *)
(* claims to the workers of a consumer, the store of dead letters, and     *)
(* their replay, as the adapters in memory carry them out.                 *)
(*                                                                         *)
(* A published event is delivered any number of times.  A worker reads the *)
(* clock before it asks, ends or fails, and the inbox looks at that time   *)
(* when the call has its lock: the clock may have moved by then.  A worker *)
(* that dies keeps its claim until the lease is over.                      *)
(*                                                                         *)
(* The workers and the relay that delivers are external; they follow the   *)
(* ports.                                                                  *)
(***************************************************************************)
EXTENDS Naturals, FiniteSets

CONSTANTS Event, Worker, Of,      \* worker |-> the consumer it works for
          Lease, Delay,           \* how long a claim lasts, and a retry waits
          Replay,                 \* the requests of operators
          LastTime, MaxAttempts   \* bounds: of the clock and of an inbox entry

EventTransportAssumption ==
    Lease \in Nat \ {0} /\ Delay \in Nat \ {0} /\ LastTime \in Nat /\ MaxAttempts \in Nat

VARIABLES now,
          published,  \* event |-> how often it was published
          entry,      \* consumer, event |-> the entry of the inbox
          worker,
          letter,     \* the dead letters: failure |-> how often it was replayed
          replay,     \* request |-> [stage, of]
          given, told \* the claims that were given, and those whose completion was told
transportVars == <<now, published, entry, worker, letter, replay, given, told>>

Consumer == {Of[w] : w \in Worker}
NoClaim == [attempt |-> 0]
NoFailure == [attempt |-> 0, retryable |-> TRUE, retry_at |-> 0]
Entry0 == [attempt |-> 0, active |-> NoClaim, completed |-> FALSE, failure |-> NoFailure]
Idle == [stage |-> "idle", event |-> "none", at |-> 0, claim |-> NoClaim, retryable |-> TRUE]

TypeOK ==
    /\ now \in 0..LastTime
    /\ \A k \in Consumer \X Event : entry[k].attempt \in 0..MaxAttempts
    /\ \A w \in Worker : worker[w].stage \in {"idle", "asking", "working", "completing", "failing", "terminal"}
    /\ \A q \in Replay : replay[q].stage \in {"idle", "published", "recorded", "failed"}

Init ==
    /\ now = 0 /\ published = [e \in Event |-> 0] /\ letter = [f \in {} |-> 0]
    /\ entry = [k \in Consumer \X Event |-> Entry0]
    /\ worker = [w \in Worker |-> Idle] /\ replay = [q \in Replay |-> [stage |-> "idle", of |-> NoFailure]]
    /\ given = {} /\ told = {}

Key(w) == <<Of[w], worker[w].event>>
Goto(w, stage) == worker' = [worker EXCEPT ![w].stage = stage]

publish(e) ==
    /\ published[e] = 0 /\ published' = [published EXCEPT ![e] = 1]
    /\ UNCHANGED <<now, entry, worker, letter, replay, given, told>>

\* An event that was published reaches a worker, again and again.
Deliver(w, e) ==
    /\ worker[w].stage = "idle" /\ published[e] > 0
    /\ worker' = [worker EXCEPT ![w] = [Idle EXCEPT !.stage = "asking", !.event = e, !.at = now]]
    /\ UNCHANGED <<now, published, entry, letter, replay, given, told>>

\* Whether an entry may be claimed at a time.
Claimable(r, at) ==
    /\ ~r.completed
    /\ r.active = NoClaim \/ r.active.until <= at
    /\ r.failure.retryable /\ r.failure.retry_at <= at

\* The worker gets the claim of the next attempt, or nothing.
claim(w) ==
    /\ worker[w].stage = "asking"
    /\ LET r == entry[Key(w)]   at == worker[w].at
           new == [key |-> Key(w), by |-> w, attempt |-> r.attempt + 1, at |-> at, until |-> at + Lease]
       IN  IF Claimable(r, at)
           THEN /\ r.attempt < MaxAttempts
                /\ entry' = [entry EXCEPT ![Key(w)].attempt = @ + 1, ![Key(w)].active = new]
                /\ worker' = [worker EXCEPT ![w].stage = "working", ![w].claim = new]
                /\ given' = given \cup {new}
           ELSE Goto(w, "idle") /\ UNCHANGED <<entry, given>>
    /\ UNCHANGED <<now, published, letter, replay, told>>

\* The worker is through, or failed for now or for good, and reads the clock.
Work(w, stage, retryable) ==
    /\ worker[w].stage = "working"
    /\ worker' = [worker EXCEPT ![w].stage = stage, ![w].at = now, ![w].retryable = retryable]
    /\ UNCHANGED <<now, published, entry, letter, replay, given, told>>

\* Variant of Holds: the claim need not be the active one.
HoldsLate(w) == worker[w].at < worker[w].claim.until

\* A worker holds an entry whose active claim is its own, within the lease.
Holds(w) == /\ entry[Key(w)].active = worker[w].claim
            /\ worker[w].at < worker[w].claim.until

complete(w) ==
    /\ worker[w].stage = "completing"
    /\ IF Holds(w)
       THEN /\ entry' = [entry EXCEPT ![Key(w)].active = NoClaim, ![Key(w)].completed = TRUE]
            /\ told' = told \cup {worker[w].claim}
       ELSE UNCHANGED <<entry, told>>
    /\ Goto(w, "idle") /\ UNCHANGED <<now, published, letter, replay, given>>

Failure(w) == [key |-> Key(w), attempt |-> worker[w].claim.attempt]

release(w) ==
    /\ worker[w].stage = "failing"
    /\ IF Holds(w)
       THEN entry' = [entry EXCEPT ![Key(w)].active = NoClaim,
                ![Key(w)].failure = [attempt |-> worker[w].claim.attempt, retryable |-> worker[w].retryable,
                                     retry_at |-> IF worker[w].retryable THEN worker[w].at + Delay ELSE 0]]
       ELSE UNCHANGED entry
    /\ Goto(w, IF Holds(w) /\ ~worker[w].retryable THEN "terminal" ELSE "idle")
    /\ UNCHANGED <<now, published, letter, replay, given, told>>

\* The worker stores a final failure; it may do so again: there is one letter of it.
put(w) ==
    /\ worker[w].stage = "terminal"
    /\ letter' = [f \in DOMAIN letter \cup {Failure(w)} |-> IF f \in DOMAIN letter THEN letter[f] ELSE 0]
    /\ \E stage \in {"terminal", "idle"} : Goto(w, stage)
    /\ UNCHANGED <<now, published, entry, replay, given, told>>

Crash(w) ==
    /\ worker[w].stage # "idle" /\ Goto(w, "idle")
    /\ UNCHANGED <<now, published, entry, letter, replay, given, told>>

\* An operator has the event of a letter published again, and then that is recorded.
Republish(q, f) ==
    /\ replay[q].stage = "idle"
    /\ published' = [published EXCEPT ![f.key[2]] = @ + 1]
    /\ replay' = [replay EXCEPT ![q] = [stage |-> "published", of |-> f]]
    /\ UNCHANGED <<now, entry, worker, letter, given, told>>

record_replay(q) ==
    /\ replay[q].stage = "published"
    /\ \/ letter' = [letter EXCEPT ![replay[q].of] = @ + 1] /\ replay' = [replay EXCEPT ![q].stage = "recorded"]
       \/ replay' = [replay EXCEPT ![q].stage = "failed"] /\ UNCHANGED letter
    /\ UNCHANGED <<now, published, entry, worker, given, told>>

Tick == /\ now < LastTime /\ now' = now + 1
        /\ UNCHANGED <<published, entry, worker, letter, replay, given, told>>

Next ==
    \/ \E e \in Event : publish(e) \/ \E w \in Worker : Deliver(w, e)
    \/ \E w \in Worker : \/ claim(w) \/ complete(w) \/ release(w) \/ put(w) \/ Crash(w)
                         \/ Work(w, "completing", TRUE) \/ \E b \in BOOLEAN : Work(w, "failing", b)
    \/ \E q \in Replay : record_replay(q) \/ \E f \in DOMAIN letter : Republish(q, f)
    \/ Tick

Spec == Init /\ [][Next]_transportVars

-----------------------------------------------------------------------------
\* However often an event is delivered and whoever worked on it late, one worker of a
\* consumer is told that it completed it: the one with the last claim.
EffectsOnce ==
    /\ \A c, d \in told : c.key = d.key => c = d
    /\ \A k \in Consumer \X Event : entry[k].completed <=> \E c \in told : c.key = k
    /\ \A c \in told, d \in given : c.key = d.key => d.attempt <= c.attempt

\* Two claims are out within their leases only if the first was given back.
OneHolder ==
    \A v, w \in Worker : /\ worker[v].stage = "working" /\ worker[w].stage = "working"
                         /\ Key(v) = Key(w) /\ now < worker[v].claim.until /\ now < worker[w].claim.until
                         => v = w

\* What failed for good is not tried again, what failed for now not before its time, and
\* the attempts are counted one by one.
RetriesWait ==
    \A k \in Consumer \X Event :
       LET f == entry[k].failure   later == {c \in given : c.key = k /\ c.attempt > f.attempt}
       IN  /\ f.retryable \/ later = {}
           /\ \A c \in later : c.at >= f.retry_at
           /\ {c.attempt : c \in {d \in given : d.key = k}} = 1..entry[k].attempt
           /\ Cardinality({c \in given : c.key = k}) = entry[k].attempt

\* A letter is of a failure that ended its entry, and no replay is recorded of an event
\* that was not published again.
LettersAreTrue ==
    \A f \in DOMAIN letter :
       /\ entry[f.key].failure.attempt = f.attempt /\ ~entry[f.key].failure.retryable
       /\ letter[f] < published[f.key[2]]

(* What the documents promise and the code does not keep (see README). *)

\* An event that was replayed can be worked on again: the failure that made the letter
\* keeps its entry closed.
ReplayedIsRedelivered ==
    \A f \in DOMAIN letter : letter[f] > 0 => entry[f.key].completed \/ Claimable(entry[f.key], LastTime)
=============================================================================
