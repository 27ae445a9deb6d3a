------------------------- MODULE EventTransport_proofs -------------------------
(***************************************************************************)
(* Proofs about EventTransport: for any number of consumers, workers,      *)
(* events and deliveries, an event takes effect once for a consumer, has   *)
(* one holder within its lease, waits before it is tried again, and only   *)
(* what failed for good has a letter.                                      *)
(***************************************************************************)
EXTENDS EventTransport, FiniteSetTheorems, TLAPS

-----------------------------------------------------------------------------
(* The inductive invariant. *)

Entries == Consumer \X Event

Claims == [key : Entries, by : Worker, attempt : Nat \ {0}, at : Nat, until : Nat]

Letters == [key : Entries, attempt : Nat]

Failures == [attempt : Nat, retryable : BOOLEAN, retry_at : Nat]

EntryRows == [attempt : {n \in Nat : n <= MaxAttempts}, active : Claims \cup {NoClaim}, completed : BOOLEAN, failure : Failures]

Stages == {"idle", "asking", "working", "completing", "failing", "terminal"}

Workers == [stage : Stages, event : Event \cup {"none"}, at : Nat, claim : Claims \cup {NoClaim},
            retryable : BOOLEAN]

Requests == [stage : {"idle", "published", "recorded", "failed"}, of : Letters \cup {NoFailure}]

\* The state has the shape the code gives it.
Shapes ==
    /\ now \in 0..LastTime
    /\ published \in [Event -> Nat]
    /\ entry \in [Entries -> EntryRows]
    /\ worker \in [Worker -> Workers]
    /\ DOMAIN letter \subseteq Letters /\ letter \in [DOMAIN letter -> Nat]
    /\ replay \in [Replay -> Requests]
    /\ given \subseteq Claims

\* The claims that were given for an entry.
GivenFor(k) == {c \in given : c.key = k}

\* They have the numbers from one to the last attempt, each once.
Counted ==
    \A k \in Entries :
       /\ IsFiniteSet(GivenFor(k)) /\ Cardinality(GivenFor(k)) = entry[k].attempt
       /\ {c.attempt : c \in GivenFor(k)} = 1..entry[k].attempt
       /\ \A c, d \in GivenFor(k) : c.attempt = d.attempt => c = d

\* The active claim of an entry is the last one that was given for it.
LastIsActive ==
    \A k \in Entries : LET c == entry[k].active
                       IN  c # NoClaim => c \in given /\ c.key = k /\ c.attempt = entry[k].attempt

HasClaim(w) == worker[w].stage \in {"working", "completing", "failing", "terminal"}

\* A worker has a claim that was given to it, for a published event; while it works the
\* claim is the active one or its lease is over.
Handling ==
    \A w \in Worker :
       LET c == worker[w].claim
       IN  /\ worker[w].at <= now
           /\ worker[w].stage # "idle" => worker[w].event \in Event /\ published[worker[w].event] > 0
           /\ HasClaim(w) => c \in given /\ c.key = Key(w) /\ c.by = w
           /\ worker[w].stage = "working" => entry[Key(w)].active = c \/ c.until <= now

\* A completed entry has nothing active and was completed by its last claim.
Finished ==
    /\ told \subseteq given
    /\ \A k \in Entries : /\ entry[k].completed <=> \E c \in told : c.key = k
                          /\ entry[k].completed => entry[k].active = NoClaim
    /\ \A c \in told : c.attempt = entry[c.key].attempt

\* A failure is of an attempt that was made, a final one of the last; later claims waited
\* for it.
Failed ==
    \A k \in Entries :
       LET f == entry[k].failure
       IN  /\ f.attempt <= entry[k].attempt
           /\ ~f.retryable => f.attempt = entry[k].attempt /\ entry[k].active = NoClaim
           /\ \A c \in GivenFor(k) : c.attempt > f.attempt => c.at >= f.retry_at

\* What a worker stores as a dead letter ended its entry.
Terminal ==
    \A w \in Worker : worker[w].stage = "terminal" =>
       /\ entry[Key(w)].failure.attempt = worker[w].claim.attempt
       /\ ~entry[Key(w)].failure.retryable

\* The replays of a letter that are under way.
Pending(f) == {q \in Replay : replay[q].stage = "published" /\ replay[q].of = f}

\* A letter is of a failure that ended its entry, and every replay of it, recorded or under
\* way, has published its event once more than it was.
Replays ==
    /\ \A q \in Replay : replay[q].stage = "published" => replay[q].of \in DOMAIN letter
    /\ \A f \in DOMAIN letter :
          /\ entry[f.key].failure.attempt = f.attempt /\ ~entry[f.key].failure.retryable
          /\ IsFiniteSet(Pending(f))
          /\ letter[f] + Cardinality(Pending(f)) < published[f.key[2]]

Inv == Shapes /\ Counted /\ LastIsActive /\ Handling /\ Finished /\ Failed /\ Terminal /\ Replays

-----------------------------------------------------------------------------
(* Every step keeps it. *)

\* Nothing is published, given or in hand at first.
LEMMA TransportInit == EventTransportAssumption /\ Init => Inv
<1> SUFFICES ASSUME EventTransportAssumption, Init PROVE Inv
    OBVIOUS
<1> USE DEF Init, Entry0, Idle, NoFailure
<1>1. Shapes
  <2>1. Entry0 \in EntryRows
        BY DEF EntryRows, Failures, NoClaim, EventTransportAssumption
  <2>2. Idle \in Workers
        BY DEF Workers, Stages, NoClaim
  <2>3. [stage |-> "idle", of |-> NoFailure] \in Requests
        BY DEF Requests
  <2> HIDE DEF Entry0, Idle, NoFailure
  <2> QED BY <2>1, <2>2, <2>3 DEF Shapes, EventTransportAssumption, Entries
<1>2. Counted
  <2> SUFFICES ASSUME NEW k \in Entries
               PROVE  /\ IsFiniteSet(GivenFor(k)) /\ Cardinality(GivenFor(k)) = entry[k].attempt
                      /\ {c.attempt : c \in GivenFor(k)} = 1..entry[k].attempt
                      /\ \A c, d \in GivenFor(k) : c.attempt = d.attempt => c = d
      BY DEF Counted
  <2>1. GivenFor(k) = {} /\ entry[k].attempt = 0
        BY DEF GivenFor, Entries
  <2>2. 1..0 = {} /\ {c.attempt : c \in {}} = {}
        OBVIOUS
  <2> QED BY <2>1, <2>2, FS_EmptySet
<1>3. LastIsActive
      BY DEF LastIsActive, Entries
<1>4. Handling
      BY DEF Handling, HasClaim
<1>5. Finished
      BY DEF Finished, Entries
<1>6. Failed
      BY DEF Failed, GivenFor, Entries
<1>7. Terminal
      BY DEF Terminal
<1>8. Replays
      BY DEF Replays
<1> QED BY <1>1, <1>2, <1>3, <1>4, <1>5, <1>6, <1>7, <1>8 DEF Inv

\* The rows of the state, field by field.
LEMMA Fields ==
    /\ \A r \in Workers : /\ r.stage \in Stages /\ r.event \in Event \cup {"none"} /\ r.at \in Nat
                          /\ r.claim \in Claims \cup {NoClaim} /\ r.claim.attempt \in Nat /\ r.retryable \in BOOLEAN
    /\ \A r \in EntryRows : /\ r.attempt \in Nat /\ r.attempt <= MaxAttempts /\ r.active \in Claims \cup {NoClaim}
                            /\ r.completed \in BOOLEAN /\ r.failure \in Failures
    /\ \A f \in Failures : f.attempt \in Nat /\ f.retryable \in BOOLEAN /\ f.retry_at \in Nat
    /\ \A c \in Claims : /\ c # NoClaim /\ c.key \in Entries /\ c.by \in Worker
                         /\ c.attempt \in Nat /\ c.attempt >= 1 /\ c.at \in Nat /\ c.until \in Nat
    /\ \A r \in Requests : r.of \in Letters \cup {NoFailure}
    /\ \A f \in Letters : /\ f.key \in Entries /\ f.key[2] \in Event /\ f.attempt \in Nat
<1>1. \A c \in Claims : /\ c # NoClaim /\ c.key \in Entries /\ c.by \in Worker
                         /\ c.attempt \in Nat /\ c.attempt >= 1 /\ c.at \in Nat /\ c.until \in Nat
      BY DEF Claims, NoClaim
<1>2. \A r \in Workers : /\ r.stage \in Stages /\ r.event \in Event \cup {"none"} /\ r.at \in Nat
                          /\ r.claim \in Claims \cup {NoClaim} /\ r.retryable \in BOOLEAN
      BY DEF Workers
<1>3. \A r \in Workers : r.claim.attempt \in Nat
      BY <1>1, <1>2 DEF NoClaim
<1>4. \A f \in Letters : /\ f.key \in Entries /\ f.key[2] \in Event /\ f.attempt \in Nat
      BY DEF Letters, Entries
<1> QED BY <1>1, <1>2, <1>3, <1>4 DEF EntryRows, Failures, Requests

\* A worker that only goes to another stage keeps its shape.
LEMMA GotoShape ==
    ASSUME worker \in [Worker -> Workers], NEW w \in Worker, NEW s \in Stages, Goto(w, s)
    PROVE  worker' \in [Worker -> Workers]
<1>1. [worker[w] EXCEPT !.stage = s] \in Workers
      BY DEF Workers
<1> QED BY <1>1 DEF Goto

\* Every step keeps the shapes; only claim (memory.py) makes a claim, and its numbers fit.
LEMMA ShapesNext == EventTransportAssumption /\ Inv /\ [Next]_transportVars => Shapes'
<1> SUFFICES ASSUME EventTransportAssumption, Shapes, Handling, Replays, [Next]_transportVars PROVE Shapes'
    BY DEF Inv
<1> USE DEF EventTransportAssumption
<1>0. /\ \A w \in Worker : worker[w] \in Workers
      /\ now \in Nat
      BY DEF Shapes
<1>1. ASSUME NEW e \in Event, publish(e) PROVE Shapes'
      BY <1>1 DEF Shapes, publish
<1>2. ASSUME NEW w \in Worker, NEW e \in Event, Deliver(w, e) PROVE Shapes'
  <2>1. Idle \in Workers
        BY DEF Idle, Workers, Stages
  <2>2. [Idle EXCEPT !.stage = "asking", !.event = e, !.at = now] \in Workers
        BY <1>0, <2>1 DEF Workers, Stages
  <2> QED BY <1>2, <2>2 DEF Shapes, Deliver
<1>3. ASSUME NEW w \in Worker, claim(w) PROVE Shapes'
  <2>1. CASE Claimable(entry[Key(w)], worker[w].at)
    <3> DEFINE new == [key |-> Key(w), by |-> w, attempt |-> entry[Key(w)].attempt + 1, at |-> worker[w].at,
                       until |-> worker[w].at + Lease]
    <3>1. Key(w) \in Entries
          BY <1>3 DEF Handling, claim, Key, Entries, Consumer
    <3>2. entry[Key(w)] \in EntryRows
          BY <3>1 DEF Shapes
    <3>3. new \in Claims
          BY <1>0, <3>1, <3>2, Fields DEF Claims
    <3>4. entry[Key(w)].attempt < MaxAttempts
          BY <1>3, <2>1 DEF claim
    <3>5. [worker[w] EXCEPT !.stage = "working", !.claim = new] \in Workers
          BY <1>0, <3>3 DEF Workers, Stages
    <3>6. entry[Key(w)].attempt + 1 \in Nat /\ entry[Key(w)].attempt + 1 <= MaxAttempts
          BY <3>2, <3>4, Fields
    <3>7. [entry[Key(w)] EXCEPT !.attempt = @ + 1, !.active = new] \in EntryRows
          BY <3>2, <3>3, <3>6 DEF EntryRows
    <3>8. /\ entry' = [entry EXCEPT ![Key(w)] = [entry[Key(w)] EXCEPT !.attempt = @ + 1, !.active = new]]
          /\ worker' = [worker EXCEPT ![w] = [worker[w] EXCEPT !.stage = "working", !.claim = new]]
          /\ given' = given \cup {new}
          BY <1>3, <2>1, <3>1 DEF claim, Shapes
    <3> QED BY <1>3, <2>1, <3>1, <3>3, <3>5, <3>7, <3>8 DEF Shapes, claim
  <2>2. CASE ~Claimable(entry[Key(w)], worker[w].at)
        BY <1>3, <2>2, GotoShape DEF Shapes, claim, Stages
  <2> QED BY <2>1, <2>2
<1>4. ASSUME NEW w \in Worker, complete(w) PROVE Shapes'
  <2>1. worker' \in [Worker -> Workers]
        BY <1>4, GotoShape DEF Shapes, complete, Stages
  <2>2. \A r \in EntryRows : [r EXCEPT !.active = NoClaim, !.completed = TRUE] \in EntryRows
        BY DEF EntryRows
  <2>3. Key(w) \in Entries
        BY <1>4 DEF Handling, HasClaim, complete, Key, Entries, Consumer
  <2>4. \/ entry' = entry
        \/ entry' = [entry EXCEPT ![Key(w)] = [entry[Key(w)] EXCEPT !.active = NoClaim, !.completed = TRUE]]
        BY <1>4, <2>3 DEF Shapes, complete
  <2>5. entry' \in [Entries -> EntryRows]
        BY <2>2, <2>3, <2>4 DEF Shapes
  <2> QED BY <1>4, <2>1, <2>5 DEF Shapes, complete
<1>5. ASSUME NEW w \in Worker, release(w) PROVE Shapes'
  <2>1. worker' \in [Worker -> Workers]
        BY <1>5, GotoShape DEF Shapes, release, Stages
  <2> DEFINE f == [attempt |-> worker[w].claim.attempt, retryable |-> worker[w].retryable,
                   retry_at |-> IF worker[w].retryable THEN worker[w].at + Delay ELSE 0]
  <2>2. f \in Failures
        BY <1>0, Fields DEF Failures
  <2>3. \A r \in EntryRows : [r EXCEPT !.active = NoClaim, !.failure = f] \in EntryRows
        BY <2>2 DEF EntryRows
  <2>4. Key(w) \in Entries
        BY <1>5 DEF Handling, HasClaim, release, Key, Entries, Consumer
  <2>5. \/ entry' = entry
        \/ entry' = [entry EXCEPT ![Key(w)] = [entry[Key(w)] EXCEPT !.active = NoClaim, !.failure = f]]
        BY <1>5, <2>4 DEF Shapes, release
  <2> HIDE DEF f
  <2>6. entry' \in [Entries -> EntryRows]
        BY <2>3, <2>4, <2>5 DEF Shapes
  <2> QED BY <1>5, <2>1, <2>6 DEF Shapes, release
<1>6. ASSUME NEW w \in Worker, put(w) PROVE Shapes'
  <2>1. worker[w].claim \in Claims /\ worker[w].claim.key = Key(w)
        BY <1>6 DEF put, Handling, HasClaim, Shapes
  <2>2. Failure(w) \in Letters
        BY <2>1, Fields DEF Failure, Letters
  <2>3. worker' \in [Worker -> Workers]
        BY <1>6, GotoShape DEF Shapes, put, Stages
  <2>4. DOMAIN letter' = DOMAIN letter \cup {Failure(w)} /\ letter' \in [DOMAIN letter' -> Nat]
        BY <1>6 DEF Shapes, put
  <2> QED BY <1>6, <2>2, <2>3, <2>4 DEF Shapes, put
<1>7. ASSUME NEW w \in Worker, Crash(w) PROVE Shapes'
      BY <1>7, GotoShape DEF Shapes, Crash, Stages
<1>8. ASSUME NEW w \in Worker, NEW s \in {"completing", "failing"}, NEW b \in BOOLEAN, Work(w, s, b) PROVE Shapes'
  <2>1. [worker[w] EXCEPT !.stage = s, !.at = now, !.retryable = b] \in Workers
        BY <1>0 DEF Workers, Stages
  <2>2. worker' = [worker EXCEPT ![w] = [worker[w] EXCEPT !.stage = s, !.at = now, !.retryable = b]]
        BY <1>8 DEF Shapes, Work
  <2> QED BY <1>8, <2>1, <2>2 DEF Shapes, Work
<1>9. ASSUME NEW q \in Replay, record_replay(q) PROVE Shapes'
  <2>1. \A r \in Requests, s \in {"recorded", "failed"} : [r EXCEPT !.stage = s] \in Requests
        BY DEF Requests
  <2>2. PICK s \in {"recorded", "failed"} : replay' = [replay EXCEPT ![q] = [replay[q] EXCEPT !.stage = s]]
        BY <1>9 DEF Shapes, record_replay
  <2>3. letter[replay[q].of] + 1 \in Nat
        BY <1>9 DEF Shapes, record_replay, Replays
  <2>4. letter' = letter \/ letter' = [letter EXCEPT ![replay[q].of] = @ + 1]
        BY <1>9 DEF record_replay
  <2>5. DOMAIN letter' = DOMAIN letter /\ letter' \in [DOMAIN letter -> Nat]
        BY <2>3, <2>4 DEF Shapes
  <2>6. replay' \in [Replay -> Requests]
        BY <2>1, <2>2 DEF Shapes
  <2> QED BY <1>9, <2>5, <2>6 DEF Shapes, record_replay
<1>10. ASSUME NEW q \in Replay, NEW f \in DOMAIN letter, Republish(q, f) PROVE Shapes'
  <2>1. f \in Letters
        BY DEF Shapes
  <2>2. [stage |-> "published", of |-> f] \in Requests
        BY <2>1 DEF Requests
  <2>3. f.key[2] \in Event
        BY <2>1, Fields
  <2> QED BY <1>10, <2>2, <2>3 DEF Shapes, Republish
<1>11. ASSUME Tick PROVE Shapes'
       BY <1>11 DEF Shapes, Tick
<1>12. ASSUME UNCHANGED transportVars PROVE Shapes'
       BY <1>12 DEF Shapes, transportVars
<1> QED BY <1>1, <1>2, <1>3, <1>4, <1>5, <1>6, <1>7, <1>8, <1>9, <1>10, <1>11, <1>12 DEF Next

\* What a step does to the entries and their claims: it gives a claim, ends one, or neither.
LEMMA EntryStep ==
    [Next]_transportVars =>
       \/ \E w \in Worker : claim(w) /\ Claimable(entry[Key(w)], worker[w].at)
       \/ \E w \in Worker : complete(w) /\ Holds(w)
       \/ \E w \in Worker : release(w) /\ Holds(w)
       \/ UNCHANGED <<entry, given, told>>
<1> USE DEF claim, complete, release
<1> QED BY DEF Next, publish, Deliver, Work, put, Crash, Republish, record_replay, Tick, transportVars

\* The claim a worker gets.
NewClaim(w) == [key |-> Key(w), by |-> w, attempt |-> entry[Key(w)].attempt + 1, at |-> worker[w].at,
                until |-> worker[w].at + Lease]

\* What giving a claim does.
LEMMA Giving ==
    ASSUME Shapes, Handling, NEW w \in Worker, claim(w), Claimable(entry[Key(w)], worker[w].at)
    PROVE  /\ Key(w) \in Entries
           /\ entry[Key(w)].attempt \in Nat
           /\ given' = given \cup {NewClaim(w)}
           /\ entry'[Key(w)].attempt = entry[Key(w)].attempt + 1
           /\ entry'[Key(w)].active = NewClaim(w)
           /\ entry'[Key(w)].completed = entry[Key(w)].completed
           /\ entry'[Key(w)].failure = entry[Key(w)].failure
           /\ \A k \in Entries : k # Key(w) => entry'[k] = entry[k]
<1>1. Key(w) \in Entries
      BY DEF Handling, claim, Key, Entries, Consumer
<1>2. /\ given' = given \cup {NewClaim(w)}
      /\ entry' = [entry EXCEPT ![Key(w)] = [entry[Key(w)] EXCEPT !.attempt = @ + 1, !.active = NewClaim(w)]]
      BY <1>1 DEF Shapes, claim, NewClaim
<1>3. entry[Key(w)] \in EntryRows
      BY <1>1 DEF Shapes
<1> DEFINE r == [entry[Key(w)] EXCEPT !.attempt = @ + 1, !.active = NewClaim(w)]
<1>4. /\ r.attempt = entry[Key(w)].attempt + 1 /\ r.active = NewClaim(w)
      /\ r.completed = entry[Key(w)].completed /\ r.failure = entry[Key(w)].failure
      BY <1>3 DEF EntryRows
<1>5. entry'[Key(w)] = r /\ \A k \in Entries : k # Key(w) => entry'[k] = entry[k]
      BY <1>1, <1>2 DEF Shapes
<1> QED BY <1>1, <1>2, <1>3, <1>4, <1>5, Fields

\* What ending a claim, completed or failed, does.
LEMMA Ending ==
    ASSUME Shapes, Handling, LastIsActive, NEW w \in Worker, complete(w) \/ release(w), Holds(w)
    PROVE  /\ Key(w) \in Entries
           /\ worker[w].claim \in given /\ worker[w].claim.key = Key(w) /\ worker[w].claim.by = w
           /\ entry[Key(w)].active = worker[w].claim /\ worker[w].claim # NoClaim
           /\ worker[w].claim.attempt = entry[Key(w)].attempt
           /\ given' = given
           /\ entry'[Key(w)].attempt = entry[Key(w)].attempt
           /\ entry'[Key(w)].active = NoClaim
           /\ complete(w) => entry'[Key(w)].completed /\ entry'[Key(w)].failure = entry[Key(w)].failure
           /\ release(w) => /\ entry'[Key(w)].completed = entry[Key(w)].completed
                            /\ entry'[Key(w)].failure.attempt = worker[w].claim.attempt
                            /\ entry'[Key(w)].failure.retryable = worker[w].retryable
           /\ \A k \in Entries : k # Key(w) => entry'[k] = entry[k]
<1>1. /\ Key(w) \in Entries
      /\ worker[w].claim \in given /\ worker[w].claim.key = Key(w) /\ worker[w].claim.by = w
      BY DEF Handling, HasClaim, complete, release, Key, Entries, Consumer
<1>2. worker[w].claim # NoClaim /\ entry[Key(w)].active = worker[w].claim
      BY <1>1, Fields DEF Shapes, Holds
<1>3. worker[w].claim.attempt = entry[Key(w)].attempt
      BY <1>1, <1>2 DEF LastIsActive
<1>4. entry[Key(w)] \in EntryRows /\ given' = given
      BY <1>1 DEF Shapes, complete, release
<1>5. CASE complete(w)
  <2> DEFINE r == [entry[Key(w)] EXCEPT !.active = NoClaim, !.completed = TRUE]
  <2>1. entry' = [entry EXCEPT ![Key(w)] = r]
        BY <1>1, <1>5 DEF complete, Shapes
  <2>2. /\ r.attempt = entry[Key(w)].attempt /\ r.active = NoClaim /\ r.completed
        /\ r.failure = entry[Key(w)].failure
        BY <1>4 DEF EntryRows
  <2>3. entry'[Key(w)] = r /\ \A k \in Entries : k # Key(w) => entry'[k] = entry[k]
        BY <1>1, <2>1 DEF Shapes
  <2>4. ~release(w)
        BY <1>5 DEF complete, release
  <2> QED BY <1>1, <1>2, <1>3, <1>4, <2>2, <2>3, <2>4
<1>6. CASE release(w)
  <2> DEFINE f == [attempt |-> worker[w].claim.attempt, retryable |-> worker[w].retryable,
                   retry_at |-> IF worker[w].retryable THEN worker[w].at + Delay ELSE 0]
             r == [entry[Key(w)] EXCEPT !.active = NoClaim, !.failure = f]
  <2>1. entry' = [entry EXCEPT ![Key(w)] = r]
        BY <1>1, <1>6 DEF release, Shapes
  <2>2. f.attempt = worker[w].claim.attempt /\ f.retryable = worker[w].retryable
        OBVIOUS
  <2> HIDE DEF f
  <2>3. /\ r.attempt = entry[Key(w)].attempt /\ r.active = NoClaim
        /\ r.completed = entry[Key(w)].completed /\ r.failure = f
        BY <1>4 DEF EntryRows
  <2>4. entry'[Key(w)] = r /\ \A k \in Entries : k # Key(w) => entry'[k] = entry[k]
        BY <1>1, <2>1 DEF Shapes
  <2>5. ~complete(w)
        BY <1>6 DEF complete, release
  <2> QED BY <1>1, <1>2, <1>3, <1>4, <2>2, <2>3, <2>4, <2>5
<1> QED BY <1>5, <1>6

\* claim gives the next number of its entry, and nothing takes a claim back.
LEMMA CountedNext == Inv /\ [Next]_transportVars => Counted'
<1> SUFFICES ASSUME Inv, [Next]_transportVars, NEW k \in Entries
             PROVE  /\ IsFiniteSet(GivenFor(k)') /\ Cardinality(GivenFor(k)') = entry'[k].attempt
                    /\ {c.attempt : c \in GivenFor(k)'} = 1..entry'[k].attempt
                    /\ \A c, d \in GivenFor(k)' : c.attempt = d.attempt => c = d
    BY DEF Counted
<1>1. /\ IsFiniteSet(GivenFor(k)) /\ Cardinality(GivenFor(k)) = entry[k].attempt
      /\ {c.attempt : c \in GivenFor(k)} = 1..entry[k].attempt
      /\ \A c, d \in GivenFor(k) : c.attempt = d.attempt => c = d
      BY DEF Inv, Counted
<1>2. ASSUME given' = given, entry'[k].attempt = entry[k].attempt
      PROVE  /\ IsFiniteSet(GivenFor(k)') /\ Cardinality(GivenFor(k)') = entry'[k].attempt
             /\ {c.attempt : c \in GivenFor(k)'} = 1..entry'[k].attempt
             /\ \A c, d \in GivenFor(k)' : c.attempt = d.attempt => c = d
  <2>1. GivenFor(k)' = GivenFor(k)
        BY <1>2 DEF GivenFor
  <2> QED BY <1>1, <1>2, <2>1
<1>3. ASSUME NEW w \in Worker, claim(w), Claimable(entry[Key(w)], worker[w].at)
      PROVE  /\ IsFiniteSet(GivenFor(k)') /\ Cardinality(GivenFor(k)') = entry'[k].attempt
             /\ {c.attempt : c \in GivenFor(k)'} = 1..entry'[k].attempt
             /\ \A c, d \in GivenFor(k)' : c.attempt = d.attempt => c = d
  <2>1. /\ Key(w) \in Entries
        /\ given' = given \cup {NewClaim(w)}
        /\ entry[Key(w)].attempt \in Nat
        /\ entry'[Key(w)].attempt = entry[Key(w)].attempt + 1 /\ entry'[Key(w)].active = NewClaim(w)
        /\ entry'[Key(w)].completed = entry[Key(w)].completed
        /\ entry'[Key(w)].failure = entry[Key(w)].failure
        /\ \A j \in Entries : j # Key(w) => entry'[j] = entry[j]
        BY <1>3, Giving DEF Inv
  <2>2. CASE k # Key(w)
    <3>1. GivenFor(k)' = GivenFor(k)
          BY <2>1, <2>2 DEF GivenFor, NewClaim
    <3> QED BY <1>1, <2>1, <2>2, <3>1
  <2>3. CASE k = Key(w)
    <3>1. GivenFor(k)' = GivenFor(k) \cup {NewClaim(w)}
          BY <2>1, <2>3 DEF GivenFor, NewClaim
    <3>2. /\ entry[k].attempt \in Nat /\ entry'[k].attempt = entry[k].attempt + 1
          /\ NewClaim(w).attempt = entry[k].attempt + 1
          BY <2>1, <2>3 DEF NewClaim
    <3>3. \A c \in GivenFor(k) : c.attempt \in 1..entry[k].attempt
          BY <1>1
    <3>4. NewClaim(w) \notin GivenFor(k)
          BY <3>2, <3>3
    <3>5. IsFiniteSet(GivenFor(k)') /\ Cardinality(GivenFor(k)') = entry'[k].attempt
          BY <1>1, <3>1, <3>2, <3>4, FS_AddElement
    <3>6. {c.attempt : c \in GivenFor(k)'} = {c.attempt : c \in GivenFor(k)} \cup {entry[k].attempt + 1}
          BY <3>1, <3>2
    <3>7. {c.attempt : c \in GivenFor(k)'} = 1..entry'[k].attempt
          BY <1>1, <3>2, <3>6
    <3>8. \A c, d \in GivenFor(k)' : c.attempt = d.attempt => c = d
          BY <1>1, <3>1, <3>2, <3>3
    <3> QED BY <3>5, <3>7, <3>8
  <2> QED BY <2>2, <2>3
<1>4. ASSUME NEW w \in Worker, complete(w) \/ release(w), Holds(w)
      PROVE  given' = given /\ entry'[k].attempt = entry[k].attempt
  <2>1. /\ given' = given /\ entry'[Key(w)].attempt = entry[Key(w)].attempt
        /\ \A j \in Entries : j # Key(w) => entry'[j] = entry[j]
        BY <1>4, Ending DEF Inv
  <2> QED BY <2>1
<1> QED BY <1>2, <1>3, <1>4, EntryStep

\* An entry is given anew, closed or left alone: the active claim stays the last one.
LEMMA LastIsActiveNext == Inv /\ [Next]_transportVars => LastIsActive'
<1> SUFFICES ASSUME Inv, [Next]_transportVars, NEW k \in Entries, entry'[k].active # NoClaim
             PROVE  /\ entry'[k].active \in given' /\ entry'[k].active.key = k
                    /\ entry'[k].active.attempt = entry'[k].attempt
    BY DEF LastIsActive, Entries
<1> DEFINE Goal == /\ entry'[k].active \in given' /\ entry'[k].active.key = k
                   /\ entry'[k].active.attempt = entry'[k].attempt
<1>1. ASSUME given \subseteq given', entry'[k] = entry[k] PROVE Goal
      BY <1>1 DEF Inv, LastIsActive
<1>2. ASSUME NEW w \in Worker, claim(w), Claimable(entry[Key(w)], worker[w].at) PROVE Goal
  <2>1. /\ Key(w) \in Entries
        /\ given' = given \cup {NewClaim(w)}
        /\ entry[Key(w)].attempt \in Nat
        /\ entry'[Key(w)].attempt = entry[Key(w)].attempt + 1 /\ entry'[Key(w)].active = NewClaim(w)
        /\ entry'[Key(w)].completed = entry[Key(w)].completed
        /\ entry'[Key(w)].failure = entry[Key(w)].failure
        /\ \A j \in Entries : j # Key(w) => entry'[j] = entry[j]
        BY <1>2, Giving DEF Inv
  <2>2. CASE k # Key(w)
        BY <1>1, <2>1, <2>2
  <2>3. CASE k = Key(w)
        BY <2>1, <2>3 DEF NewClaim
  <2> QED BY <2>2, <2>3
<1>3. ASSUME NEW w \in Worker, complete(w) \/ release(w), Holds(w) PROVE Goal
  <2>1. /\ given' = given /\ entry'[Key(w)].active = NoClaim
        /\ \A j \in Entries : j # Key(w) => entry'[j] = entry[j]
        BY <1>3, Ending DEF Inv
  <2> QED BY <1>1, <2>1
<1>4. ASSUME UNCHANGED <<entry, given, told>> PROVE Goal
      BY <1>1, <1>4
<1> QED BY <1>2, <1>3, <1>4, EntryStep

\* complete closes an entry for its active claim, which is the last; claim refuses it then.
LEMMA FinishedNext == Inv /\ [Next]_transportVars => Finished'
<1> SUFFICES ASSUME Inv, [Next]_transportVars PROVE Finished'
    OBVIOUS
<1>1. Finished
      BY DEF Inv
<1>2. ASSUME NEW w \in Worker, claim(w), Claimable(entry[Key(w)], worker[w].at) PROVE Finished'
  <2>1. /\ Key(w) \in Entries
        /\ given' = given \cup {NewClaim(w)}
        /\ entry[Key(w)].attempt \in Nat
        /\ entry'[Key(w)].attempt = entry[Key(w)].attempt + 1 /\ entry'[Key(w)].active = NewClaim(w)
        /\ entry'[Key(w)].completed = entry[Key(w)].completed
        /\ entry'[Key(w)].failure = entry[Key(w)].failure
        /\ \A j \in Entries : j # Key(w) => entry'[j] = entry[j]
        BY <1>2, Giving DEF Inv
  <2>2. told' = told
        BY <1>2 DEF claim
  <2>3. ~entry[Key(w)].completed
        BY <1>2 DEF Claimable
  <2>4. ~entry'[Key(w)].completed
        BY <2>1, <2>3
  <2>5. \A c \in told : c.key # Key(w) /\ c.key \in Entries
        BY <1>1, <2>1, <2>3, Fields DEF Finished, Inv, Shapes
  <2> QED BY <1>1, <2>1, <2>2, <2>4, <2>5 DEF Finished, Entries
<1>3. ASSUME NEW w \in Worker, complete(w), Holds(w) PROVE Finished'
  <2>1. /\ Key(w) \in Entries
        /\ worker[w].claim \in given /\ worker[w].claim.key = Key(w)
        /\ worker[w].claim.attempt = entry[Key(w)].attempt
        /\ given' = given /\ entry'[Key(w)].active = NoClaim
        /\ entry'[Key(w)].attempt = entry[Key(w)].attempt
        /\ \A k \in Entries : k # Key(w) => entry'[k] = entry[k]
        BY <1>3, Ending DEF Inv
  <2>2. told' = told \cup {worker[w].claim} /\ entry'[Key(w)].completed
        BY <1>3, Ending DEF complete, Inv
  <2>3. \A c \in told' : c.key \in Entries
        BY <2>1, <2>2, <1>1, Fields DEF Finished, Inv, Shapes
  <2> QED BY <1>1, <2>1, <2>2, <2>3 DEF Finished, Entries
<1>4. ASSUME NEW w \in Worker, release(w), Holds(w) PROVE Finished'
  <2>1. /\ Key(w) \in Entries
        /\ given' = given /\ entry'[Key(w)].active = NoClaim
        /\ entry'[Key(w)].attempt = entry[Key(w)].attempt
        /\ \A k \in Entries : k # Key(w) => entry'[k] = entry[k]
        BY <1>4, Ending DEF Inv
  <2>2. told' = told /\ entry'[Key(w)].completed = entry[Key(w)].completed
        BY <1>4, Ending DEF release, Inv
  <2>3. \A c \in told : c.key \in Entries
        BY <1>1, Fields DEF Finished, Inv, Shapes
  <2> QED BY <1>1, <2>1, <2>2, <2>3 DEF Finished, Entries
<1>5. ASSUME UNCHANGED <<entry, given, told>> PROVE Finished'
      BY <1>1, <1>5 DEF Finished, Entries
<1> QED BY <1>2, <1>3, <1>4, <1>5, EntryStep

\* fail notes the active claim and releases it; the next claim waits for its retry_at.
LEMMA FailedNext == EventTransportAssumption /\ Inv /\ [Next]_transportVars => Failed'
<1> SUFFICES ASSUME EventTransportAssumption, Inv, [Next]_transportVars, NEW k \in Entries
             PROVE  /\ entry'[k].failure.attempt <= entry'[k].attempt
                    /\ ~entry'[k].failure.retryable =>
                          entry'[k].failure.attempt = entry'[k].attempt /\ entry'[k].active = NoClaim
                    /\ \A c \in GivenFor(k)' : c.attempt > entry'[k].failure.attempt =>
                                               c.at >= entry'[k].failure.retry_at
    BY DEF Failed, Entries
<1> DEFINE Goal == /\ entry'[k].failure.attempt <= entry'[k].attempt
                   /\ ~entry'[k].failure.retryable =>
                         entry'[k].failure.attempt = entry'[k].attempt /\ entry'[k].active = NoClaim
                   /\ \A c \in GivenFor(k)' : c.attempt > entry'[k].failure.attempt =>
                                              c.at >= entry'[k].failure.retry_at
<1>0. /\ entry[k].failure.attempt <= entry[k].attempt
      /\ ~entry[k].failure.retryable => entry[k].failure.attempt = entry[k].attempt /\ entry[k].active = NoClaim
      /\ \A c \in GivenFor(k) : c.attempt > entry[k].failure.attempt => c.at >= entry[k].failure.retry_at
      BY DEF Inv, Failed
<1>1. ASSUME GivenFor(k)' = GivenFor(k), entry'[k] = entry[k] PROVE Goal
      BY <1>0, <1>1
<1>2. ASSUME NEW w \in Worker, claim(w), Claimable(entry[Key(w)], worker[w].at) PROVE Goal
  <2>1. /\ Key(w) \in Entries
        /\ given' = given \cup {NewClaim(w)}
        /\ entry[Key(w)].attempt \in Nat
        /\ entry'[Key(w)].attempt = entry[Key(w)].attempt + 1 /\ entry'[Key(w)].active = NewClaim(w)
        /\ entry'[Key(w)].completed = entry[Key(w)].completed
        /\ entry'[Key(w)].failure = entry[Key(w)].failure
        /\ \A j \in Entries : j # Key(w) => entry'[j] = entry[j]
        BY <1>2, Giving DEF Inv
  <2>2. CASE k # Key(w)
    <3>1. GivenFor(k)' = GivenFor(k)
          BY <2>1, <2>2 DEF GivenFor, NewClaim
    <3> QED BY <1>1, <2>1, <2>2, <3>1
  <2>3. CASE k = Key(w)
    <3>1. GivenFor(k)' = GivenFor(k) \cup {NewClaim(w)}
          BY <2>1, <2>3 DEF GivenFor, NewClaim
    <3>2. /\ entry[k].failure.retryable /\ NewClaim(w).at >= entry[k].failure.retry_at
          BY <1>2, <2>3 DEF Claimable, NewClaim
    <3>3. entry'[k].failure = entry[k].failure /\ entry'[k].attempt = entry[k].attempt + 1
          BY <2>1, <2>3
    <3>4. entry[k].attempt \in Nat /\ entry[k].failure.attempt \in Nat
          BY <2>1, <2>3, Fields DEF Inv, Shapes
    <3> QED BY <1>0, <3>1, <3>2, <3>3, <3>4
  <2> QED BY <2>2, <2>3
<1>3. ASSUME NEW w \in Worker, complete(w), Holds(w) PROVE Goal
  <2>1. /\ given' = given /\ entry'[Key(w)].active = NoClaim /\ Key(w) \in Entries
        /\ entry[Key(w)].active # NoClaim
        /\ entry'[Key(w)].attempt = entry[Key(w)].attempt
        /\ \A j \in Entries : j # Key(w) => entry'[j] = entry[j]
        BY <1>3, Ending DEF Inv
  <2>2. GivenFor(k)' = GivenFor(k)
        BY <2>1 DEF GivenFor
  <2>3. entry'[Key(w)].failure = entry[Key(w)].failure
        BY <1>3, Ending DEF Inv
  <2>4. CASE k = Key(w)
        BY <1>0, <2>1, <2>2, <2>3, <2>4
  <2> QED BY <1>1, <2>1, <2>2, <2>4
<1>4. ASSUME NEW w \in Worker, release(w), Holds(w) PROVE Goal
  <2>1. /\ given' = given /\ entry'[Key(w)].active = NoClaim /\ Key(w) \in Entries
        /\ worker[w].claim.attempt = entry[Key(w)].attempt
        /\ entry'[Key(w)].attempt = entry[Key(w)].attempt
        /\ \A j \in Entries : j # Key(w) => entry'[j] = entry[j]
        BY <1>4, Ending DEF Inv
  <2>2. GivenFor(k)' = GivenFor(k)
        BY <2>1 DEF GivenFor
  <2>3. entry'[Key(w)].failure.attempt = worker[w].claim.attempt
        BY <1>4, Ending DEF Inv
  <2>4. CASE k = Key(w)
    <3>1. \A c \in GivenFor(k) : c.attempt \in 1..entry[k].attempt
          BY DEF Inv, Counted
    <3>2. entry[k].attempt \in Nat
          BY Fields DEF Inv, Shapes
    <3> QED BY <2>1, <2>2, <2>3, <2>4, <3>1, <3>2
  <2> QED BY <1>1, <2>1, <2>2, <2>4
<1>5. ASSUME UNCHANGED <<entry, given, told>> PROVE Goal
      BY <1>1, <1>5 DEF GivenFor
<1> QED BY <1>2, <1>3, <1>4, <1>5, EntryStep

\* A worker loses its active claim only to one that came after the lease.
LEMMA HandlingNext == EventTransportAssumption /\ Inv /\ [Next]_transportVars => Handling'
<1> SUFFICES ASSUME EventTransportAssumption, Inv, [Next]_transportVars PROVE Handling'
    OBVIOUS
<1> DEFINE Held(v) == LET c == worker[v].claim
                      IN  /\ worker[v].at <= now
                          /\ worker[v].stage # "idle" => worker[v].event \in Event /\ published[worker[v].event] > 0
                          /\ HasClaim(v) => c \in given /\ c.key = Key(v) /\ c.by = v
                          /\ worker[v].stage = "working" => entry[Key(v)].active = c \/ c.until <= now
<1>0. /\ \A v \in Worker : Held(v) /\ worker[v] \in Workers
      /\ now \in Nat /\ now' \in Nat /\ now <= now'
  <2>1. now \in Nat /\ now' \in Nat
        BY ShapesNext DEF Inv, Shapes, EventTransportAssumption
  <2>2. now <= now'
    <3>1. now' = now \/ Tick
          BY DEF Next, publish, Deliver, claim, complete, release, Work, put, Crash, Republish,
                 record_replay, transportVars
    <3> QED BY <2>1, <3>1 DEF Tick
  <2> QED BY <2>1, <2>2 DEF Inv, Handling, Shapes
\* A worker that is left alone keeps what it has, unless its entry gets a new active claim.
<1>1. ASSUME NEW v \in Worker, worker'[v] = worker[v], given \subseteq given',
             \A e \in Event : published'[e] >= published[e],
             entry'[Key(v)].active = entry[Key(v)].active \/ (worker[v].stage = "working" => worker[v].claim.until <= now)
      PROVE  Held(v)'
  <2>1. Key(v)' = Key(v) /\ (HasClaim(v)' <=> HasClaim(v))
        BY <1>1 DEF Key, HasClaim
  <2>2. Held(v) /\ worker[v].at \in Nat
        BY <1>0, Fields
  <2>3. HasClaim(v) => worker[v].claim.until \in Nat
        BY <2>2, Fields DEF Inv, Shapes
  <2>4. worker[v].stage = "working" => HasClaim(v)
        BY DEF HasClaim
  <2>5. \A e \in Event : published[e] \in Nat /\ published'[e] \in Nat
        BY ShapesNext DEF Inv, Shapes
  <2> QED BY <1>0, <1>1, <2>1, <2>2, <2>3, <2>4, <2>5
\* So does one that goes to another stage, but to work.
<1>2. ASSUME NEW v \in Worker, worker'[v].event = worker[v].event, worker'[v].claim = worker[v].claim,
             worker'[v].at \in {worker[v].at, now}, worker[v].stage # "idle",
             worker'[v].stage \notin {"working", "asking"}, HasClaim(v) \/ worker'[v].stage = "idle",
             given' = given, published' = published
      PROVE  Held(v)'
  <2>1. Key(v)' = Key(v) /\ (HasClaim(v)' => HasClaim(v))
        BY <1>2 DEF Key, HasClaim
  <2>2. Held(v) /\ worker[v].at \in Nat
        BY <1>0, Fields
  <2> QED BY <1>0, <1>2, <2>1, <2>2
<1>3. ASSUME NEW e \in Event, publish(e) PROVE Handling'
  <2>1. /\ worker' = worker /\ given' = given /\ entry' = entry
        /\ \A d \in Event : published'[d] >= published[d]
        BY <1>3 DEF publish, Inv, Shapes
  <2> QED BY <1>1, <2>1 DEF Handling
<1>4. ASSUME NEW w \in Worker, NEW e \in Event, Deliver(w, e) PROVE Handling'
  <2>1. /\ given' = given /\ entry' = entry /\ published' = published /\ published[e] > 0 /\ now' = now
        /\ worker' = [worker EXCEPT ![w] = [Idle EXCEPT !.stage = "asking", !.event = e, !.at = now]]
        BY <1>4 DEF Deliver
  <2>2. /\ worker'[w].stage = "asking" /\ worker'[w].event = e /\ worker'[w].at = now
        /\ \A v \in Worker : v # w => worker'[v] = worker[v]
        BY <2>1 DEF Idle, Inv, Shapes
  <2>3. Held(w)'
        BY <1>0, <2>1, <2>2 DEF HasClaim
  <2>4. \A d \in Event : published'[d] >= published[d]
        BY <2>1 DEF Inv, Shapes
  <2>5. \A v \in Worker : v # w => Held(v)'
        BY <1>1, <2>1, <2>2, <2>4
  <2> QED BY <2>3, <2>5 DEF Handling
<1>5. ASSUME NEW w \in Worker, claim(w) PROVE Handling'
  <2>0. \A e \in Event : published'[e] >= published[e]
        BY <1>5 DEF claim, Inv, Shapes
  <2>1. CASE Claimable(entry[Key(w)], worker[w].at)
    <3>1. /\ Key(w) \in Entries
          /\ given' = given \cup {NewClaim(w)}
          /\ entry'[Key(w)].active = NewClaim(w)
          /\ \A k \in Entries : k # Key(w) => entry'[k] = entry[k]
          BY <1>5, <2>1, Giving DEF Inv
    <3>2. /\ worker' = [worker EXCEPT ![w].stage = "working", ![w].claim = NewClaim(w)]
          /\ now' = now /\ published' = published
          BY <1>5, <2>1 DEF claim, NewClaim
    <3>3. /\ worker'[w].stage = "working" /\ worker'[w].claim = NewClaim(w)
          /\ worker'[w].event = worker[w].event /\ worker'[w].at = worker[w].at
          /\ \A v \in Worker : v # w => worker'[v] = worker[v]
      <4>1. worker' = [worker EXCEPT ![w] = [worker[w] EXCEPT !.stage = "working", !.claim = NewClaim(w)]]
            BY <3>2 DEF Inv, Shapes
      <4>2. worker'[w] = [worker[w] EXCEPT !.stage = "working", !.claim = NewClaim(w)]
            BY <4>1 DEF Inv, Shapes
      <4>3. \A v \in Worker : v # w => worker'[v] = worker[v]
            BY <4>1 DEF Inv, Shapes
      <4> QED BY <1>0, <4>2, <4>3 DEF Workers
    <3>4. Key(w)' = Key(w)
          BY <3>3 DEF Key
    <3>5. NewClaim(w).key = Key(w) /\ NewClaim(w).by = w
          BY DEF NewClaim
    <3>6. worker[w].stage = "asking"
          BY <1>5 DEF claim
    <3>7. Held(w)'
          BY <1>0, <3>1, <3>2, <3>3, <3>4, <3>5, <3>6
    <3>8. ASSUME NEW v \in Worker, v # w PROVE Held(v)'
      <4>1. CASE Key(v) # Key(w) \/ worker[v].stage # "working"
        <5>1. CASE worker[v].stage # "working"
              BY <1>1, <2>0, <3>1, <3>3, <3>8, <5>1
        <5>2. CASE worker[v].stage = "working" /\ Key(v) # Key(w)
          <6>1. Key(v) \in Entries
                BY <1>0, <5>2 DEF Key, Entries, Consumer
          <6> QED BY <1>1, <2>0, <3>1, <3>3, <3>8, <5>2, <6>1
        <5> QED BY <4>1, <5>1, <5>2
      <4>2. CASE Key(v) = Key(w) /\ worker[v].stage = "working"
        <5>1. worker[v].claim \in given
              BY <1>0, <4>2 DEF HasClaim
        <5>2. worker[v].claim # NoClaim /\ worker[v].claim.until \in Nat
              BY <5>1, Fields DEF Inv, Shapes
        <5>3. worker[v].claim.until <= now
          <6>1. CASE entry[Key(w)].active = NoClaim
                BY <1>0, <4>2, <5>2, <6>1
          <6>2. CASE entry[Key(w)].active # NoClaim
            <7>1. entry[Key(w)].active.until <= worker[w].at /\ worker[w].at <= now /\ worker[w].at \in Nat
                  BY <1>0, <1>5, <2>1, <6>2, Fields DEF Claimable
            <7> QED BY <1>0, <4>2, <5>2, <7>1
          <6> QED BY <6>1, <6>2
        <5> QED BY <1>1, <2>0, <3>1, <3>3, <3>8, <5>3
      <4> QED BY <4>1, <4>2
    <3> QED BY <3>7, <3>8 DEF Handling
  <2>2. CASE ~Claimable(entry[Key(w)], worker[w].at)
    <3>1. Goto(w, "idle") /\ UNCHANGED <<entry, given, now, published>> /\ worker[w].stage = "asking"
          BY <1>5, <2>2 DEF claim
    <3> QED BY <1>0, <1>1, <1>2, <2>0, <3>1 DEF Goto, Handling, Inv, Shapes, Workers, HasClaim
  <2> QED BY <2>1, <2>2
<1>6. ASSUME NEW w \in Worker, complete(w) \/ release(w) PROVE Handling'
  <2>1. /\ given' = given /\ now' = now /\ published' = published
        /\ \E s \in {"idle", "terminal"} : Goto(w, s)
        /\ worker[w].stage \in {"completing", "failing"}
        BY <1>6 DEF complete, release
  <2>2. /\ worker'[w].stage \in {"idle", "terminal"} /\ worker'[w].event = worker[w].event
        /\ worker'[w].at = worker[w].at /\ worker'[w].claim = worker[w].claim
        /\ \A v \in Worker : v # w => worker'[v] = worker[v]
        BY <2>1 DEF Goto, Inv, Shapes, Workers
  <2>3. \A e \in Event : published'[e] >= published[e]
        BY <2>1 DEF Inv, Shapes
  <2>4. Held(w)'
        BY <1>2, <2>1, <2>2 DEF HasClaim
  <2>5. ASSUME NEW v \in Worker, v # w PROVE Held(v)'
    <3>1. CASE ~Holds(w)
      <4>1. entry' = entry
            BY <1>6, <3>1 DEF complete, release
      <4> QED BY <1>1, <2>1, <2>2, <2>3, <2>5, <4>1
    <3>2. CASE Holds(w)
      <4>1. /\ Key(w) \in Entries
            /\ entry[Key(w)].active = worker[w].claim /\ worker[w].claim.by = w
            /\ \A k \in Entries : k # Key(w) => entry'[k] = entry[k]
            BY <1>6, <3>2, Ending DEF Inv
      <4>2. CASE worker[v].stage # "working"
            BY <1>1, <2>1, <2>2, <2>3, <2>5, <4>2
      <4>3. CASE worker[v].stage = "working"
        <5>1. Key(v) \in Entries /\ worker[v].claim.by = v
              BY <1>0, <4>3 DEF Key, Entries, Consumer, HasClaim
        <5>2. Key(v) = Key(w) => worker[v].claim.until <= now
              BY <1>0, <2>5, <4>1, <4>3, <5>1
        <5> QED BY <1>1, <2>1, <2>2, <2>3, <2>5, <4>1, <5>1, <5>2
      <4> QED BY <4>2, <4>3
    <3> QED BY <3>1, <3>2
  <2> QED BY <2>4, <2>5 DEF Handling
<1>7. ASSUME NEW w \in Worker, NEW s \in {"completing", "failing"}, NEW b \in BOOLEAN, Work(w, s, b) PROVE Handling'
  <2>1. /\ given' = given /\ now' = now /\ published' = published /\ entry' = entry
        /\ worker[w].stage = "working"
        /\ worker' = [worker EXCEPT ![w] = [worker[w] EXCEPT !.stage = s, !.at = now, !.retryable = b]]
        BY <1>7 DEF Work, Inv, Shapes
  <2>2. /\ worker'[w] = [worker[w] EXCEPT !.stage = s, !.at = now, !.retryable = b]
        /\ \A v \in Worker : v # w => worker'[v] = worker[v]
        BY <2>1 DEF Inv, Shapes
  <2>3. /\ worker'[w].stage = s /\ worker'[w].event = worker[w].event
        /\ worker'[w].at = now /\ worker'[w].claim = worker[w].claim
        BY <1>0, <2>2 DEF Workers
  <2>4. \A e \in Event : published'[e] >= published[e]
        BY <2>1 DEF Inv, Shapes
  <2>5. Held(w)'
        BY <1>2, <2>1, <2>3 DEF HasClaim
  <2>6. \A v \in Worker : v # w => Held(v)'
        BY <1>1, <2>1, <2>2, <2>4
  <2> QED BY <2>5, <2>6 DEF Handling
<1>8. ASSUME NEW w \in Worker, put(w) \/ Crash(w) PROVE Handling'
  <2>1. /\ given' = given /\ now' = now /\ published' = published /\ entry' = entry
        /\ worker[w].stage # "idle"
        /\ \E s \in {"idle", "terminal"} : Goto(w, s) /\ (s = "terminal" => HasClaim(w))
        BY <1>8 DEF put, Crash, HasClaim
  <2>2. /\ worker'[w].stage \in {"idle", "terminal"} /\ worker'[w].event = worker[w].event
        /\ worker'[w].stage = "terminal" => HasClaim(w)
        /\ worker'[w].at = worker[w].at /\ worker'[w].claim = worker[w].claim
        /\ \A v \in Worker : v # w => worker'[v] = worker[v]
        BY <2>1 DEF Goto, Inv, Shapes, Workers
  <2>3. \A e \in Event : published'[e] >= published[e]
        BY <2>1 DEF Inv, Shapes
  <2>4. Held(w)'
        BY <1>2, <2>1, <2>2
  <2>5. \A v \in Worker : v # w => Held(v)'
        BY <1>1, <2>1, <2>2, <2>3
  <2> QED BY <2>4, <2>5 DEF Handling
<1>9. ASSUME NEW q \in Replay, NEW f \in DOMAIN letter, Republish(q, f) PROVE Handling'
  <2>1. /\ worker' = worker /\ given' = given /\ entry' = entry
        /\ \A d \in Event : published'[d] >= published[d]
        BY <1>9 DEF Republish, Inv, Shapes
  <2> QED BY <1>1, <2>1 DEF Handling
<1>10. ASSUME Tick \/ (\E q \in Replay : record_replay(q)) \/ UNCHANGED transportVars PROVE Handling'
  <2>1. /\ worker' = worker /\ given' = given /\ entry' = entry
        /\ \A d \in Event : published'[d] >= published[d]
        BY <1>10 DEF Tick, record_replay, transportVars, Inv, Shapes
  <2> QED BY <1>1, <2>1 DEF Handling
<1> QED BY <1>3, <1>4, <1>5, <1>6, <1>7, <1>8, <1>9, <1>10 DEF Next

\* An entry that failed for good stays as it is.
LEMMA FinalStays ==
    ASSUME Inv, [Next]_transportVars, NEW k \in Entries, ~entry[k].failure.retryable
    PROVE  entry'[k] = entry[k]
<1>1. entry[k].active = NoClaim
      BY DEF Inv, Failed
<1>2. ASSUME NEW w \in Worker, claim(w), Claimable(entry[Key(w)], worker[w].at) PROVE entry'[k] = entry[k]
  <2>1. k # Key(w)
        BY <1>2 DEF Claimable
  <2> QED BY <1>2, <2>1, Giving DEF Inv
<1>3. ASSUME NEW w \in Worker, complete(w) \/ release(w), Holds(w) PROVE entry'[k] = entry[k]
  <2>1. /\ entry[Key(w)].active # NoClaim
        /\ \A j \in Entries : j # Key(w) => entry'[j] = entry[j]
        BY <1>3, Ending DEF Inv
  <2> QED BY <1>1, <2>1
<1> QED BY <1>2, <1>3, EntryStep

\* A final failure is never overwritten before its worker has stored the letter.
LEMMA TerminalNext == EventTransportAssumption /\ Inv /\ [Next]_transportVars => Terminal'
<1> SUFFICES ASSUME EventTransportAssumption, Inv, [Next]_transportVars,
                    NEW v \in Worker, worker'[v].stage = "terminal"
             PROVE  /\ entry'[Key(v)'].failure.attempt = worker'[v].claim.attempt
                    /\ ~entry'[Key(v)'].failure.retryable
    BY DEF Terminal
<1> DEFINE Goal == /\ entry'[Key(v)'].failure.attempt = worker'[v].claim.attempt
                   /\ ~entry'[Key(v)'].failure.retryable
<1>1. ASSUME worker[v].stage = "terminal", worker'[v].event = worker[v].event, worker'[v].claim = worker[v].claim
      PROVE  Goal
  <2>1. Key(v)' = Key(v) /\ Key(v) \in Entries
        BY <1>1 DEF Key, Inv, Handling, Entries, Consumer
  <2>2. /\ entry[Key(v)].failure.attempt = worker[v].claim.attempt /\ ~entry[Key(v)].failure.retryable
        BY <1>1 DEF Inv, Terminal
  <2>3. entry'[Key(v)] = entry[Key(v)]
        BY <2>1, <2>2, FinalStays
  <2> QED BY <1>1, <2>1, <2>2, <2>3
<1>2. ASSUME release(v) PROVE Goal
  <2>1. Goto(v, IF Holds(v) /\ ~worker[v].retryable THEN "terminal" ELSE "idle")
        BY <1>2 DEF release
  <2>2. /\ worker'[v].stage = IF Holds(v) /\ ~worker[v].retryable THEN "terminal" ELSE "idle"
        /\ worker'[v].event = worker[v].event /\ worker'[v].claim = worker[v].claim
        BY <2>1 DEF Goto, Inv, Shapes, Workers
  <2>3. Holds(v) /\ ~worker[v].retryable
        BY <2>2
  <2>4. Key(v)' = Key(v)
        BY <2>2 DEF Key
  <2>5. /\ entry'[Key(v)].failure.attempt = worker[v].claim.attempt
        /\ entry'[Key(v)].failure.retryable = worker[v].retryable
        BY <1>2, <2>3, Ending DEF Inv
  <2> QED BY <2>2, <2>3, <2>4, <2>5
<1>3. ASSUME worker'[v] = worker[v] PROVE Goal
      BY <1>1, <1>3
<1>4. ASSUME NEW w \in Worker, NEW s \in Stages \ {"terminal"}, Goto(w, s) PROVE worker'[v] = worker[v]
      BY <1>4 DEF Goto, Inv, Shapes, Workers
<1>5. ASSUME NEW w \in Worker, NEW e \in Event, Deliver(w, e) PROVE worker'[v] = worker[v]
      BY <1>5 DEF Deliver, Idle, Inv, Shapes
<1>6. ASSUME NEW w \in Worker, claim(w) PROVE worker'[v] = worker[v]
  <2>1. CASE Claimable(entry[Key(w)], worker[w].at)
    <3>1. worker' = [worker EXCEPT ![w] = [worker[w] EXCEPT !.stage = "working", !.claim = NewClaim(w)]]
          BY <1>6, <2>1 DEF claim, NewClaim, Inv, Shapes
    <3>2. [worker[w] EXCEPT !.stage = "working", !.claim = NewClaim(w)].stage = "working"
          BY DEF Inv, Shapes, Workers
    <3> QED BY <3>1, <3>2 DEF Inv, Shapes
  <2>2. CASE ~Claimable(entry[Key(w)], worker[w].at)
        BY <1>4, <1>6, <2>2 DEF claim, Stages
  <2> QED BY <2>1, <2>2
<1>7. ASSUME NEW w \in Worker, complete(w) \/ Crash(w) PROVE worker'[v] = worker[v]
      BY <1>4, <1>7 DEF complete, Crash, Stages
<1>8. ASSUME NEW w \in Worker, release(w), w # v PROVE worker'[v] = worker[v]
      BY <1>8 DEF release, Goto, Inv, Shapes
<1>9. ASSUME NEW w \in Worker, NEW s \in {"completing", "failing"}, NEW b \in BOOLEAN, Work(w, s, b)
      PROVE  worker'[v] = worker[v]
  <2>1. worker' = [worker EXCEPT ![w] = [worker[w] EXCEPT !.stage = s, !.at = now, !.retryable = b]]
        BY <1>9 DEF Work, Inv, Shapes
  <2>2. [worker[w] EXCEPT !.stage = s, !.at = now, !.retryable = b].stage = s
        BY DEF Inv, Shapes, Workers
  <2> QED BY <2>1, <2>2 DEF Inv, Shapes
<1>10. ASSUME NEW w \in Worker, put(w) PROVE Goal
  <2>1. PICK s \in {"terminal", "idle"} : Goto(w, s)
        BY <1>10 DEF put
  <2>2. CASE w = v
    <3>1. worker'[v].event = worker[v].event /\ worker'[v].claim = worker[v].claim
          BY <2>1, <2>2 DEF Goto, Inv, Shapes, Workers
    <3>2. worker[v].stage = "terminal"
          BY <1>10, <2>2 DEF put
    <3> QED BY <1>1, <3>1, <3>2
  <2>3. CASE w # v
    <3>1. worker'[v] = worker[v]
          BY <2>1, <2>3 DEF Goto, Inv, Shapes
    <3> QED BY <1>3, <3>1
  <2> QED BY <2>2, <2>3
<1>11. ASSUME worker' = worker PROVE Goal
       BY <1>3, <1>11
<1>12. worker' = worker
       \/ (\E w \in Worker : \/ claim(w) \/ complete(w) \/ release(w) \/ put(w) \/ Crash(w)
                             \/ \E e \in Event : Deliver(w, e)
                             \/ \E s \in {"completing", "failing"}, b \in BOOLEAN : Work(w, s, b))
  <2> USE DEF publish, Republish, record_replay, Tick
  <2> QED BY DEF Next, transportVars
<1> QED BY <1>2, <1>3, <1>5, <1>6, <1>7, <1>8, <1>9, <1>10, <1>11, <1>12

\* A letter is stored with a final failure, and a replay publishes before it is recorded.
LEMMA ReplaysNext == EventTransportAssumption /\ Inv /\ [Next]_transportVars => Replays'
<1> SUFFICES ASSUME EventTransportAssumption, Inv, [Next]_transportVars PROVE Replays'
    OBVIOUS
<1> DEFINE Sound(f) == /\ entry[f.key].failure.attempt = f.attempt /\ ~entry[f.key].failure.retryable
                      /\ IsFiniteSet(Pending(f))
                      /\ letter[f] + Cardinality(Pending(f)) < published[f.key[2]]
<1>0. /\ \A f \in DOMAIN letter : Sound(f) /\ f \in Letters /\ letter[f] \in Nat
      /\ \A q \in Replay : replay[q].stage = "published" => replay[q].of \in DOMAIN letter
      /\ \A e \in Event : published[e] \in Nat /\ published'[e] \in Nat
      /\ \A f \in Letters : f.key \in Entries /\ f.key[2] \in Event
      BY ShapesNext, Fields DEF Inv, Shapes, Replays
\* A letter stays true while its event is published as often as before.
<1>1. ASSUME NEW f \in DOMAIN letter, letter'[f] = letter[f], Pending(f)' = Pending(f),
             published'[f.key[2]] >= published[f.key[2]]
      PROVE  Sound(f)'
  <2>1. entry'[f.key] = entry[f.key]
        BY <1>0, FinalStays
  <2>2. Cardinality(Pending(f)) \in Nat
        BY <1>0, FS_CardinalityType
  <2> QED BY <1>0, <1>1, <2>1, <2>2
<1>2. ASSUME letter' = letter, replay' = replay, \A e \in Event : published'[e] >= published[e]
      PROVE  Replays'
  <2>1. \A f \in DOMAIN letter : Pending(f)' = Pending(f)
        BY <1>2 DEF Pending
  <2>2. \A f \in DOMAIN letter : Sound(f)'
        BY <1>0, <1>1, <1>2, <2>1
  <2> QED BY <1>0, <1>2, <2>2 DEF Replays
<1>3. ASSUME NEW w \in Worker, put(w) PROVE Replays'
  <2>1. /\ replay' = replay /\ published' = published /\ entry' = entry
        /\ DOMAIN letter' = DOMAIN letter \cup {Failure(w)}
        /\ \A f \in DOMAIN letter : letter'[f] = letter[f]
        BY <1>3 DEF put
  <2>2. \A f : Pending(f)' = Pending(f)
        BY <2>1 DEF Pending
  <2>3. \A f \in DOMAIN letter : Sound(f)'
        BY <1>0, <1>1, <2>1, <2>2
  <2>4. ASSUME NEW f \in Letters, f = Failure(w), f \notin DOMAIN letter PROVE Sound(f)'
    <3>1. /\ worker[w].stage = "terminal" /\ HasClaim(w)
          BY <1>3 DEF put, HasClaim
    <3>2. letter'[f] = 0
          BY <1>3, <2>4 DEF put
    <3>3. Pending(f) = {}
          BY <1>0, <2>4 DEF Pending
    <3>4. f.key = Key(w) /\ f.attempt = worker[w].claim.attempt /\ f.key[2] = worker[w].event
          BY <2>4 DEF Failure, Key
    <3>5. /\ entry[f.key].failure.attempt = f.attempt /\ ~entry[f.key].failure.retryable
          BY <3>1, <3>4 DEF Inv, Terminal
    <3>6. published[f.key[2]] > 0
          BY <3>1, <3>4 DEF Inv, Handling
    <3>7. IsFiniteSet(Pending(f)') /\ Cardinality(Pending(f)') = 0
          BY <2>2, <3>3, FS_EmptySet
    <3> QED BY <2>1, <3>2, <3>5, <3>6, <3>7
  <2>5. DOMAIN letter' \subseteq Letters
        BY ShapesNext DEF Shapes
  <2>6. \A f \in DOMAIN letter' : Sound(f)'
        BY <2>1, <2>3, <2>4, <2>5
  <2> QED BY <1>0, <2>1, <2>6 DEF Replays
<1>4. ASSUME NEW q \in Replay, NEW f \in DOMAIN letter, Republish(q, f) PROVE Replays'
  <2>1. /\ letter' = letter /\ replay[q].stage = "idle"
        /\ replay' = [replay EXCEPT ![q] = [stage |-> "published", of |-> f]]
        /\ published' = [published EXCEPT ![f.key[2]] = @ + 1]
        BY <1>4 DEF Republish
  <2>2. /\ replay'[q].stage = "published" /\ replay'[q].of = f
        /\ \A p \in Replay : p # q => replay'[p] = replay[p]
        BY <2>1 DEF Inv, Shapes
  <2>3. \A e \in Event : published'[e] >= published[e]
        BY <2>1, <1>0 DEF Inv, Shapes
  <2>4. ASSUME NEW g \in DOMAIN letter, g # f PROVE Sound(g)'
    <3>1. Pending(g)' = Pending(g)
          BY <2>1, <2>2, <2>4 DEF Pending
    <3> QED BY <1>0, <1>1, <2>1, <2>3, <3>1
  <2>5. Sound(f)'
    <3>1. Pending(f)' = Pending(f) \cup {q} /\ q \notin Pending(f)
          BY <2>1, <2>2 DEF Pending
    <3>2. IsFiniteSet(Pending(f)') /\ Cardinality(Pending(f)') = Cardinality(Pending(f)) + 1
          BY <1>0, <3>1, FS_AddElement
    <3>3. Cardinality(Pending(f)) \in Nat
          BY <1>0, FS_CardinalityType
    <3>4. published'[f.key[2]] = published[f.key[2]] + 1
          BY <1>0, <2>1 DEF Inv, Shapes
    <3>5. entry'[f.key] = entry[f.key]
          BY <1>0, FinalStays
    <3> QED BY <1>0, <2>1, <3>2, <3>3, <3>4, <3>5
  <2> QED BY <1>0, <2>1, <2>2, <2>4, <2>5 DEF Replays
<1>5. ASSUME NEW q \in Replay, record_replay(q) PROVE Replays'
  <2>0. PICK g \in DOMAIN letter : g = replay[q].of
        BY <1>0, <1>5 DEF record_replay
  <2>1. /\ published' = published /\ replay[q].stage = "published"
        BY <1>5 DEF record_replay
  <2>2. PICK s \in {"recorded", "failed"} : replay' = [replay EXCEPT ![q].stage = s]
        BY <1>5 DEF record_replay
  <2>3. /\ replay'[q].stage # "published"
        /\ \A p \in Replay : p # q => replay'[p] = replay[p]
        BY <2>2 DEF Inv, Shapes, Requests
  <2>4. /\ DOMAIN letter' = DOMAIN letter
        /\ letter'[g] = letter[g] \/ letter'[g] = letter[g] + 1
        /\ \A f \in DOMAIN letter : f # g => letter'[f] = letter[f]
        BY <1>5, <2>0 DEF record_replay, Inv, Shapes
  <2>5. ASSUME NEW f \in DOMAIN letter, f # g PROVE Sound(f)'
    <3>1. Pending(f)' = Pending(f)
          BY <2>0, <2>3, <2>5 DEF Pending
    <3> QED BY <1>0, <1>1, <2>1, <2>4, <2>5, <3>1
  <2>6. Sound(g)'
    <3>1. Pending(g)' = Pending(g) \ {q} /\ q \in Pending(g)
          BY <2>0, <2>1, <2>3 DEF Pending
    <3>2. IsFiniteSet(Pending(g)') /\ Cardinality(Pending(g)') = Cardinality(Pending(g)) - 1
          BY <1>0, <2>1, <3>1, FS_RemoveElement
    <3>3. Cardinality(Pending(g)) \in Nat
          BY <1>0, <2>1, FS_CardinalityType
    <3>4. entry'[g.key] = entry[g.key]
          BY <1>0, <2>1, FinalStays
    <3> QED BY <1>0, <2>1, <2>4, <3>2, <3>3, <3>4
  <2>7. \A f \in DOMAIN letter : Sound(f)'
        BY <2>5, <2>6
  <2> QED BY <1>0, <2>3, <2>4, <2>7 DEF Replays
<1>6. ASSUME NEW e \in Event, publish(e) PROVE Replays'
  <2>1. letter' = letter /\ replay' = replay /\ \A d \in Event : published'[d] >= published[d]
        BY <1>6 DEF publish, Inv, Shapes
  <2> QED BY <1>2, <2>1
<1>7. ASSUME UNCHANGED <<letter, replay, published>> PROVE Replays'
      BY <1>0, <1>2, <1>7
<1>8. \/ \E w \in Worker : put(w)
      \/ \E e \in Event : publish(e)
      \/ \E q \in Replay : record_replay(q) \/ \E f \in DOMAIN letter : Republish(q, f)
      \/ UNCHANGED <<letter, replay, published>>
  <2> USE DEF Deliver, claim, complete, release, Work, Crash, Tick
  <2> QED BY DEF Next, transportVars
<1> QED BY <1>3, <1>4, <1>5, <1>6, <1>7, <1>8

\* The invariant is inductive.
LEMMA TransportNext == EventTransportAssumption /\ Inv /\ [Next]_transportVars => Inv'
BY ShapesNext, CountedNext, LastIsActiveNext, HandlingNext, FinishedNext, FailedNext, TerminalNext, ReplaysNext
   DEF Inv

\* The invariant holds in every state the queue, its workers and its operators reach.
THEOREM TransportInvariant == EventTransportAssumption /\ Spec => []Inv
<1> SUFFICES ASSUME EventTransportAssumption PROVE Spec => []Inv
    OBVIOUS
<1>1. Init => Inv
      BY TransportInit
<1>2. Inv /\ [Next]_transportVars => Inv'
      BY TransportNext
<1> QED BY <1>1, <1>2, PTL DEF Spec

-----------------------------------------------------------------------------
(* What it gives. *)

\* The last claims of an entry are one.
LEMMA LastClaims ==
    ASSUME Inv, NEW c \in given, NEW d \in given, c.key = d.key
    PROVE  c.attempt <= entry[c.key].attempt /\ (c.attempt = d.attempt => c = d)
<1>1. c.key \in Entries /\ c \in GivenFor(c.key) /\ d \in GivenFor(c.key)
      BY Fields DEF Inv, Shapes, GivenFor
<1>2. c.attempt \in 1..entry[c.key].attempt
      BY <1>1 DEF Inv, Counted
<1>3. entry[c.key].attempt \in Nat
      BY <1>1, Fields DEF Inv, Shapes
<1> QED BY <1>1, <1>2, <1>3 DEF Inv, Counted

\* An event takes effect once for a consumer, by the last claim, however often it is
\* delivered and whichever leases run out (InMemoryEventInbox.complete).
THEOREM EffectOnceForAConsumer == EventTransportAssumption /\ Spec => []EffectsOnce
<1>1. ASSUME Inv PROVE EffectsOnce
  <2>1. \A c, d \in told : c.key = d.key => c = d
        BY <1>1, LastClaims DEF Inv, Finished
  <2>2. \A k \in Consumer \X Event : entry[k].completed <=> \E c \in told : c.key = k
        BY <1>1 DEF Inv, Finished, Entries
  <2>3. \A c \in told, d \in given : c.key = d.key => d.attempt <= c.attempt
        BY <1>1, LastClaims DEF Inv, Finished
  <2> QED BY <2>1, <2>2, <2>3 DEF EffectsOnce
<1> QED BY <1>1, TransportInvariant, PTL

\* An entry has one holder within its lease (InMemoryEventInbox.claim).
THEOREM OneHolderAtATime == EventTransportAssumption /\ Spec => []OneHolder
<1> SUFFICES ASSUME EventTransportAssumption PROVE Spec => []OneHolder
    OBVIOUS
<1>1. ASSUME Inv PROVE OneHolder
  <2> SUFFICES ASSUME NEW v \in Worker, NEW w \in Worker,
                      worker[v].stage = "working", worker[w].stage = "working", Key(v) = Key(w),
                      now < worker[v].claim.until, now < worker[w].claim.until
               PROVE  v = w
      BY DEF OneHolder
  <2>1. /\ worker[v].claim \in given /\ worker[v].claim.by = v
        /\ worker[w].claim \in given /\ worker[w].claim.by = w
        BY <1>1 DEF Inv, Handling, HasClaim
  <2>2. now \in Nat /\ worker[v].claim.until \in Nat /\ worker[w].claim.until \in Nat
        BY <1>1, <2>1, Fields DEF Inv, Shapes, EventTransportAssumption
  <2>3. entry[Key(v)].active = worker[v].claim /\ entry[Key(w)].active = worker[w].claim
        BY <1>1, <2>2 DEF Inv, Handling
  <2> QED BY <2>1, <2>3
<1> QED BY <1>1, TransportInvariant, PTL

\* What failed waits before it is tried again, or is not tried again; attempts have
\* consecutive numbers (InMemoryEventInbox.release).
THEOREM RetriesWaitTheirTime == EventTransportAssumption /\ Spec => []RetriesWait
<1>1. ASSUME Inv PROVE RetriesWait
  <2> SUFFICES ASSUME NEW k \in Entries
               PROVE  LET f == entry[k].failure   later == {c \in given : c.key = k /\ c.attempt > f.attempt}
                      IN  /\ f.retryable \/ later = {}
                          /\ \A c \in later : c.at >= f.retry_at
                          /\ {c.attempt : c \in {d \in given : d.key = k}} = 1..entry[k].attempt
                          /\ Cardinality({c \in given : c.key = k}) = entry[k].attempt
      BY DEF RetriesWait, Entries
  <2>1. /\ Cardinality(GivenFor(k)) = entry[k].attempt
        /\ {c.attempt : c \in GivenFor(k)} = 1..entry[k].attempt
        /\ \A c \in GivenFor(k) : c.attempt \in 1..entry[k].attempt
        BY <1>1 DEF Inv, Counted
  <2>2. /\ ~entry[k].failure.retryable => entry[k].failure.attempt = entry[k].attempt
        /\ \A c \in GivenFor(k) : c.attempt > entry[k].failure.attempt => c.at >= entry[k].failure.retry_at
        BY <1>1 DEF Inv, Failed
  <2>3. entry[k].attempt \in Nat
        BY <1>1, Fields DEF Inv, Shapes
  <2>4. \A c \in GivenFor(k) : c.attempt <= entry[k].attempt /\ c.attempt \in Nat
        BY <2>1, <2>3
  <2>5. ~entry[k].failure.retryable => {c \in given : c.key = k /\ c.attempt > entry[k].failure.attempt} = {}
        BY <2>2, <2>3, <2>4 DEF GivenFor
  <2> QED BY <2>1, <2>2, <2>5 DEF GivenFor
<1> QED BY <1>1, TransportInvariant, PTL

\* A dead letter is of a failure that ended its entry, and its recorded replays were all
\* published (InMemoryDeadLetterStore).
THEOREM LettersTellTheTruth == EventTransportAssumption /\ Spec => []LettersAreTrue
<1>1. ASSUME Inv PROVE LettersAreTrue
  <2> SUFFICES ASSUME NEW f \in DOMAIN letter
               PROVE  /\ entry[f.key].failure.attempt = f.attempt /\ ~entry[f.key].failure.retryable
                      /\ letter[f] < published[f.key[2]]
      BY DEF LettersAreTrue
  <2>1. /\ entry[f.key].failure.attempt = f.attempt /\ ~entry[f.key].failure.retryable
        /\ IsFiniteSet(Pending(f))
        /\ letter[f] + Cardinality(Pending(f)) < published[f.key[2]]
        BY <1>1 DEF Inv, Replays
  <2>2. Cardinality(Pending(f)) \in Nat
        BY <2>1, FS_CardinalityType
  <2>3. letter[f] \in Nat /\ published[f.key[2]] \in Nat
        BY <1>1, Fields DEF Inv, Shapes
  <2> QED BY <2>1, <2>2, <2>3
<1> QED BY <1>1, TransportInvariant, PTL
================================================================================
