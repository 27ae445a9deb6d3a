----------------------- MODULE EnvironmentProjection ------------------------
(***************************************************************************)
(* The environment snapshot: a read model of facts that other contexts     *)
(* own.  Every change of a fact commits an event with its version; the     *)
(* worker of a process takes it, invalidates the cached snapshot of that   *)
(* process and replaces the archived document; agents read the cache.      *)
(*                                                                         *)
(*   worker: idle -Apply-> refresh -Build-> built -Remove-> removed        *)
(*                -Index-> handled -Complete-> idle                        *)
(*   reader: idle -ReadContent-> content -ReadVersions-> idle              *)
(*                                                                         *)
(* Versions and the cache live in a process and end with it; events, facts *)
(* and documents are stored.  The number of a change stands for the        *)
(* nanoseconds of its version: a source's row is locked when they are read.*)
(***************************************************************************)
EXTENDS Naturals, FiniteSets

CONSTANTS
    Process,     \* backend processes, each with a worker and readers
    Source,      \* (source_type, source_id)
    MaxChanges,  \* bound: changes of one source
    MaxFaults    \* bound: refreshes that fail and processes that die

ProjectionBoundAssumption == MaxChanges \in Nat /\ MaxFaults \in Nat

VARIABLES
    fact,     \* committed changes of each source
    event,    \* environment.source.changed.v1 of each change
    seen,     \* _seen_event_ids of each process
    ver,      \* _source_versions of each process
    cache,    \* _cache of each process: the facts in it and the versions it claims
    worker,   \* what the worker of each process knows
    reader,   \* what a reader of each process knows
    document, \* the archived document each process wrote last, while it is there
    faults

vars == <<fact, event, seen, ver, cache, worker, reader, document, faults>>

-----------------------------------------------------------------------------
Version == 0..MaxChanges
Facts == [Source -> Version]
Change == Source \X (1..MaxChanges)
Nothing == [s \in {} |-> 0]
Idle == [pc |-> "idle"]
WAt(p, pc) == worker[p].pc = pc
RAt(p, pc) == reader[p].pc = pc
WGoto(p, pc) == worker' = [worker EXCEPT ![p].pc = pc]
Fresh == [s \in Source |-> 0]

Latest == [s \in Source |-> fact[s]]

Init == /\ fact = Fresh
        /\ event = [c \in Change |-> "none"]
        /\ seen = [p \in Process |-> {}]
        /\ ver = [p \in Process |-> Fresh]
        /\ cache = [p \in Process |-> {}]
        /\ worker = [p \in Process |-> Idle]
        /\ reader = [p \in Process |-> Idle]
        /\ document = [p \in Process |-> Nothing]
        /\ faults = 0

-----------------------------------------------------------------------------
\* A source commits a change and its event in one transaction.
publish_source_change(s) ==
    /\ fact[s] < MaxChanges
    /\ fact' = [fact EXCEPT ![s] = @ + 1]
    /\ event' = [event EXCEPT ![<<s, fact[s] + 1>>] = "pending"]
    /\ UNCHANGED <<seen, ver, cache, worker, reader, document, faults>>

\* Variant of Newer: one revision for all sources.
NewerOfAll(p, c) == \A s \in Source : c[2] > ver[p][s]

\* Only a version above the one of the source that was applied counts.
Newer(p, c) == c[2] > ver[p][c[1]]

\* An event is applied, or is a duplicate or stale and is done with.
Apply(p, c) ==
    LET new == c \notin seen[p] /\ Newer(p, c)
    IN  /\ WAt(p, "idle") /\ event[c] = "pending"
        /\ event' = [event EXCEPT ![c] = IF new THEN "taken" ELSE "done"]
        /\ seen' = [seen EXCEPT ![p] = @ \cup {c}]
        /\ IF new
           THEN /\ ver' = [ver EXCEPT ![p][c[1]] = c[2]]
                /\ cache' = [cache EXCEPT ![p] = {}]
                /\ worker' = [worker EXCEPT ![p] = [pc |-> "refresh", c |-> c,
                                                    previous |-> ver[p][c[1]]]]
           ELSE UNCHANGED <<ver, cache, worker>>
        /\ UNCHANGED <<fact, reader, document, faults>>

\* The refresh: the cache goes once more, the sources are read ...
Build(p) ==
    /\ WAt(p, "refresh")
    /\ cache' = [cache EXCEPT ![p] = {}]
    /\ worker' = [worker EXCEPT ![p] = [pc |-> "built", c |-> @.c, previous |-> @.previous,
                                        text |-> Latest]]
    /\ UNCHANGED <<fact, event, seen, ver, reader, document, faults>>

\* ... every document of that title is removed, each in a commit of its own ...
Remove(p) ==
    /\ WAt(p, "built")
    /\ document' = [q \in Process |-> Nothing]
    /\ WGoto(p, "removed")
    /\ UNCHANGED <<fact, event, seen, ver, cache, reader, faults>>

\* ... and the new one is indexed.
Index(p) ==
    /\ WAt(p, "removed")
    /\ document' = [document EXCEPT ![p] = worker[p].text]
    /\ WGoto(p, "handled")
    /\ UNCHANGED <<fact, event, seen, ver, cache, reader, faults>>

\* The worker marks the event done after its handler returned.
Complete(p) ==
    /\ WAt(p, "handled")
    /\ event' = [event EXCEPT ![worker[p].c] = "done"]
    /\ worker' = [worker EXCEPT ![p] = Idle]
    /\ UNCHANGED <<fact, seen, ver, cache, reader, document, faults>>

Fault == faults < MaxFaults /\ faults' = faults + 1

Rollback(p, c, previous) ==
    /\ ver' = [ver EXCEPT ![p][c[1]] = IF @ = c[2] THEN previous ELSE @]
    /\ seen' = [seen EXCEPT ![p] = @ \ {c}]

\* The refresh raises: what was applied is forgotten, and the event is retried.
Fail(p) ==
    /\ WAt(p, "refresh") \/ WAt(p, "built") \/ WAt(p, "removed")
    /\ Fault
    /\ Rollback(p, worker[p].c, worker[p].previous)
    /\ event' = [event EXCEPT ![worker[p].c] = "pending"]
    /\ worker' = [worker EXCEPT ![p] = Idle]
    /\ UNCHANGED <<fact, cache, reader, document>>

\* A process dies and starts again; the lease of the event it handled runs out.
Die(p) ==
    /\ Fault
    /\ event' = [c \in Change |-> IF ~WAt(p, "idle") /\ worker[p].c = c THEN "pending"
                                  ELSE event[c]]
    /\ seen' = [seen EXCEPT ![p] = {}]
    /\ ver' = [ver EXCEPT ![p] = Fresh]
    /\ cache' = [cache EXCEPT ![p] = {}]
    /\ worker' = [worker EXCEPT ![p] = Idle]
    /\ reader' = [reader EXCEPT ![p] = Idle]
    /\ UNCHANGED <<fact, document>>

-----------------------------------------------------------------------------
(* Readers.                                                                *)

\* There is no snapshot in the cache: the sources are read ...
ReadContent(p) ==
    /\ RAt(p, "idle") /\ cache[p] = {}
    /\ reader' = [reader EXCEPT ![p] = [pc |-> "content", content |-> Latest]]
    /\ UNCHANGED <<fact, event, seen, ver, cache, worker, document, faults>>

\* ... then the versions in the outbox, and the snapshot is cached.
ReadVersions(p) ==
    /\ RAt(p, "content")
    /\ cache' = [cache EXCEPT ![p] = {[content |-> reader[p].content, versions |-> Latest]}]
    /\ reader' = [reader EXCEPT ![p] = Idle]
    /\ UNCHANGED <<fact, event, seen, ver, worker, document, faults>>

\* Sixty seconds pass.
Expire(p) ==
    /\ cache[p] # {}
    /\ cache' = [cache EXCEPT ![p] = {}]
    /\ UNCHANGED <<fact, event, seen, ver, worker, reader, document, faults>>

handle_source_change(p) == \/ \E c \in Change : Apply(p, c)
                           \/ Build(p) \/ Remove(p) \/ Index(p) \/ Complete(p)
get_context_snapshot(p) == ReadContent(p) \/ ReadVersions(p) \/ Expire(p)

Next == \/ \E s \in Source : publish_source_change(s)
        \/ \E p \in Process : \/ handle_source_change(p) \/ Fail(p) \/ Die(p)
                              \/ get_context_snapshot(p)

Spec == Init /\ [][Next]_vars

\* The worker polls, and a snapshot that is being read is read to its end.
FairSpec == Spec /\ \A p \in Process : WF_vars(handle_source_change(p))

-----------------------------------------------------------------------------
TypeOK == /\ fact \in Facts
          /\ event \in [Change -> {"none", "pending", "taken", "done"}]
          /\ seen \in [Process -> SUBSET Change] /\ ver \in [Process -> Facts]
          /\ \A p \in Process : /\ \A c \in cache[p] : c.content \in Facts /\ c.versions \in Facts
                                /\ document[p] \in Facts \cup {Nothing}
                                /\ worker[p].pc \in {"idle", "refresh", "built", "removed",
                                                     "handled"}
                                /\ reader[p].pc \in {"idle", "content"}
          /\ faults \in 0..MaxFaults

Documented(s, v) == \E p \in Process : document[p] # Nothing /\ document[p][s] >= v

\* An event is done only when the archived document holds its change, or none is there:
\* neither a stale version nor a duplicate, nor an older revision after the rollback of a
\* newer one, takes a change out again.
DoneIsDocumented ==
    \A c \in Change : event[c] = "done" /\ (\E p \in Process : document[p] # Nothing)
                      => Documented(c[1], c[2])

\* Every change is in the document in the end, whatever fails or dies on the way.
ChangesAreDocumented ==
    \A c \in Change : (event[c] # "none") ~> []Documented(c[1], c[2])

-----------------------------------------------------------------------------
(* What the documents promise and the code does not keep (see README). *)

\* There is one archived document, however often it is refreshed.
OneDocument == Cardinality({p \in Process : document[p] # Nothing}) <= 1

\* A snapshot includes the revision of each source it names.
VersionsAreIncluded ==
    \A p \in Process : \A c \in cache[p] : \A s \in Source : c.versions[s] <= c.content[s]

\* The snapshot a change invalidated is not served any more.
InvalidatedIsGone ==
    \A p \in Process : \A c \in cache[p] : \A s \in Source : c.content[s] >= ver[p][s]
=============================================================================
