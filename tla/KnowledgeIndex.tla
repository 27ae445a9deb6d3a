--------------------------- MODULE KnowledgeIndex ---------------------------
(***************************************************************************)
(* Indexing of knowledge documents, their removal and their move between   *)
(* knowledge bases.                                                        *)
(*                                                                         *)
(* A document with an id of its own (the archive of a channel, an output   *)
(* of an agent) is indexed by the handler of an outbox event, which may be *)
(* replayed and may run twice at once; an upload gets a new id and is      *)
(* tried once.  Indexing commits several times: the row, the removal of    *)
(* old chunks, and, after the embedding call, chunks and events together.  *)
(*                                                                         *)
(*   idle -Open-> read -Insert-> known -Clean-> parsing -Finish-> idle     *)
(*              \-Answer-> idle                    \-Fail-> idle           *)
(***************************************************************************)
EXTENDS Naturals, FiniteSets

CONSTANTS
    Replayed, Uploaded,  \* document ids, by how they are indexed
    Base,                \* knowledge bases
    Home,                \* the base a replayed document is asked for in
    Indexer,             \* processes that index
    MaxFaults,           \* bound: embedding calls that fail and processes that die
    MaxRemovals          \* bound: documents removed and bases deleted

IndexDocumentAssumption == Replayed \cap Uploaded = {} /\ Home \in Base
IndexBoundAssumption == MaxFaults \in Nat /\ MaxRemovals \in Nat

Document == Replayed \cup Uploaded

VARIABLES
    file,         \* knowledge_file: status, is_delete, knowledge_base_id
    chunks,       \* knowledge_vector: the indexer whose text the chunks of a document hold
    fact,         \* the last fact published about a document: none, ready or removed
    base,         \* knowledge_base: open, deleting (counted, not committed) or deleted
    indexer,      \* what each process knows
    event,        \* the event that asks for a replayed document: pending or done
    removed,      \* history: the documents that were removed
    faults, removals

vars == <<file, chunks, fact, base, indexer, event, removed, faults, removals>>

-----------------------------------------------------------------------------
Status == {"none", "uploaded", "parsing", "indexed", "failed"}
Pc == {"idle", "read", "known", "parsing"}
Idle == [pc |-> "idle"]
At(i, pc) == indexer[i].pc = pc
Goto(i, pc) == indexer' = [indexer EXCEPT ![i].pc = pc]
Leave(i) == indexer' = [indexer EXCEPT ![i] = Idle]
Exists(d) == file[d].status # "none"
Live(d) == Exists(d) /\ ~file[d].deleted

Init == /\ file = [d \in Document |-> [status |-> "none", deleted |-> FALSE, base |-> Home]]
        /\ chunks = [d \in Document |-> {}]
        /\ fact = [d \in Document |-> "none"]
        /\ base = [b \in Base |-> "open"]
        /\ indexer = [i \in Indexer |-> Idle]
        /\ event = [d \in Replayed |-> "pending"]
        /\ removed = {} /\ faults = 0 /\ removals = 0

-----------------------------------------------------------------------------
(* Indexing.                                                               *)

\* ingest_text reads the row; a replay reads it again from the start.
Open(i, d) ==
    /\ At(i, "idle") /\ d \in Replayed /\ event[d] = "pending"
    /\ indexer' = [indexer EXCEPT ![i] = [pc |-> "read", d |-> d, seen |-> file[d]]]
    /\ UNCHANGED <<file, chunks, fact, base, event, removed, faults, removals>>

\* The first commit: a new row, or the one another process inserted meanwhile.
Insert(i) ==
    LET d == indexer[i].d
    IN  /\ At(i, "read") /\ indexer[i].seen.status = "none"
        /\ file' = [file EXCEPT ![d].status = IF Exists(d) THEN @ ELSE "uploaded"]
        /\ indexer' = [indexer EXCEPT ![i].pc = "known", ![i].seen = file'[d]]
        /\ UNCHANGED <<chunks, fact, base, event, removed, faults, removals>>

\* ingest_file: the row, then the object.
Upload(i, d, b) ==
    /\ At(i, "idle") /\ d \in Uploaded /\ ~Exists(d)
    /\ file' = [file EXCEPT ![d] = [status |-> "uploaded", deleted |-> FALSE, base |-> b]]
    /\ indexer' = [indexer EXCEPT ![i] = [pc |-> "known", d |-> d, seen |-> file'[d]]]
    /\ UNCHANGED <<chunks, fact, base, event, removed, faults, removals>>

\* A row that was read is written back alive and at home; columns read so are not written.
Revived(i, f) ==
    LET seen == indexer[i].seen
    IN  [f EXCEPT !.deleted = IF seen.deleted THEN FALSE ELSE @,
                  !.base = IF indexer[i].d \in Replayed /\ seen.base # Home THEN Home ELSE @]

\* Variant of IsDone: what another attempt has begun is left to it.
IsDoneBegun(f) == f.status \in {"parsing", "indexed"}

IsDone(f) == f.status = "indexed"

\* A document that was read as indexed is returned as it is.
Answer(i) ==
    LET d == indexer[i].d
    IN  /\ At(i, "read") \/ (At(i, "known") /\ d \in Replayed)
        /\ IsDone(indexer[i].seen)
        /\ file' = [file EXCEPT ![d] = Revived(i, @)]
        /\ event' = [event EXCEPT ![d] = "done"]
        /\ Leave(i)
        /\ UNCHANGED <<chunks, fact, base, removed, faults, removals>>

\* Old chunks are removed before the document is parsed again.
Cleaned(d) == [chunks EXCEPT ![d] = {}]

\* Variant of Parsed: the status is left as it is until the chunks are there.
ParsedLater(f) == f

Parsed(f) == [f EXCEPT !.status = "parsing"]

Clean(i) ==
    LET d == indexer[i].d
    IN  /\ At(i, "known") \/ (At(i, "read") /\ indexer[i].seen.status # "none")
        /\ ~IsDone(indexer[i].seen)
        /\ chunks' = IF d \in Replayed THEN Cleaned(d) ELSE chunks
        /\ file' = [file EXCEPT ![d] = Parsed(Revived(i, @))]
        /\ Goto(i, "parsing")
        /\ UNCHANGED <<fact, base, event, removed, faults, removals>>

\* uq_kv_file_chunk.
Collides(d) == chunks[d] # {}

\* Chunks, status and facts in one commit.
Finish(i) ==
    LET d == indexer[i].d
    IN  /\ At(i, "parsing") /\ ~Collides(d)
        /\ chunks' = [chunks EXCEPT ![d] = @ \cup {i}]
        /\ file' = [file EXCEPT ![d].status = "indexed"]
        /\ fact' = [fact EXCEPT ![d] = "ready"]
        /\ event' = [e \in Replayed |-> IF e = d THEN "done" ELSE event[e]]
        /\ Leave(i)
        /\ UNCHANGED <<base, removed, faults, removals>>

Fault == faults < MaxFaults /\ faults' = faults + 1

\* The embedding call fails, or the commit collides: rolled back, and marked failed.
Fail(i) ==
    LET d == indexer[i].d
    IN  /\ At(i, "parsing")
        /\ (Collides(d) /\ UNCHANGED faults) \/ Fault
        /\ file' = [file EXCEPT ![d].status = "failed"]
        /\ Leave(i)
        /\ UNCHANGED <<chunks, fact, base, event, removed, removals>>

Die(i) ==
    /\ ~At(i, "idle") /\ Fault
    /\ Leave(i)
    /\ UNCHANGED <<file, chunks, fact, base, event, removed, removals>>

-----------------------------------------------------------------------------
(* Documents and bases.                                                    *)

Removal == removals < MaxRemovals /\ removals' = removals + 1

delete_file(d) ==
    /\ Live(d) /\ Removal
    /\ chunks' = [chunks EXCEPT ![d] = {}]
    /\ file' = [file EXCEPT ![d].deleted = TRUE]
    /\ fact' = [fact EXCEPT ![d] = "removed"]
    /\ removed' = removed \cup {d}
    /\ UNCHANGED <<base, indexer, event, faults>>

\* move_file: the target must exist; the chunks follow the document.
move_file(d, b) ==
    /\ Live(d) /\ base[b] # "deleted" /\ b # file[d].base
    /\ file' = [file EXCEPT ![d].base = b]
    /\ fact' = [fact EXCEPT ![d] = "ready"]
    /\ UNCHANGED <<chunks, base, indexer, event, removed, faults, removals>>

\* delete: the documents of the base are counted ...
CountBase(b) ==
    /\ base[b] = "open" /\ Removal
    /\ \A d \in Document : Live(d) => file[d].base # b
    /\ base' = [base EXCEPT ![b] = "deleting"]
    /\ UNCHANGED <<file, chunks, fact, indexer, event, removed, faults>>

\* ... and the base is deleted.
DeleteBase(b) ==
    /\ base[b] = "deleting"
    /\ base' = [base EXCEPT ![b] = "deleted"]
    /\ UNCHANGED <<file, chunks, fact, indexer, event, removed, faults, removals>>

\* The worker takes an event again when its handler raised or its process died,
\* and, as delivery is at least once, also when it had been handled.
Redeliver(d) ==
    /\ event[d] = "done" /\ Fault
    /\ event' = [event EXCEPT ![d] = "pending"]
    /\ UNCHANGED <<file, chunks, fact, base, indexer, removed, removals>>

Works(i) == \/ \E d \in Replayed : Open(i, d)
            \/ Insert(i) \/ Answer(i) \/ Clean(i) \/ Finish(i)
Edits == \/ \E d \in Document : delete_file(d) \/ \E b \in Base : move_file(d, b)
         \/ \E b \in Base : CountBase(b) \/ DeleteBase(b)
         \/ \E d \in Replayed : Redeliver(d)
Next == \/ \E i \in Indexer : \/ Works(i) \/ Fail(i) \/ Die(i)
                              \/ \E d \in Uploaded, b \in Base : Upload(i, d, b)
        \/ Edits

Spec == Init /\ [][Next]_vars

\* The workers keep handling what is pending, one attempt after the other to its end.
FairSpec == Spec /\ \A i \in Indexer : WF_vars(Works(i) \/ Fail(i))

-----------------------------------------------------------------------------
TypeOK == /\ \A d \in Document : /\ file[d].status \in Status
                                 /\ file[d].deleted \in BOOLEAN /\ file[d].base \in Base
          /\ chunks \in [Document -> SUBSET Indexer]
          /\ fact \in [Document -> {"none", "ready", "removed"}]
          /\ base \in [Base -> {"open", "deleting", "deleted"}]
          /\ \A i \in Indexer : indexer[i].pc \in Pc
          /\ event \in [Replayed -> {"pending", "done"}]
          /\ removed \subseteq Document /\ faults \in 0..MaxFaults /\ removals \in 0..MaxRemovals

\* Two indexers never mix their chunks in one document.
OneTextPerDocument == \A d \in Document : Cardinality(chunks[d]) <= 1

\* However indexers overlap, fail or die, a document that says it is indexed has its
\* chunks, as long as nobody removed it.
IndexedIsSearchable ==
    \A d \in Document \ removed : file[d].status = "indexed" => chunks[d] # {}

\* What an event asks for is indexed in the end, whatever the attempts before left behind,
\* when one attempt runs at a time.
ReplayIsIndexed == \A d \in Replayed : (event[d] = "pending") ~> (file[d].status = "indexed")

-----------------------------------------------------------------------------
(* What the documents promise and the code does not keep (see README). *)

\* A document can be replayed under its id safely (ingest_text).
ReplayIsSafe == \A d \in Document : Live(d) /\ file[d].status = "indexed" => chunks[d] # {}

\* A failed document leaves no half index.
FailedHasNoChunks == \A d \in Document : file[d].status = "failed" => chunks[d] = {}

\* Removing a document recycles its chunks.
RemovedHasNoChunks == \A d \in Document : file[d].deleted => chunks[d] = {}

\* A base is deleted when it has no documents.
DeletedBaseIsEmpty == \A d \in Document : Live(d) => base[file[d].base] # "deleted"
=============================================================================
