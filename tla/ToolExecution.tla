--------------------------- MODULE ToolExecution ---------------------------
(***************************************************************************)
(* Idempotent execution of a capability with a side effect.                *)
(*                                                                         *)
(* An attempt at a workflow step runs the actions its agent wrote.  An     *)
(* action that changes something has a key made of run, step, capability   *)
(* and index, the same in every attempt; its ToolExecution row is claimed  *)
(* and committed before the handler runs, and finished after.  Two kinds   *)
(* of handler are modelled: a collaboration request (a row) and a file     *)
(* delivery (an object, then a row).  Attempts overlap when a lease was    *)
(* taken over, and any of them may die between two steps.                  *)
(*                                                                         *)
(*   idle -Begin-> read -Claim-> claimed -Look-> looked                    *)
(*     [-Upload-> uploaded] -Insert*-> effected -Succeed-> done            *)
(***************************************************************************)
EXTENDS Naturals, FiniteSetTheorems, TLAPS

CONSTANTS
    Attempt,
    CollabKey, DeliverKey,   \* idempotency keys, by the kind of their handler
    FileName,                \* the names the agent of an attempt may give its file
    MaxFaults                \* bound: handlers that raise and attempts that die

ToolKeyAssumption == CollabKey \cap DeliverKey = {}
ToolBoundAssumption == MaxFaults \in Nat

Key == CollabKey \cup DeliverKey

VARIABLES
    tool,         \* the ToolExecution rows by key
    requests,     \* the CollabRequest rows: who inserted which key
    files,        \* the Deliverable rows: who inserted which key, and the object they name
    objects,      \* the object storage: key and file name, as object_name builds the path
    attempt,      \* what each attempt knows
    everSucceeded,\* history: the keys that were recorded succeeded
    faults

vars == <<tool, requests, files, objects, attempt, everSucceeded, faults>>

-----------------------------------------------------------------------------
ToolStatus == {"none", "running", "succeeded", "failed"}
Pc == {"idle", "read", "claimed", "looked", "uploaded", "effected", "done", "replayed", "failed", "dead"}
Idle == [pc |-> "idle"]
Path == [key : DeliverKey, name : FileName]
At(a, pc) == attempt[a].pc = pc
Goto(a, pc) == attempt' = [attempt EXCEPT ![a].pc = pc]

RowOf(table, k) == {r \in table : r.key = k}

Init == /\ tool = [k \in Key |-> "none"]
        /\ requests = {} /\ files = {} /\ objects = {} /\ everSucceeded = {}
        /\ attempt = [a \in Attempt |-> Idle]
        /\ faults = 0

\* claim, its SELECT.
Begin(a, k, name) ==
    /\ At(a, "idle")
    /\ attempt' = [attempt EXCEPT ![a] = [pc |-> "read", key |-> k, name |-> name, seen |-> tool[k],
                                          late |-> k \in everSucceeded, found |-> FALSE]]
    /\ UNCHANGED <<tool, requests, files, objects, everSucceeded, faults>>

\* A stored success is an answer: the one read, or the one the insert collided with.
Replays(seen, now) == seen = "succeeded" \/ (seen = "none" /\ now = "succeeded")

\* _mark_running writes the status when it read another one: what a concurrent
\* attempt committed in between is kept or overwritten accordingly.
MarkRunning(seen, now) == IF seen = "failed" \/ now = "none" THEN "running" ELSE now

Claim(a) ==
    LET k == attempt[a].key
        seen == attempt[a].seen
    IN  /\ At(a, "read")
        /\ IF Replays(seen, tool[k])
           THEN Goto(a, "replayed") /\ UNCHANGED tool
           ELSE Goto(a, "claimed") /\ tool' = [tool EXCEPT ![k] = MarkRunning(seen, @)]
        /\ UNCHANGED <<requests, files, objects, everSucceeded, faults>>

\* The handlers look for the row of their key.
Look(a) ==
    LET k == attempt[a].key
    IN  /\ At(a, "claimed")
        /\ attempt' = [attempt EXCEPT ![a].pc = IF k \in CollabKey /\ RowOf(requests, k) # {}
                                                THEN "effected" ELSE "looked",
                                      ![a].found = RowOf(requests \cup files, k) # {}]
        /\ UNCHANGED <<tool, requests, files, objects, everSucceeded, faults>>

\* Variant of Collides: nothing but the handler's own look prevents a second row.
CollidesSeen(a, k) == FALSE

\* uq_collab_req_idempotency and the unique key of Deliverable.
Collides(a, k) == RowOf(requests \cup files, k) # {}

\* create_request: a collision is an error of the handler.
InsertRequest(a) ==
    LET k == attempt[a].key
    IN  /\ At(a, "looked") /\ k \in CollabKey /\ ~Collides(a, k)
        /\ requests' = requests \cup {[key |-> k, by |-> a]}
        /\ Goto(a, "effected")
        /\ UNCHANGED <<tool, files, objects, everSucceeded, faults>>

\* object_name: the digest of the key, and the name of the file.
Stored(k, name) == objects \cup {[key |-> k, name |-> name]}

Upload(a) ==
    /\ At(a, "looked") /\ attempt[a].key \in DeliverKey
    /\ objects' = Stored(attempt[a].key, attempt[a].name)
    /\ Goto(a, "uploaded")
    /\ UNCHANGED <<tool, requests, files, everSucceeded, faults>>

\* publish: the row of the key takes the new path, wherever it came from.
Publish(a) ==
    LET k == attempt[a].key
        path == [key |-> k, name |-> attempt[a].name]
    IN  /\ At(a, "uploaded")
        /\ files' = IF Collides(a, k)
                    THEN {IF f.key = k THEN [f EXCEPT !.path = path] ELSE f : f \in files}
                    ELSE files \cup {[key |-> k, by |-> a, path |-> path]}
        /\ Goto(a, "effected")
        /\ UNCHANGED <<tool, requests, objects, everSucceeded, faults>>

\* publish, when its insert met the row of another attempt: that row is returned as it is.
PublishConcurrent(a) ==
    /\ At(a, "uploaded") /\ ~attempt[a].found /\ Collides(a, attempt[a].key)
    /\ Goto(a, "effected")
    /\ UNCHANGED <<tool, requests, files, objects, everSucceeded, faults>>

Succeed(a) ==
    /\ At(a, "effected")
    /\ tool' = [tool EXCEPT ![attempt[a].key] = "succeeded"]
    /\ everSucceeded' = everSucceeded \cup {attempt[a].key}
    /\ Goto(a, "done")
    /\ UNCHANGED <<requests, files, objects, faults>>

\* fail: the status is written whatever it has become.
Failed(now) == "failed"

\* The insert collides, or a handler raises before it changed anything else.
Fails(a) ==
    /\ At(a, "claimed") \/ At(a, "looked") \/ At(a, "uploaded")
    /\ \/ At(a, "looked") /\ attempt[a].key \in CollabKey /\ Collides(a, attempt[a].key) /\ UNCHANGED faults
       \/ faults < MaxFaults /\ faults' = faults + 1
    /\ tool' = [tool EXCEPT ![attempt[a].key] = Failed(@)]
    /\ Goto(a, "failed")
    /\ UNCHANGED <<requests, files, objects, everSucceeded>>

Dies(a) ==
    /\ attempt[a].pc \in {"claimed", "looked", "uploaded", "effected"} /\ faults < MaxFaults
    /\ faults' = faults + 1
    /\ Goto(a, "dead")
    /\ UNCHANGED <<tool, requests, files, objects, everSucceeded>>

Runs(a) == Claim(a) \/ Look(a) \/ InsertRequest(a) \/ Upload(a) \/ Publish(a) \/ PublishConcurrent(a) \/ Succeed(a)
Next == \E a \in Attempt :
           \/ \E k \in Key, name \in FileName : Begin(a, k, name)
           \/ Runs(a) \/ Fails(a) \/ Dies(a)

Spec == Init /\ [][Next]_vars

-----------------------------------------------------------------------------
TypeOK == /\ tool \in [Key -> ToolStatus]
          /\ requests \subseteq [key : CollabKey, by : Attempt]
          /\ files \subseteq [key : DeliverKey, by : Attempt, path : Path]
          /\ objects \subseteq Path
          /\ \A a \in Attempt : attempt[a].pc \in Pc
          /\ everSucceeded \subseteq Key /\ faults \in 0..MaxFaults

\* However attempts overlap or die, one key has one review request and one file.
OneRowPerKey == \A k \in Key : Cardinality(RowOf(requests \cup files, k)) <= 1

\* A file somebody can see has its object: the upload comes first (PublishArtifact.execute).
FilesAreStored == \A f \in files : f.path \in objects

\* A stored success, and an answer taken from one, stand for a row that was committed.
SuccessIsBacked ==
    /\ \A k \in Key : tool[k] = "succeeded" => RowOf(requests \cup files, k) # {}
    /\ \A a \in Attempt : At(a, "replayed") => RowOf(requests \cup files, attempt[a].key) # {}

-----------------------------------------------------------------------------
(* What the documents promise and the code does not keep (see README). *)

\* A key submitted after a successful execution is answered from its record.
ReplayedAfterSuccess ==
    \A a \in Attempt : attempt[a].pc \in {"claimed", "looked", "uploaded", "effected"} => ~attempt[a].late

\* One key has one object path.
OneObjectPerKey == \A k \in DeliverKey : Cardinality(RowOf(objects, k)) <= 1

-----------------------------------------------------------------------------
(* Proofs: the invariant of the keys, their rows and their attempts.       *)

Rows == requests \cup files
HasRow(k) == \E r \in Rows : r.key = k
WillHaveRow(k) == \E r \in Rows' : r.key = k

Knows == [pc : Pc \ {"idle"}, key : Key, name : FileName, seen : ToolStatus, late : BOOLEAN, found : BOOLEAN]

\* TypeOK, and what an attempt knows.
Shapes == TypeOK /\ attempt \in [Attempt -> {Idle} \cup Knows]

\* A key has one row at most.
Unique == \A r, s \in Rows : r.key = s.key => r = s

\* An attempt that uploaded its file finds it in the store.
Uploaded == \A a \in Attempt : At(a, "uploaded") =>
                /\ attempt[a].key \in DeliverKey
                /\ [key |-> attempt[a].key, name |-> attempt[a].name] \in objects

\* Who read a success, or comes from an effect, has a row behind it.
Backed ==
    /\ \A k \in Key : tool[k] = "succeeded" => HasRow(k)
    /\ \A a \in Attempt : /\ At(a, "read") /\ attempt[a].seen = "succeeded" => HasRow(attempt[a].key)
                          /\ At(a, "effected") \/ At(a, "replayed") => HasRow(attempt[a].key)

ToolInvariant == Shapes /\ Unique /\ FilesAreStored /\ Uploaded /\ Backed

\* Where an attempt goes to, it takes what it knows.
LEMMA GotoKnows ==
    ASSUME Shapes, NEW a \in Attempt, attempt[a].pc # "idle", NEW pc \in Pc \ {"idle"}, Goto(a, pc)
    PROVE  /\ attempt' \in [Attempt -> {Idle} \cup Knows]
           /\ attempt[a] \in Knows
           /\ attempt'[a] = [attempt[a] EXCEPT !.pc = pc]
           /\ attempt'[a].pc = pc /\ attempt'[a].key = attempt[a].key
           /\ attempt'[a].name = attempt[a].name
           /\ \A b \in Attempt : b # a => attempt'[b] = attempt[b]
<1>1. attempt[a] \in Knows
    BY DEF Shapes, Idle
<1>2. [attempt[a] EXCEPT !.pc = pc] \in Knows
    BY <1>1 DEF Knows
<1> QED
    BY <1>1, <1>2 DEF Shapes, Goto, Knows

LEMMA InitTools ==
    ASSUME ToolBoundAssumption, Init
    PROVE  ToolInvariant
BY DEF ToolBoundAssumption, Init, ToolInvariant, Shapes, TypeOK, Idle, ToolStatus, Pc, Unique, Rows, FilesAreStored,
       Uploaded, Backed, At

\* Every step keeps the shapes.
LEMMA ShapesKept ==
    ASSUME ToolBoundAssumption, Shapes, Uploaded, Next
    PROVE  Shapes'
<1>0. faults \in Nat /\ MaxFaults \in Nat
    BY DEF ToolBoundAssumption, Shapes, TypeOK
<1>T. TypeOK /\ \A a \in Attempt : attempt[a].pc # "idle" => attempt[a] \in Knows
    BY DEF Shapes, Idle
<1>Q. attempt' \in [Attempt -> {Idle} \cup Knows] => \A a \in Attempt : attempt'[a].pc \in Pc
    BY DEF Idle, Knows, Pc
<1>1. ASSUME NEW a \in Attempt, NEW k \in Key, NEW name \in FileName, Begin(a, k, name) PROVE Shapes'
  <2>1. [pc |-> "read", key |-> k, name |-> name, seen |-> tool[k], late |-> k \in everSucceeded, found |-> FALSE]
            \in Knows
      BY <1>T DEF Knows, Pc, TypeOK
  <2>2. attempt' \in [Attempt -> {Idle} \cup Knows]
      BY <1>1, <2>1 DEF Begin, Shapes
  <2> QED
      BY <1>1, <1>T, <1>Q, <2>2 DEF Begin, Shapes, TypeOK
<1>2. ASSUME NEW a \in Attempt, Claim(a) PROVE Shapes'
  <2>0. attempt[a] \in Knows /\ attempt[a].pc # "idle"
      BY <1>2, <1>T DEF Claim, At
  <2>1. attempt' \in [Attempt -> {Idle} \cup Knows]
      BY <1>2, <2>0, GotoKnows DEF Claim, Pc
  <2>2. tool' \in [Key -> ToolStatus]
      BY <1>2, <1>T, <2>0 DEF Claim, TypeOK, MarkRunning, ToolStatus, Knows
  <2> QED
      BY <1>2, <1>T, <1>Q, <2>1, <2>2 DEF Claim, Shapes, TypeOK
<1>3. ASSUME NEW a \in Attempt, Look(a) PROVE Shapes'
  <2> DEFINE pc == IF attempt[a].key \in CollabKey /\ RowOf(requests, attempt[a].key) # {} THEN "effected" ELSE "looked"
             found == RowOf(requests \cup files, attempt[a].key) # {}
  <2>0. attempt[a] \in Knows
      BY <1>3, <1>T DEF Look, At
  <2>1. attempt' = [attempt EXCEPT ![a] = [attempt[a] EXCEPT !.pc = pc, !.found = found]]
      BY <1>3 DEF Look
  <2>2. pc \in Pc \ {"idle"} /\ found \in BOOLEAN
      BY DEF Pc
  <2>3. [attempt[a] EXCEPT !.pc = pc, !.found = found] \in Knows
      BY <2>0, <2>2 DEF Knows
  <2>4. attempt' \in [Attempt -> {Idle} \cup Knows]
      BY <2>1, <2>3 DEF Shapes
  <2> QED
      BY <1>3, <1>T, <1>Q, <2>4 DEF Look, Shapes, TypeOK
<1>4. ASSUME NEW a \in Attempt, InsertRequest(a) PROVE Shapes'
  <2>1. attempt' \in [Attempt -> {Idle} \cup Knows]
      BY <1>4, GotoKnows DEF InsertRequest, At, Pc
  <2> QED
      BY <1>4, <1>T, <1>Q, <2>1 DEF InsertRequest, Shapes, TypeOK
<1>5. ASSUME NEW a \in Attempt, Upload(a) PROVE Shapes'
  <2>1. attempt' \in [Attempt -> {Idle} \cup Knows] /\ attempt[a] \in Knows
      BY <1>5, GotoKnows DEF Upload, At, Pc
  <2>2. objects' \subseteq Path
      BY <1>5, <1>T, <2>1 DEF Upload, Stored, TypeOK, Path, Knows
  <2> QED
      BY <1>5, <1>T, <1>Q, <2>1, <2>2 DEF Upload, Shapes, TypeOK
<1>6. ASSUME NEW a \in Attempt, Publish(a) PROVE Shapes'
  <2> DEFINE path == [key |-> attempt[a].key, name |-> attempt[a].name]
  <2>1. attempt' \in [Attempt -> {Idle} \cup Knows] /\ attempt[a] \in Knows
      BY <1>6, GotoKnows DEF Publish, At, Pc
  <2>2. path \in Path /\ attempt[a].key \in DeliverKey
      BY <1>6, <2>1 DEF Publish, Uploaded, Path, Knows
  <2>3. \A f \in files : [f EXCEPT !.path = path] \in [key : DeliverKey, by : Attempt, path : Path]
      BY <1>T, <2>2 DEF TypeOK
  <2>4. files' \subseteq [key : DeliverKey, by : Attempt, path : Path]
      BY <1>6, <1>T, <2>2, <2>3 DEF Publish, TypeOK
  <2> QED
      BY <1>6, <1>T, <1>Q, <2>1, <2>4 DEF Publish, Shapes, TypeOK
<1>7. ASSUME NEW a \in Attempt, PublishConcurrent(a) PROVE Shapes'
  <2>1. attempt' \in [Attempt -> {Idle} \cup Knows]
      BY <1>7, GotoKnows DEF PublishConcurrent, At, Pc
  <2> QED
      BY <1>7, <1>T, <1>Q, <2>1 DEF PublishConcurrent, Shapes, TypeOK
<1>8. ASSUME NEW a \in Attempt, Succeed(a) PROVE Shapes'
  <2>1. attempt' \in [Attempt -> {Idle} \cup Knows] /\ attempt[a].key \in Key
      BY <1>8, GotoKnows DEF Succeed, At, Pc, Knows
  <2>2. tool' \in [Key -> ToolStatus] /\ everSucceeded' \subseteq Key
      BY <1>8, <1>T, <2>1 DEF Succeed, TypeOK, ToolStatus
  <2> QED
      BY <1>8, <1>T, <1>Q, <2>1, <2>2 DEF Succeed, Shapes, TypeOK
<1>9. ASSUME NEW a \in Attempt, Fails(a) PROVE Shapes'
  <2>1. attempt' \in [Attempt -> {Idle} \cup Knows]
      BY <1>9, GotoKnows DEF Fails, At, Pc
  <2>2. tool' \in [Key -> ToolStatus]
      BY <1>9, <1>T DEF Fails, Failed, TypeOK, ToolStatus
  <2>3. faults' \in 0..MaxFaults
      BY <1>9, <1>T, <1>0 DEF Fails, TypeOK
  <2> QED
      BY <1>9, <1>T, <1>Q, <2>1, <2>2, <2>3 DEF Fails, Shapes, TypeOK
<1>10. ASSUME NEW a \in Attempt, Dies(a) PROVE Shapes'
  <2>1. attempt' \in [Attempt -> {Idle} \cup Knows]
      BY <1>10, GotoKnows DEF Dies, Pc
  <2>2. faults' \in 0..MaxFaults
      BY <1>10, <1>T, <1>0 DEF Dies, TypeOK
  <2> QED
      BY <1>10, <1>T, <1>Q, <2>1, <2>2 DEF Dies, Shapes, TypeOK
<1> QED
    BY <1>1, <1>2, <1>3, <1>4, <1>5, <1>6, <1>7, <1>8, <1>9, <1>10 DEF Next, Runs

\* No row goes away, and no object.
LEMMA RowsStay ==
    ASSUME Shapes, Next
    PROVE  (\A k \in Key : HasRow(k) => WillHaveRow(k)) /\ objects \subseteq objects'
<1>1. ASSUME NEW a \in Attempt, Publish(a) PROVE (\A k \in Key : HasRow(k) => WillHaveRow(k)) /\ objects \subseteq objects'
  <2> DEFINE path == [key |-> attempt[a].key, name |-> attempt[a].name]
  <2>1. \A f \in files : [f EXCEPT !.path = path].key = f.key
      BY DEF Shapes, TypeOK
  <2>2. ASSUME NEW f \in files PROVE \E g \in files' : g.key = f.key
      BY <1>1, <2>1 DEF Publish
  <2> QED
      BY <1>1, <2>2 DEF Publish, HasRow, WillHaveRow, Rows
<1>2. CASE /\ requests \subseteq requests' /\ files' = files /\ objects \subseteq objects'
    BY <1>2 DEF HasRow, WillHaveRow, Rows
<1> QED
    BY <1>1, <1>2
    DEF Next, Runs, Begin, Claim, Look, InsertRequest, Upload, Stored, PublishConcurrent, Succeed, Fails, Dies

\* A row is inserted when its key has none, and otherwise changed in place.
LEMMA UniqueKept ==
    ASSUME Shapes, Unique, Uploaded, FilesAreStored, Next
    PROVE  Unique' /\ FilesAreStored'
<1>1. ASSUME NEW a \in Attempt, InsertRequest(a) PROVE Unique' /\ FilesAreStored'
  <2> DEFINE k == attempt[a].key
  <2>1. Rows' = Rows \cup {[key |-> k, by |-> a]} /\ \A r \in Rows : r.key # k
      BY <1>1 DEF InsertRequest, Collides, RowOf, Rows
  <2>2. files' = files /\ objects' = objects
      BY <1>1 DEF InsertRequest
  <2> QED
      BY <2>1, <2>2 DEF Unique, FilesAreStored
<1>2. ASSUME NEW a \in Attempt, Publish(a) PROVE Unique' /\ FilesAreStored'
  <2> DEFINE k == attempt[a].key
             path == [key |-> k, name |-> attempt[a].name]
             Moved(f) == IF f.key = k THEN [f EXCEPT !.path = path] ELSE f
  <2>1. path \in objects /\ objects' = objects /\ requests' = requests
      BY <1>2 DEF Publish, Uploaded
  <2>2. CASE Collides(a, k)
    <3>1. files' = {Moved(f) : f \in files}
        BY <1>2, <2>2 DEF Publish
    <3>2. \A f \in files : Moved(f).key = f.key /\ Moved(f).path \in objects
        BY <2>1 DEF Shapes, TypeOK, FilesAreStored
    <3>3. FilesAreStored'
        BY <2>1, <3>1, <3>2 DEF FilesAreStored
    <3>4. ASSUME NEW r \in Rows', NEW s \in Rows', r.key = s.key PROVE r = s
      <4>1. CASE r \in requests /\ s \in requests
          BY <3>4, <4>1 DEF Unique, Rows
      <4>2. CASE r \in files' /\ s \in files'
        <5>1. PICK f \in files, g \in files : r = Moved(f) /\ s = Moved(g)
            BY <3>1, <4>2
        <5>2. f.key = g.key
            BY <3>2, <3>4, <5>1
        <5>3. f = g
            BY <5>2 DEF Unique, Rows
        <5> QED
            BY <5>1, <5>3
      <4>3. ASSUME NEW q \in requests, NEW h \in files', q.key = h.key PROVE FALSE
        <5>1. PICK g \in files : h = Moved(g)
            BY <3>1
        <5>2. q = g
            BY <3>2, <4>3, <5>1 DEF Unique, Rows
        <5>3. q \in [key : CollabKey, by : Attempt] /\ g \in [key : DeliverKey, by : Attempt, path : Path]
            BY DEF Shapes, TypeOK
        <5> QED
            BY <5>2, <5>3
      <4>4. r \in requests \cup files' /\ s \in requests \cup files'
          BY <2>1 DEF Rows
      <4> QED
          BY <3>4, <4>1, <4>2, <4>3, <4>4
    <3> HIDE DEF Moved
    <3> QED
        BY <3>3, <3>4 DEF Unique
  <2>3. CASE ~Collides(a, k)
    <3>1. /\ files' = files \cup {[key |-> k, by |-> a, path |-> path]}
          /\ \A r \in Rows : r.key # k
        BY <1>2, <2>3 DEF Publish, Collides, RowOf, Rows
    <3>2. Rows' = Rows \cup {[key |-> k, by |-> a, path |-> path]}
        BY <2>1, <3>1 DEF Rows
    <3> QED
        BY <2>1, <3>1, <3>2 DEF Unique, FilesAreStored
  <2> QED
      BY <2>2, <2>3
<1>3. CASE requests' = requests /\ files' = files /\ objects \subseteq objects'
    BY <1>3 DEF Unique, Rows, FilesAreStored
<1> QED
    BY <1>1, <1>2, <1>3
    DEF Next, Runs, Begin, Claim, Look, Upload, Stored, PublishConcurrent, Succeed, Fails, Dies

\* How an attempt comes to where it is.
LEMMA Turns ==
    ASSUME Shapes, Next, NEW b \in Attempt
    PROVE  \/ attempt'[b] = attempt[b]
           \/ /\ attempt'[b].pc = "read" /\ attempt'[b].key \in Key
              /\ attempt'[b].seen = tool[attempt'[b].key] /\ tool' = tool
           \/ /\ attempt[b].pc # "idle" /\ attempt'[b].key = attempt[b].key /\ attempt'[b].name = attempt[b].name
              /\ \/ attempt'[b].pc \in {"claimed", "looked", "done", "failed", "dead"}
                 \/ /\ attempt'[b].pc = "replayed" /\ At(b, "read")
                    /\ Replays(attempt[b].seen, tool[attempt[b].key])
                 \/ /\ attempt'[b].pc = "uploaded" /\ attempt[b].key \in DeliverKey
                    /\ [key |-> attempt[b].key, name |-> attempt[b].name] \in objects'
                 \/ attempt'[b].pc = "effected" /\ WillHaveRow(attempt[b].key)
<1> DEFINE Turn == \/ attempt'[b].pc \in {"claimed", "looked", "done", "failed", "dead"}
                   \/ /\ attempt'[b].pc = "replayed" /\ At(b, "read")
                      /\ Replays(attempt[b].seen, tool[attempt[b].key])
                   \/ /\ attempt'[b].pc = "uploaded" /\ attempt[b].key \in DeliverKey
                      /\ [key |-> attempt[b].key, name |-> attempt[b].name] \in objects'
                   \/ attempt'[b].pc = "effected" /\ WillHaveRow(attempt[b].key)
           Known == /\ attempt[b].pc # "idle" /\ attempt'[b].key = attempt[b].key
                    /\ attempt'[b].name = attempt[b].name
<1>1. ASSUME NEW a \in Attempt, NEW k \in Key, NEW name \in FileName, Begin(a, k, name)
      PROVE  \/ attempt'[b] = attempt[b]
             \/ /\ attempt'[b].pc = "read" /\ attempt'[b].key \in Key
                /\ attempt'[b].seen = tool[attempt'[b].key] /\ tool' = tool
    BY <1>1 DEF Begin, Shapes
<1>G. ASSUME NEW a \in Attempt, NEW pc \in Pc \ {"idle"}, Goto(a, pc), attempt[a].pc # "idle"
      PROVE  attempt'[b] = attempt[b] \/ (a = b /\ Known /\ attempt'[b].pc = pc)
    BY <1>G, GotoKnows
<1>2. ASSUME NEW a \in Attempt, Claim(a) PROVE attempt'[b] = attempt[b] \/ (Known /\ Turn)
    BY <1>2, <1>G DEF Claim, At, Pc
<1>3. ASSUME NEW a \in Attempt, Look(a) PROVE attempt'[b] = attempt[b] \/ (Known /\ Turn)
  <2>1. CASE a # b
      BY <1>3, <2>1 DEF Look, Shapes
  <2>2. CASE a = b
    <3> DEFINE pc == IF attempt[a].key \in CollabKey /\ RowOf(requests, attempt[a].key) # {} THEN "effected" ELSE "looked"
               found == RowOf(requests \cup files, attempt[a].key) # {}
    <3>1. attempt' = [attempt EXCEPT ![a] = [attempt[a] EXCEPT !.pc = pc, !.found = found]]
        BY <1>3 DEF Look
    <3>2. attempt[a] \in Knows
        BY <1>3 DEF Look, At, Shapes, Idle
    <3>3. attempt'[a].pc = pc /\ Known
      <4> HIDE DEF pc, found
      <4>1. attempt'[a] = [attempt[a] EXCEPT !.pc = pc, !.found = found]
          BY <3>1 DEF Shapes
      <4>2. attempt[a].pc # "idle"
          BY <1>3 DEF Look, At
      <4> QED
          BY <2>2, <3>2, <4>1, <4>2 DEF Knows
    <3>4. pc = "effected" => WillHaveRow(attempt[b].key)
        BY <1>3, <2>2 DEF Look, RowOf, HasRow, WillHaveRow, Rows
    <3> QED
        BY <2>2, <3>3, <3>4
  <2> QED
      BY <2>1, <2>2
<1>4. ASSUME NEW a \in Attempt, InsertRequest(a) PROVE attempt'[b] = attempt[b] \/ (Known /\ Turn)
  <2>1. WillHaveRow(attempt[a].key)
    <3>1. [key |-> attempt[a].key, by |-> a] \in Rows'
        BY <1>4 DEF InsertRequest, Rows
    <3> QED
        BY <3>1 DEF WillHaveRow
  <2> QED
      BY <1>4, <1>G, <2>1 DEF InsertRequest, At, Pc
<1>5. ASSUME NEW a \in Attempt, Upload(a) PROVE attempt'[b] = attempt[b] \/ (Known /\ Turn)
    BY <1>5, <1>G DEF Upload, Stored, At, Pc
<1>6. ASSUME NEW a \in Attempt, Publish(a) PROVE attempt'[b] = attempt[b] \/ (Known /\ Turn)
  <2>1. attempt[a].key \in Key
      BY <1>6 DEF Publish, At, Shapes, Idle, Knows
  <2>2. WillHaveRow(attempt[a].key)
    <3>1. CASE Collides(a, attempt[a].key)
        BY <1>6, <2>1, <3>1, RowsStay DEF Collides, RowOf, HasRow, WillHaveRow, Rows
    <3>2. CASE ~Collides(a, attempt[a].key)
      <4> DEFINE new == [key |-> attempt[a].key, by |-> a,
                         path |-> [key |-> attempt[a].key, name |-> attempt[a].name]]
      <4>1. new \in Rows'
          BY <1>6, <3>2 DEF Publish, Rows
      <4> QED
          BY <4>1 DEF WillHaveRow
    <3> QED
        BY <3>1, <3>2
  <2> QED
      BY <1>6, <1>G, <2>2 DEF Publish, At, Pc
<1>7. ASSUME NEW a \in Attempt, PublishConcurrent(a) PROVE attempt'[b] = attempt[b] \/ (Known /\ Turn)
  <2>1. WillHaveRow(attempt[a].key)
      BY <1>7 DEF PublishConcurrent, Collides, RowOf, HasRow, WillHaveRow, Rows
  <2> QED
      BY <1>7, <1>G, <2>1 DEF PublishConcurrent, At, Pc
<1>8. ASSUME NEW a \in Attempt, Succeed(a) \/ Fails(a) \/ Dies(a)
      PROVE attempt'[b] = attempt[b] \/ (Known /\ Turn)
    BY <1>8, <1>G DEF Succeed, Fails, Dies, At, Pc
<1> QED
    BY <1>1, <1>2, <1>3, <1>4, <1>5, <1>6, <1>7, <1>8 DEF Next, Runs

\* An attempt is past its upload when the object is there.
LEMMA UploadedKept ==
    ASSUME Shapes, Uploaded, Next
    PROVE  Uploaded'
BY Turns, RowsStay DEF Uploaded, At

\* A success is written by an attempt that comes from an effect, and believed by one that
\* read it.
LEMMA BackedKept ==
    ASSUME Shapes, Backed, Next
    PROVE  Backed'
<1>1. ASSUME NEW k \in Key, tool'[k] = "succeeded" PROVE HasRow(k)
  <2>T. tool \in [Key -> ToolStatus]
      BY DEF Shapes, TypeOK
  <2>1. ASSUME NEW a \in Attempt, Claim(a) PROVE tool[k] = "succeeded"
      BY <1>1, <2>T, <2>1 DEF Claim, MarkRunning
  <2>2. ASSUME NEW a \in Attempt, Succeed(a) PROVE tool[k] = "succeeded" \/ HasRow(k)
      BY <1>1, <2>T, <2>2 DEF Succeed, Backed
  <2>3. ASSUME NEW a \in Attempt, Fails(a) PROVE tool[k] = "succeeded"
      BY <1>1, <2>T, <2>3 DEF Fails, Failed
  <2>4. tool' = tool => tool[k] = "succeeded"
      BY <1>1
  <2>5. tool[k] = "succeeded" \/ HasRow(k)
      BY <2>1, <2>2, <2>3, <2>4
      DEF Next, Runs, Begin, Look, InsertRequest, Upload, Publish, PublishConcurrent, Dies
  <2> QED
      BY <2>5 DEF Backed
<1>2. ASSUME NEW b \in Attempt, attempt'[b].pc = "read", attempt'[b].seen = "succeeded" PROVE WillHaveRow(attempt'[b].key)
  <2>1. attempt'[b].key \in Key /\ HasRow(attempt'[b].key)
    <3>1. CASE attempt'[b] = attempt[b]
        BY <1>2, <3>1 DEF Backed, At, Shapes, Idle, Knows
    <3>2. CASE attempt'[b].key \in Key /\ attempt'[b].seen = tool[attempt'[b].key]
        BY <1>2, <3>2 DEF Backed
    <3> QED
        BY <1>2, <3>1, <3>2, Turns
  <2> QED
      BY <2>1, RowsStay
<1>3. ASSUME NEW b \in Attempt, attempt'[b].pc \in {"effected", "replayed"} PROVE WillHaveRow(attempt'[b].key)
  <2>1. CASE attempt'[b] = attempt[b]
    <3>1. attempt[b].key \in Key /\ HasRow(attempt[b].key)
        BY <1>3, <2>1 DEF Backed, At, Shapes, Idle, Knows
    <3> QED
        BY <2>1, <3>1, RowsStay
  <2>2. CASE At(b, "read") /\ Replays(attempt[b].seen, tool[attempt[b].key]) /\ attempt'[b].key = attempt[b].key
    <3>1. attempt[b].key \in Key /\ HasRow(attempt[b].key)
        BY <2>2 DEF Replays, Backed, At, Shapes, Idle, Knows
    <3> QED
        BY <2>2, <3>1, RowsStay
  <2> QED
      BY <1>3, <2>1, <2>2, Turns
<1>4. \A k \in Key : HasRow(k) => WillHaveRow(k)
    BY RowsStay
<1> QED
    BY <1>1, <1>2, <1>3, <1>4 DEF Backed, At, HasRow, WillHaveRow

\* The keys, their rows and their attempts keep the invariant, for any number of
\* attempts that overlap, fail and die.
THEOREM ToolsKept == ToolBoundAssumption /\ Spec => []ToolInvariant
<1> SUFFICES ASSUME ToolBoundAssumption PROVE Spec => []ToolInvariant
    OBVIOUS
<1>1. Init => ToolInvariant
    BY InitTools
<1>2. ToolInvariant /\ [Next]_vars => ToolInvariant'
  <2> SUFFICES ASSUME ToolInvariant, [Next]_vars PROVE ToolInvariant'
      OBVIOUS
  <2>1. CASE Next
      BY <2>1, ShapesKept, UniqueKept, UploadedKept, BackedKept DEF ToolInvariant
  <2>2. CASE UNCHANGED vars
      BY <2>2 DEF vars, ToolInvariant, Shapes, TypeOK, Unique, FilesAreStored, Uploaded, Backed, At, HasRow, WillHaveRow, Rows
  <2> QED
      BY <2>1, <2>2
<1> QED
    BY <1>1, <1>2, PTL DEF Spec

\* OneRowPerKey: a key has one request and one file at most.
THEOREM OneRowForAKey == ToolBoundAssumption /\ Spec => []OneRowPerKey
<1>1. Unique => OneRowPerKey
  <2> SUFFICES ASSUME Unique, NEW k \in Key PROVE Cardinality(RowOf(Rows, k)) <= 1
      BY DEF OneRowPerKey, Rows
  <2>1. CASE RowOf(Rows, k) = {}
      BY <2>1, FS_EmptySet
  <2>2. CASE RowOf(Rows, k) # {}
    <3>1. PICK r \in Rows : r.key = k
        BY <2>2 DEF RowOf
    <3>2. RowOf(Rows, k) = {r}
        BY <3>1 DEF RowOf, Unique
    <3>3. Cardinality({r}) = 1
        BY FS_Singleton
    <3> QED
        BY <3>2, <3>3
  <2> QED
      BY <2>1, <2>2
<1>2. ToolInvariant => OneRowPerKey
    BY <1>1 DEF ToolInvariant
<1> QED
    BY <1>2, ToolsKept, PTL

\* FilesAreStored: a file that is listed has its object in the store.
THEOREM ListedFilesAreStored == ToolBoundAssumption /\ Spec => []FilesAreStored
<1>1. ToolInvariant => FilesAreStored
    BY DEF ToolInvariant
<1> QED
    BY <1>1, ToolsKept, PTL

\* SuccessIsBacked: a stored success, and an answer taken from one, stand for a row.
THEOREM SuccessHasARow == ToolBoundAssumption /\ Spec => []SuccessIsBacked
<1>1. ToolInvariant => SuccessIsBacked
  <2> SUFFICES ASSUME ToolInvariant PROVE SuccessIsBacked
      OBVIOUS
  <2>1. \A k \in Key : HasRow(k) => RowOf(requests \cup files, k) # {}
      BY DEF HasRow, WillHaveRow, Rows, RowOf
  <2>2. \A a \in Attempt : At(a, "replayed") => attempt[a].key \in Key
      BY DEF ToolInvariant, Shapes, At, Idle, Knows
  <2> QED
      BY <2>1, <2>2 DEF ToolInvariant, Backed, SuccessIsBacked
<1> QED
    BY <1>1, ToolsKept, PTL
=============================================================================
