--------------------------- MODULE Collaboration ---------------------------
(***************************************************************************)
(* Collaboration between departments: requests, their review by the       *)
(* supervisor of the target department, the channels an administrator      *)
(* authorizes, and the audit records of both.                              *)
(*                                                                         *)
(* A governed operation is one HTTP request: it loads a row, checks it,    *)
(* writes and commits it, and then appends its audit record in a           *)
(* transaction of its own, tried twice.  Requests of several people        *)
(* interleave between those steps, and any of them may end.                *)
(*                                                                         *)
(*   idle -Open-> read -Save-> committed -Append-> idle                    *)
(***************************************************************************)
EXTENDS Naturals, FiniteSets

CONSTANTS
    Dept, Person,
    Administrator,       \* the people whose role code is admin
    Request,             \* ids of collaboration requests
    Channel,             \* ids of authorizations
    Category, RedLine,   \* what a request may be about, and HIGH_RISK_CATEGORIES
    None,
    MaxFaults            \* bound: requests that end half way, and inserts of audit records that fail

CollabPeopleAssumption == Administrator \subseteq Person /\ None \notin Person
CollabCategoryAssumption == RedLine \subseteq Category
CollabBoundAssumption == MaxFaults \in Nat

VARIABLES
    supervisor,   \* sys_department.supervisor_user_id
    supervised,   \* history: who supervised which department
    request,      \* the collab_request rows
    channel,      \* the collab_authorization rows: none, active or deleted
    session,      \* the governed operation each person has under way
    done,         \* history: the operations that committed
    audit,        \* the audit_log rows
    crashes, misses

vars == <<supervisor, supervised, request, channel, session, done, audit, crashes, misses>>

-----------------------------------------------------------------------------
Decision == {"approved", "rejected"}
Decided == [status : Decision, target : Dept, category : Category, risk : {"low", "high"}, by : Person]
Pending == [status : {"pending"}, target : Dept, category : Category, risk : {"low", "high"}, by : {None}]

\* What a committed operation did, and what its audit record says.
Deed == [what : {"review"}, on : Request, by : Person, to : Decision]
        \cup [what : {"authorize", "revoke"}, on : Channel, by : Administrator]

Idle == [pc |-> "idle", tries |-> 0]
At(p, pc) == session[p].pc = pc
End(p) == session' = [session EXCEPT ![p] = Idle]

Init == /\ supervisor \in [Dept -> Person \ Administrator]
        /\ supervised = {<<d, supervisor[d]>> : d \in Dept}
        /\ request = [r \in Request |-> [status |-> "none"]]
        /\ channel = [c \in Channel |-> "none"]
        /\ session = [p \in Person |-> Idle]
        /\ done = {} /\ audit = {}
        /\ crashes = 0 /\ misses = 0

\* The organization appoints another supervisor, or deletes the department.
Appoint(d, p) ==
    /\ p # supervisor[d]
    /\ supervisor' = [supervisor EXCEPT ![d] = p]
    /\ supervised' = supervised \cup ({<<d, p>>} \cap (Dept \X Person))
    /\ UNCHANGED <<request, channel, session, done, audit, crashes, misses>>

classify_risk(category) == IF category \in RedLine THEN "high" ELSE "low"

\* The level the caller gives, if any, replaces the classification.
RiskLevel(category, given) == IF given = None THEN classify_risk(category) ELSE given

CreateRequest(r, d, category, given) ==
    /\ request[r].status = "none"
    /\ request' = [request EXCEPT ![r] = [status |-> "pending", target |-> d, category |-> category,
                                          risk |-> RiskLevel(category, given), by |-> None]]
    /\ UNCHANGED <<supervisor, supervised, channel, session, done, audit, crashes, misses>>

\* _run_collab: an agent names the department and a category, and never a level.
AgentRequests(r, d, category) == CreateRequest(r, d, category, None)

CanReview(p, d) == p \in Administrator \/ supervisor[d] = p

\* review_request_authorized, up to its commit: the row is read and checked.
OpenReview(p, r, decision) ==
    /\ At(p, "idle") /\ request[r].status = "pending"
    /\ CanReview(p, request[r].target)
    /\ session' = [session EXCEPT ![p] =
           [pc |-> "read", tries |-> 0, deed |-> [what |-> "review", on |-> r, by |-> p, to |-> decision]]]
    /\ UNCHANGED <<supervisor, supervised, request, channel, done, audit, crashes, misses>>

OpenRevoke(p, c) ==
    /\ At(p, "idle") /\ p \in Administrator /\ channel[c] = "active"
    /\ session' = [session EXCEPT ![p] =
           [pc |-> "read", tries |-> 0, deed |-> [what |-> "revoke", on |-> c, by |-> p]]]
    /\ UNCHANGED <<supervisor, supervised, request, channel, done, audit, crashes, misses>>

\* authorize inserts a row nobody else knows.
OpenAuthorize(p, c) ==
    /\ At(p, "idle") /\ p \in Administrator /\ channel[c] = "none"
    /\ \A q \in Person : ~At(q, "idle") => session[q].deed.on # c
    /\ session' = [session EXCEPT ![p] =
           [pc |-> "read", tries |-> 0, deed |-> [what |-> "authorize", on |-> c, by |-> p]]]
    /\ UNCHANGED <<supervisor, supervised, request, channel, done, audit, crashes, misses>>

\* save_request: an update of the row by its id, whatever has become of its status.
SaveRequest(deed) == request' = [request EXCEPT ![deed.on].status = deed.to, ![deed.on].by = deed.by]

SaveChannel(deed) ==
    channel' = [channel EXCEPT ![deed.on] = IF deed.what = "authorize" THEN "active" ELSE "deleted"]

Save(p) ==
    LET deed == session[p].deed
    IN  /\ At(p, "read")
        /\ IF deed.what = "review"
           THEN SaveRequest(deed) /\ UNCHANGED channel
           ELSE SaveChannel(deed) /\ UNCHANGED request
        /\ session' = [session EXCEPT ![p].pc = "committed"]
        /\ done' = done \cup {deed}
        /\ UNCHANGED <<supervisor, supervised, audit, crashes, misses>>

Append(p) ==
    /\ At(p, "committed")
    /\ audit' = audit \cup {session[p].deed}
    /\ End(p)
    /\ UNCHANGED <<supervisor, supervised, request, channel, done, crashes, misses>>

\* Variant of Tries: one attempt.
TriesOnce == 1

Tries == 2

\* An insert that fails is tried again; then the failure is only logged.
AppendFails(p) ==
    /\ At(p, "committed") /\ crashes + misses < MaxFaults
    /\ misses' = misses + 1
    /\ IF session[p].tries + 1 < Tries
       THEN session' = [session EXCEPT ![p].tries = @ + 1]
       ELSE End(p)
    /\ UNCHANGED <<supervisor, supervised, request, channel, done, audit, crashes>>

\* The process ends, or the client's request is cancelled.
Ends(p) ==
    /\ ~At(p, "idle") /\ crashes + misses < MaxFaults
    /\ crashes' = crashes + 1
    /\ End(p)
    /\ UNCHANGED <<supervisor, supervised, request, channel, done, audit, misses>>

Creates == \E r \in Request, d \in Dept, category \in Category :
              AgentRequests(r, d, category) \/ \E given \in {None, "low", "high"} : CreateRequest(r, d, category, given)
Governs(p) == \/ \E r \in Request, decision \in Decision : OpenReview(p, r, decision)
              \/ \E c \in Channel : OpenAuthorize(p, c) \/ OpenRevoke(p, c)
Next == \/ Creates
        \/ \E d \in Dept, p \in (Person \ Administrator) \cup {None} : Appoint(d, p)
        \/ \E p \in Person : Governs(p) \/ Save(p) \/ Append(p) \/ AppendFails(p) \/ Ends(p)

Spec == Init /\ [][Next]_vars

-----------------------------------------------------------------------------
TypeOK == /\ supervisor \in [Dept -> Person \cup {None}]
          /\ \A r \in Request : request[r] \in Pending \cup Decided \cup {[status |-> "none"]}
          /\ channel \in [Channel -> {"none", "active", "deleted"}]
          /\ \A p \in Person : /\ session[p].tries \in 0..1
                               /\ At(p, "idle") \/ session[p].deed \in Deed
          /\ done \subseteq Deed /\ audit \subseteq Deed
          /\ crashes + misses <= MaxFaults

\* Who decided a request was entitled to: an administrator, or a supervisor of the
\* target department at the time the request was opened (can_review).
ReviewerEntitled ==
    \A r \in Request : request[r].status \in Decision =>
        request[r].by \in Administrator \/ <<request[r].target, request[r].by>> \in supervised

\* An audit record says what was committed: none is left of an operation that was rolled back.
AuditIsTrue == audit \subseteq done

\* One failure does not cost a record: an operation without one was cut short, or
\* its record was refused twice (AppendAuditRecord tries each record twice).
LostRecordsAreCounted ==
    LET unwritten == {deed \in done \ audit : \A p \in Person : At(p, "committed") => session[p].deed # deed}
    IN  Cardinality(unwritten) <= crashes + (misses \div 2)

-----------------------------------------------------------------------------
(* What the documents promise and the code does not keep (see README). *)

\* A request that was decided is not decided again.
ReviewIsFinal == \A d1, d2 \in done : (d1.what = "review" /\ d2.what = "review" /\ d1.on = d2.on) => d1 = d2

\* Every review and authorization leaves its record, once the request is over.
Audited == \A deed \in done : deed \in audit \/ \E p \in Person : At(p, "committed") /\ session[p].deed = deed

\* What is about a red-line category is high risk.
RedLineIsHigh == \A r \in Request : request[r].status = "none" \/ request[r].category \notin RedLine
                                    \/ request[r].risk = "high"
=============================================================================
