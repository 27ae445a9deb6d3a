--------------------------- MODULE GroupMessaging ---------------------------
(***************************************************************************)
(* One discussion channel: members, messages, the answers of the agents    *)
(* they mention, unread marks, realtime delivery, the promotion of a       *)
(* message to a proposal or a task, archiving and disbanding.              *)
(*                                                                         *)
(* A request of a person takes several transactions (op), and others       *)
(* commit between them.  Disbanding enqueues an archive event in its own   *)
(* transaction; a worker handles it and is given it again when it fails.   *)
(* A document that was indexed once under the channel's file id is         *)
(* returned as it is, whoever asks again.                                  *)
(***************************************************************************)
EXTENDS Naturals, FiniteSets

CONSTANTS
    Owner, Guest,        \* the creator of the channel, and the other people
    HumanMessage, AiMessage,
    MaxClock,            \* bound: time stamps taken
    MaxFaults            \* bound: archive attempts that fail, and requests that end half way

GroupPeopleAssumption == Owner \notin Guest
GroupMessageAssumption == HumanMessage \cap AiMessage = {}
GroupBoundAssumption == MaxClock \in Nat \ {0} /\ MaxFaults \in Nat

Person == Guest \cup {Owner}
MessageId == HumanMessage \cup AiMessage

VARIABLES
    archived, deleted,   \* discussion_channel.is_archived, is_delete
    member,              \* the people with an active channel_member row
    lastRead, shown,     \* last_read_at, and (history) what the reader had been shown then
    at,                  \* create_time of every committed message
    proposals, tasks,    \* what messages were promoted to
    ref,                 \* the messages whose ref_id is set
    op,                  \* the request of each person
    event, worker,       \* the archive event, and the worker's attempt at it
    document,            \* the messages in the archive document
    mustKeep,            \* history: the messages committed when the channel was disbanded
    queued, received,    \* realtime: published and not yet handled, and delivered
    entitled,            \* history: who was a member when a message was published, or since
    clock, faults

chan == <<archived, deleted, member>>
marks == <<lastRead, shown>>
texts == <<at, proposals, tasks, ref>>
archive == <<event, worker, document, mustKeep>>
wire == <<queued, received, entitled>>
vars == <<chan, marks, texts, op, archive, wire, clock, faults>>

-----------------------------------------------------------------------------
None == "none"
Messages == DOMAIN at
Idle == [pc |-> "idle"]
At(p, pc) == op[p].pc = pc
Goto(p, to) == op' = [op EXCEPT ![p] = to]
Tick == clock < MaxClock /\ clock' = clock + 1
Stay == UNCHANGED <<clock, faults>>

Init == /\ archived = FALSE /\ deleted = FALSE /\ member = Person
        /\ lastRead = [p \in Person |-> 0] /\ shown = [p \in Person |-> {}]
        /\ at = <<>> /\ proposals = {} /\ tasks = [m \in MessageId |-> 0] /\ ref = {}
        /\ op = [p \in Person |-> Idle]
        /\ event = None /\ worker = [pc |-> "idle"] /\ document = {} /\ mustKeep = {}
        /\ queued = {} /\ received = {} /\ entitled = [m \in MessageId |-> {}]
        /\ clock = 1 /\ faults = 0

Unused(m) == /\ m \notin Messages
             /\ \A p \in Person : At(p, "posting") => op[p].m # m

-----------------------------------------------------------------------------
(* Messages.                                                               *)

\* _save_human_message up to its commit: create_time is taken, the row is not there yet.
Post(p, m) ==
    /\ At(p, "idle") /\ ~deleted /\ p \in member /\ ~archived /\ m \in HumanMessage /\ Unused(m)
    /\ Tick
    /\ Goto(p, [pc |-> "posting", m |-> m, at |-> clock])
    /\ UNCHANGED <<chan, marks, texts, archive, wire, faults>>

\* add_message and commit.
CommitPost(p) ==
    /\ At(p, "posting")
    /\ at' = [m \in Messages \cup {op[p].m} |-> IF m = op[p].m THEN op[p].at ELSE at[m]]
    /\ Goto(p, [pc |-> "publishing", m |-> op[p].m])
    /\ UNCHANGED <<chan, marks, proposals, tasks, ref, archive, wire>> /\ Stay

\* publish reaches everybody whose stream subscribed to the channel: whoever was a member once.
Publish(p) ==
    LET m == op[p].m
    IN  /\ At(p, "publishing")
        /\ queued' = queued \cup {[m |-> m, to |-> q] : q \in Person}
        /\ entitled' = [entitled EXCEPT ![m] = member]
        /\ \/ Goto(p, Idle)
           \/ m \in HumanMessage /\ ~deleted /\ Goto(p, [pc |-> "answering"])   \* _recent_context
        /\ UNCHANGED <<chan, marks, texts, archive, received>> /\ Stay

\* _save_ai_message: the channel is not looked at again when the model has answered.
Answer(p, m) ==
    /\ At(p, "answering") /\ m \in AiMessage /\ Unused(m)
    /\ Tick
    /\ at' = [x \in Messages \cup {m} |-> IF x = m THEN clock ELSE at[x]]
    /\ Goto(p, [pc |-> "publishing", m |-> m])
    /\ UNCHANGED <<chan, marks, proposals, tasks, ref, archive, wire, faults>>

\* Variant of Authorized: the membership with which the stream was opened.
AuthorizedOnce(p) == TRUE

\* _still_member, asked for every message.
Authorized(p) == p \in member

Deliver(d) ==
    /\ d \in queued
    /\ queued' = queued \ {d}
    /\ received' = IF Authorized(d.to) THEN received \cup {d} ELSE received
    /\ UNCHANGED <<chan, marks, texts, op, archive, entitled>> /\ Stay

\* The client lists the channel and marks it read.
MarkRead(p) ==
    /\ At(p, "idle") /\ ~deleted /\ p \in member
    /\ Tick
    /\ lastRead' = [lastRead EXCEPT ![p] = clock]
    /\ shown' = [shown EXCEPT ![p] = Messages]
    /\ UNCHANGED <<chan, texts, op, archive, wire, faults>>

-----------------------------------------------------------------------------
(* Promotion.                                                              *)

\* The message is read, and assert_promotable holds.
OpenPromote(p, m) ==
    /\ At(p, "idle") /\ m \in Messages \ ref
    /\ Goto(p, [pc |-> "promoting", m |-> m])
    /\ UNCHANGED <<chan, marks, texts, archive, wire>> /\ Stay

\* uuid5 of the message.
ProposalId(m, p) == m

\* create: the proposal is committed on its own, or found where an earlier try left it.
PromoteToProposal(p) ==
    /\ At(p, "promoting")
    /\ proposals' = proposals \cup {[id |-> ProposalId(op[p].m, p), of |-> op[p].m]}
    /\ Goto(p, [op[p] EXCEPT !.pc = "promoted"])
    /\ UNCHANGED <<chan, marks, at, tasks, ref, archive, wire>> /\ Stay

\* create_task_in_transaction: task and message are committed together.
PromoteToTask(p) ==
    /\ At(p, "promoting")
    /\ tasks' = [tasks EXCEPT ![op[p].m] = @ + 1]
    /\ ref' = ref \cup {op[p].m}
    /\ Goto(p, Idle)
    /\ UNCHANGED <<chan, marks, at, proposals, archive, wire>> /\ Stay

SavePromotion(p) ==
    /\ At(p, "promoted")
    /\ ref' = ref \cup {op[p].m}
    /\ Goto(p, Idle)
    /\ UNCHANGED <<chan, marks, at, proposals, tasks, archive, wire>> /\ Stay

-----------------------------------------------------------------------------
(* Members, archiving, disbanding.                                         *)

\* add_members: the channel and the owner are checked, the rows are committed later.
OpenAdd(q) ==
    /\ At(Owner, "idle") /\ ~deleted /\ q \notin member
    /\ Goto(Owner, [pc |-> "adding", who |-> q])
    /\ UNCHANGED <<chan, marks, texts, archive, wire>> /\ Stay

AddMember ==
    /\ At(Owner, "adding")
    /\ member' = member \cup {op[Owner].who}
    /\ entitled' = [m \in MessageId |-> IF m \in Messages THEN entitled[m] \cup {op[Owner].who} ELSE {}]
    /\ Goto(Owner, Idle)
    /\ UNCHANGED <<archived, deleted, marks, texts, archive, queued, received>> /\ Stay

RemoveMember(q) ==
    /\ At(Owner, "idle") /\ ~deleted /\ q \in member \ {Owner}
    /\ member' = member \ {q}
    /\ UNCHANGED <<archived, deleted, marks, texts, op, archive, wire>> /\ Stay

\* archive_channel, by a manager: the flag first, the document after.
ArchiveChannel(p) ==
    /\ At(p, "idle") /\ ~deleted /\ ~archived
    /\ archived' = TRUE
    /\ Goto(p, [pc |-> "archiving", of |-> Messages])
    /\ UNCHANGED <<deleted, member, marks, texts, archive, wire>> /\ Stay

\* ingest_text under archive_file_id; nothing is archived of an empty channel.
Indexed(messages) == IF document = {} THEN messages ELSE document

\* _archive of the request; its failure is only logged.
SaveArchive(p) ==
    /\ At(p, "archiving")
    /\ document' = Indexed(op[p].of)
    /\ Goto(p, Idle)
    /\ UNCHANGED <<chan, marks, texts, event, worker, mustKeep, wire>> /\ Stay

\* enqueue_disband_archive is part of the transaction.
EventOf == {"pending"}

\* disband_channel by another session of the owner.
Disband ==
    /\ ~deleted
    /\ deleted' = TRUE /\ member' = {}
    /\ mustKeep' = Messages
    /\ event' \in EventOf
    /\ UNCHANGED <<archived, marks, texts, op, worker, document, wire>> /\ Stay

ArchiveDisbanded ==
    /\ event = "pending" /\ worker.pc = "idle"
    /\ worker' = [pc |-> "working", of |-> Messages]
    /\ UNCHANGED <<chan, marks, texts, op, event, document, mustKeep, wire>> /\ Stay

WriteArchive ==
    /\ worker.pc = "working"
    /\ document' = Indexed(worker.of)
    /\ event' = "done" /\ worker' = [pc |-> "idle"]
    /\ UNCHANGED <<chan, marks, texts, op, mustKeep, wire>> /\ Stay

Fault == faults < MaxFaults /\ faults' = faults + 1 /\ UNCHANGED clock

\* archive_disbanded_channel is strict: the event stays and is tried again.
Outcome == "pending"

ArchiveFails ==
    /\ worker.pc = "working" /\ Fault
    /\ worker' = [pc |-> "idle"] /\ event' = Outcome
    /\ UNCHANGED <<chan, marks, texts, op, document, mustKeep, wire>>

\* A request ends where it is: the client closed its stream, or the process ended.
Ends(p) ==
    /\ ~At(p, "idle") /\ Fault
    /\ Goto(p, Idle)
    /\ UNCHANGED <<chan, marks, texts, archive, wire>>

-----------------------------------------------------------------------------
Talks(p) == \/ \E m \in MessageId : Post(p, m) \/ Answer(p, m) \/ OpenPromote(p, m)
            \/ CommitPost(p) \/ Publish(p) \/ MarkRead(p)
            \/ PromoteToProposal(p) \/ PromoteToTask(p) \/ SavePromotion(p)
            \/ ArchiveChannel(p) \/ SaveArchive(p) \/ Ends(p)
Manages == AddMember \/ Disband \/ \E q \in Guest : OpenAdd(q) \/ RemoveMember(q)
Worker == ArchiveDisbanded \/ WriteArchive
Next == \/ \E p \in Person : Talks(p)
        \/ Manages \/ Worker \/ ArchiveFails
        \/ \E d \in queued : Deliver(d)

Spec == Init /\ [][Next]_vars

\* The dispatcher polls the outbox for ever; what people do is up to them.
FairSpec == Spec /\ WF_vars(Worker)

-----------------------------------------------------------------------------
TypeOK == /\ archived \in BOOLEAN /\ deleted \in BOOLEAN /\ member \subseteq Person
          /\ lastRead \in [Person -> 0..MaxClock] /\ shown \in [Person -> SUBSET MessageId]
          /\ Messages \subseteq MessageId /\ \A m \in Messages : at[m] \in 1..MaxClock
          /\ ref \subseteq MessageId
          /\ event \in {None, "pending", "done"} /\ worker.pc \in {"idle", "working"}
          /\ document \subseteq MessageId /\ mustKeep \subseteq MessageId
          /\ \A d \in queued \cup received : d.m \in MessageId /\ d.to \in Person
          /\ clock \in 1..MaxClock /\ faults \in 0..MaxFaults

\* Who was put out before a message was published, and is not back, never receives
\* it, although the stream is still subscribed (docs/18, immediate withdrawal).
KickedHearNothing == \A d \in received : d.to \in entitled[d.m]

\* However often a promotion is tried again, a message has one proposal.
OneProposalPerMessage == \A x, y \in proposals : x.of = y.of => x = y

\* A disbanded channel that had messages gets its archive document, whatever fails on the way.
DisbandedIsArchived == (deleted /\ mustKeep # {}) ~> (document # {})

-----------------------------------------------------------------------------
(* What the documents promise and the code does not keep (see README). *)

\* Nobody is left in a disbanded channel (disband_channel deactivates its members).
NobodyLeftInside == deleted => member = {}

\* An archived channel takes no further messages (ensure_postable).
ClosedForPosts == [][archived => at' = at]_vars

\* A message of somebody else that the reader was not shown counts as unread.
UnreadIsAccurate ==
    \A p \in member, m \in Messages : m \notin shown[p] => at[m] > lastRead[p]

\* What was promoted is not promoted again.
PromotedOnce == \A m \in MessageId : tasks[m] + Cardinality({x \in proposals : x.of = m}) <= 1

\* The archive of a disbanded channel holds what had been said in it.
ArchiveIsComplete == event = "done" => mustKeep \subseteq document
=============================================================================
