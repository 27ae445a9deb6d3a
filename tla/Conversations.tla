---------------------------- MODULE Conversations ---------------------------
(***************************************************************************)
(* The conversation of one person with their assistant: the assistant and  *)
(* its memory base made on first use, turns and their answers, pins, and   *)
(* the archive a page load makes of what left the history window.          *)
(*                                                                         *)
(* Every request of the person runs in a session of its own; each pc step  *)
(* is one transaction, or one call between two.                            *)
(*                                                                         *)
(*   idle -Meet-> none/named -> noBase -> ready                            *)
(*   load:  ready -ListOld-> batch -Open-> known -> parsing -> stored -> . *)
(*   turn:  ready -Ask-> asked -Persist-> turn -> chat -Reply-> .          *)
(***************************************************************************)
EXTENDS Naturals, FiniteSets

CONSTANTS
    Loader, Turner, Pinner,  \* requests that load the page, send a turn, pin a message
    Known,                   \* whether the assistant and its base exist already
    MaxMessages,             \* bound: messages ever stored
    MaxReplies,              \* bound: answers to one turn (participants times rounds)
    MaxFaults                \* bound: failing calls and dying requests

ConversationKnownAssumption == Known \in BOOLEAN
ConversationBoundAssumption ==
    MaxMessages \in Nat /\ MaxReplies \in Nat \ {0} /\ MaxFaults \in Nat

Message == 1..MaxMessages     \* in the order of create_time
Request == Loader \cup Turner \cup Pinner
Batch == SUBSET Message       \* an archive document is identified by its messages

VARIABLES
    expert,   \* the assistant exists (its name is unique)
    bases,    \* personal knowledge bases of the assistant
    row,      \* desktop_message: none, here or gone
    quotes,   \* reply_to_message_id, 0 for none
    pinned,
    sent,     \* messages stored so far
    old,      \* messages older than the history window
    doc,      \* knowledge_file of an archive: its status
    text,     \* archives whose chunks are stored
    request,  \* what each request knows
    started,  \* turns that started a workflow
    chatted,  \* turns answered by the assistant itself
    stored,   \* history: archives that were indexed once
    refused,  \* history: a load ended with an error although no call failed
    faults

vars == <<expert, bases, row, quotes, pinned, sent, old, doc, text, request, started,
          chatted, stored, refused, faults>>
assistants == <<expert, bases>>
messages == <<row, quotes, pinned, sent, old>>
archive == <<doc, text, stored, refused>>
turns == <<started, chatted>>

-----------------------------------------------------------------------------
Status == {"none", "uploaded", "parsing", "indexed", "failed"}
Pc == {"idle", "none", "named", "noBase", "ready", "batch", "known", "parsing", "stored",
       "asked", "turn", "chat", "pin"}
Idle == [pc |-> "idle"]
At(r, pc) == request[r].pc = pc
Goto(r, pc) == request' = [request EXCEPT ![r].pc = pc]
Leave(r) == request' = [request EXCEPT ![r] = Idle]
Here(m) == m \in Message /\ row[m] = "here"

Init == /\ expert = Known /\ bases = IF Known THEN 1 ELSE 0
        /\ row = [m \in Message |-> "none"] /\ quotes = [m \in Message |-> 0]
        /\ pinned = {} /\ sent = 0 /\ old = 0
        /\ doc = [b \in Batch |-> "none"] /\ text = {} /\ stored = {}
        /\ request = [r \in Request |-> Idle]
        /\ started = {} /\ chatted = {} /\ refused = FALSE /\ faults = 0

-----------------------------------------------------------------------------
(* The assistant and its base.                                             *)

Meet(r) ==
    /\ At(r, "idle") /\ r \in Loader \cup Turner
    /\ Goto(r, IF expert THEN "named" ELSE "none")
    /\ UNCHANGED <<assistants, messages, archive, turns, faults>>

\* uq_agent_name refuses the second of two that overlap.
CreateExpert(r) ==
    /\ At(r, "none")
    /\ expert' = TRUE
    /\ IF expert THEN Leave(r) ELSE Goto(r, "named")
    /\ UNCHANGED <<bases, messages, archive, turns, faults>>

\* scalar_one_or_none raises when there are several.
FindBase(r) ==
    /\ At(r, "named")
    /\ IF bases > 1 THEN Leave(r) ELSE Goto(r, IF bases = 1 THEN "ready" ELSE "noBase")
    /\ UNCHANGED <<assistants, messages, archive, turns, faults>>

CreateBase(r) ==
    /\ At(r, "noBase")
    /\ bases' = bases + 1 /\ Goto(r, "ready")
    /\ UNCHANGED <<expert, messages, archive, turns, faults>>

-----------------------------------------------------------------------------
(* The archive of a page load.                                             *)

Old(m) == Here(m) /\ m <= old

ListOld(r) ==
    LET batch == {m \in Message : Old(m)}
    IN  /\ At(r, "ready") /\ r \in Loader
        /\ IF batch = {} THEN Leave(r)
           ELSE request' = [request EXCEPT ![r] = [pc |-> "batch", batch |-> batch]]
        /\ UNCHANGED <<assistants, messages, archive, turns, faults>>

\* The row of the document is read, or inserted.
Open(r) ==
    LET b == request[r].batch
    IN  /\ At(r, "batch")
        /\ doc' = [doc EXCEPT ![b] = IF @ = "none" THEN "uploaded" ELSE @]
        /\ Goto(r, IF doc[b] = "indexed" THEN "stored" ELSE "known")
        /\ UNCHANGED <<assistants, messages, text, stored, refused, turns, faults>>

Clean(r) ==
    LET b == request[r].batch
    IN  /\ At(r, "known")
        /\ text' = text \ {b}
        /\ doc' = [doc EXCEPT ![b] = "parsing"]
        /\ Goto(r, "parsing")
        /\ UNCHANGED <<assistants, messages, stored, refused, turns, faults>>

Finish(r) ==
    LET b == request[r].batch
    IN  /\ At(r, "parsing") /\ b \notin text
        /\ text' = text \cup {b} /\ stored' = stored \cup {b}
        /\ doc' = [doc EXCEPT ![b] = "indexed"]
        /\ Goto(r, "stored")
        /\ UNCHANGED <<assistants, messages, refused, turns, faults>>

Fault == faults < MaxFaults /\ faults' = faults + 1

\* Variant of Kept: the messages are deleted all the same.
KeptNot(r) == Goto(r, "stored")

\* The messages are kept, for the next load to try again.
Kept(r) == Leave(r)

\* The embedding call fails, or the chunks collide with those of another load.
Fail(r) ==
    LET b == request[r].batch
    IN  /\ At(r, "parsing")
        /\ (b \in text /\ UNCHANGED faults) \/ Fault
        /\ doc' = [doc EXCEPT ![b] = "failed"]
        /\ Kept(r)
        /\ UNCHANGED <<assistants, messages, text, stored, refused, turns>>

Deleted(b) == b

\* reply_to_message_id is a foreign key: a quoted row is not deleted without the quoting one.
Delete(r) ==
    LET gone == Deleted(request[r].batch)
        quoted == \E m \in Message \ gone : Here(m) /\ quotes[m] \in gone
    IN  /\ At(r, "stored")
        /\ IF quoted
           THEN refused' = (refused \/ faults = 0) /\ UNCHANGED <<row, pinned>>
           ELSE /\ row' = [m \in Message |-> IF m \in gone THEN "gone" ELSE row[m]]
                /\ pinned' = pinned \ gone
                /\ UNCHANGED refused
        /\ Leave(r)
        /\ UNCHANGED <<assistants, quotes, sent, old, doc, text, stored, turns, faults>>

-----------------------------------------------------------------------------
(* Turns.                                                                  *)

\* The quoted message is looked up for its preview.
Ask(r, q) ==
    /\ At(r, "ready") /\ r \in Turner /\ sent < MaxMessages
    /\ q = 0 \/ Here(q)
    /\ request' = [request EXCEPT ![r] = [pc |-> "asked", quote |-> q]]
    /\ UNCHANGED <<assistants, messages, archive, turns, faults>>

Add(q) == /\ sent' = sent + 1
          /\ row' = [row EXCEPT ![sent + 1] = "here"]
          /\ quotes' = [quotes EXCEPT ![sent + 1] = q]
          /\ UNCHANGED <<pinned, old>>

\* The turn of the person is stored before anybody answers, unless what it quotes is gone.
Persist(r, left) ==
    LET q == request[r].quote
    IN  /\ At(r, "asked") /\ sent < MaxMessages
        /\ IF q = 0 \/ Here(q)
           THEN /\ Add(q)
                /\ request' = [request EXCEPT ![r] = [pc |-> IF left = 1 THEN "turn" ELSE "chat",
                                                      m |-> sent + 1, left |-> left]]
           ELSE Leave(r) /\ UNCHANGED messages
        /\ UNCHANGED <<assistants, archive, turns, faults>>

\* A turn to the assistant alone may start a workflow: its progress is the answer.
Orchestrate(r) ==
    /\ At(r, "turn") /\ sent < MaxMessages
    /\ started' = started \cup {request[r].m}
    /\ Add(0) /\ Leave(r)
    /\ UNCHANGED <<assistants, archive, chatted, faults>>

\* No plan, or a failure on the way: the assistant answers itself.  The workflow is
\* committed before its progress is read.
try_start(r) ==
    /\ At(r, "turn")
    /\ \/ UNCHANGED <<started, faults>>
       \/ Fault /\ started' = started \cup {request[r].m}
    /\ Goto(r, "chat")
    /\ UNCHANGED <<assistants, messages, archive, chatted>>

Reply(r) ==
    /\ At(r, "chat") /\ sent < MaxMessages
    /\ Add(0)
    /\ chatted' = chatted \cup {request[r].m}
    /\ IF request[r].left = 1 THEN Leave(r)
       ELSE request' = [request EXCEPT ![r].left = @ - 1]
    /\ UNCHANGED <<assistants, archive, started, faults>>

\* An agent fails, the stream is closed, or the process dies.
Die(r) ==
    /\ ~At(r, "idle") /\ Fault
    /\ Leave(r)
    /\ UNCHANGED <<assistants, messages, archive, turns>>

-----------------------------------------------------------------------------
(* Pins.                                                                   *)

OpenPin(r, m, pin) ==
    /\ At(r, "idle") /\ r \in Pinner
    /\ Here(m) /\ pin # (m \in pinned)
    /\ request' = [request EXCEPT ![r] = [pc |-> "pin", m |-> m, pin |-> pin]]
    /\ UNCHANGED <<assistants, messages, archive, turns, faults>>

\* Variant of Saved: the row is written whether it is there or not.
SavedAgain(m) == [row EXCEPT ![m] = "here"]

Saved(m) == row

SavePin(r) ==
    LET m == request[r].m
    IN  /\ At(r, "pin")
        /\ row' = Saved(m)
        /\ pinned' = IF ~Here(m) THEN pinned
                     ELSE IF request[r].pin THEN pinned \cup {m} ELSE pinned \ {m}
        /\ Leave(r)
        /\ UNCHANGED <<assistants, quotes, sent, old, archive, turns, faults>>

\* Days pass: the oldest message in the window leaves it.
Age ==
    /\ old < sent
    /\ old' = old + 1
    /\ UNCHANGED <<assistants, row, quotes, pinned, sent, archive, request, turns, faults>>

-----------------------------------------------------------------------------
get_or_create(r) == Meet(r) \/ CreateExpert(r) \/ FindBase(r) \/ CreateBase(r)
_archive_old(r) == ListOld(r) \/ Open(r) \/ Clean(r) \/ Finish(r) \/ Fail(r) \/ Delete(r)
send_message_stream(r) == \/ \E q \in 0..MaxMessages : Ask(r, q)
                          \/ \E left \in 1..MaxReplies : Persist(r, left)
                          \/ Orchestrate(r) \/ try_start(r) \/ Reply(r)
pin_message(r) == (\E m \in Message, pin \in BOOLEAN : OpenPin(r, m, pin)) \/ SavePin(r)

Next == \/ \E r \in Request : \/ get_or_create(r) \/ _archive_old(r)
                              \/ send_message_stream(r) \/ pin_message(r) \/ Die(r)
        \/ Age

Spec == Init /\ [][Next]_vars

\* The page keeps being loaded and days keep passing.
FairSpec == /\ Spec /\ WF_vars(Age)
            /\ \A r \in Loader : WF_vars(get_or_create(r) \/ _archive_old(r))

-----------------------------------------------------------------------------
TypeOK == /\ expert \in BOOLEAN /\ bases \in Nat
          /\ row \in [Message -> {"none", "here", "gone"}]
          /\ quotes \in [Message -> 0..MaxMessages]
          /\ pinned \subseteq Message /\ sent \in 0..MaxMessages /\ old \in 0..sent
          /\ doc \in [Batch -> Status] /\ text \subseteq Batch /\ stored \subseteq Batch
          /\ \A r \in Request : request[r].pc \in Pc
          /\ started \subseteq Message /\ chatted \subseteq Message
          /\ refused \in BOOLEAN /\ faults \in 0..MaxFaults

\* A message is removed only when an archive that holds it was indexed, whichever loads
\* overlap, fail or die.
GoneWasStored == \A m \in Message : row[m] = "gone" => \E b \in stored : m \in b

\* A load never removes a message of the history window, however long its archive takes.
RecentIsKept == \A m \in Message : row[m] = "gone" => m <= old

\* A message that was archived does not come back with a pin that was saved late.
GoneStaysGone == \A m \in Message : row[m] = "gone" => row'[m] = "gone"

\* What left the window is removed in the end, when one load runs at a time: a failed
\* archive is tried again, and a quoted message goes with the one that quotes it.
OldLeaves == \A m \in Message : (Here(m) /\ m <= old) ~> (row[m] = "gone")

-----------------------------------------------------------------------------
(* What the documents promise and the code does not keep (see README). *)

\* An assistant has one memory base, however its first uses overlap (get_or_create).
OneMemoryBase == bases <= 1

\* What was removed from the table is in the memory of the assistant (desktop.py).
GoneIsRemembered == \A m \in Message : row[m] = "gone" => \E b \in text : m \in b

\* An archive whose delete failed is replayed safely: no message is archived twice.
ArchivedOnce == \A b, c \in text : b # c => b \cap c = {}

\* A load removes what it archived.
LoadsSucceed == ~refused

\* Falling back to chat means that no workflow was started.
FallbackStartedNothing == started \cap chatted = {}
=============================================================================
