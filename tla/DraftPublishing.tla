--------------------------- MODULE DraftPublishing ---------------------------
(***************************************************************************)
(* The mechanical step that publishes what a person accepted.              *)
(*                                                                         *)
(* The drafts of the accepted step flow into the mechanical step, which    *)
(* publishes those of its key one after the other, without a model         *)
(* (_publish_mechanically): a document and its pages, the records of a     *)
(* table, a message to a person, an urgent meeting with the heads of       *)
(* departments, a mail.  Each is one or several calls of the outside       *)
(* world.  Some are a best effort and only noted when they fail, the       *)
(* others raise and the event of the step is tried again from the first    *)
(* draft: nothing remembers which calls were made.                         *)
(*                                                                         *)
(* An attempt is a worker's; its claim may be taken over when its lease    *)
(* expires (RunTransactions).  A fault is a call that fails, a call whose  *)
(* answer is lost, a crash or an expired lease.                            *)
(***************************************************************************)
EXTENDS Integers, FiniteSets, Sequences, SequencesExt

CONSTANTS Drafts,      \* the drafts: [key, kind, parts, creator]
          Capability,  \* the key of the mechanical step
          Reached,     \* how many heads of departments can be told of a meeting
          Channels,    \* the sets of channels that may be configured
          Worker, MailTries, MaxFaults

DraftPublishingAssumption ==
    /\ \A i \in DOMAIN Drafts :
          /\ Drafts[i].kind \in {"docx", "bitable", "person", "convene", "email"}
          /\ Drafts[i].parts \in Nat /\ Drafts[i].creator \in BOOLEAN
    /\ \A c \in Channels : c \subseteq {"feishu", "notify", "smtp"}
    /\ Reached \in Nat /\ MailTries \in Nat \ {0} /\ MaxFaults \in Nat

VARIABLES channels,   \* what is configured
          decision,   \* "open", "accepted" or "rejected"
          status,     \* the step: "blocked", "queued", "running" or "succeeded"
          owner,      \* who claimed it last
          work,       \* worker |-> its attempt: [stage, at, calls, tries, made, results]
          outside,    \* <<draft, call>> |-> how often it took place
          artifacts,  \* what the step told when it succeeded
          minutes,    \* the drafts whose meeting has minutes
          faults
publishVars == <<channels, decision, status, owner, work, outside, artifacts, minutes, faults>>

NoWork == [stage |-> "idle", at |-> 0, calls |-> <<>>, tries |-> 0, made |-> {}, results |-> <<>>]

TypeOK ==
    /\ decision \in {"open", "accepted", "rejected"}
    /\ status \in {"blocked", "queued", "running", "succeeded"}
    /\ owner \in Worker \cup {"none"} /\ faults \in 0..MaxFaults
    /\ \A w \in Worker : /\ work[w].stage \in {"idle", "publishing"}
                         /\ work[w].tries \in 0..MailTries
    /\ minutes \subseteq DOMAIN Drafts

Init ==
    /\ channels \in Channels
    /\ decision = "open" /\ status = "blocked" /\ owner = "none"
    /\ work = [w \in Worker |-> NoWork] /\ outside = [c \in {} |-> 0]
    /\ artifacts = <<>> /\ minutes = {} /\ faults = 0

\* The drafts of the key of the step, in their order.
Due == SelectSeq([i \in DOMAIN Drafts |-> i], LAMBDA i : Drafts[i].key = Capability)

\* The calls of a document: create it, then append its pages.
DocxCalls(d) == <<"create">> \o [i \in 1..d.parts |-> "append"]
BitableCalls(d) == [i \in 1..d.parts |-> "record"]

\* A meeting is opened and its topic put down, then the heads who can be reached are told;
\* without a creator there is none.
ConveneCalls(d) ==
    IF ~d.creator THEN <<>>
    ELSE <<"meeting", "discussion">>
         \o (IF "notify" \notin channels THEN <<>>
             ELSE [i \in 1..Reached |-> "invite"])
EmailCalls(d) == IF "smtp" \in channels /\ d.creator THEN <<"mail">> ELSE <<>>
PersonCalls(d) == IF "notify" \in channels THEN <<"text">> ELSE <<>>

\* What the publishing of a draft calls, by its key and kind.
Calls(i) == LET d == Drafts[i] IN
            CASE d.kind = "docx" -> DocxCalls(d)
              [] d.kind = "bitable" -> BitableCalls(d)
              [] d.kind = "convene" -> ConveneCalls(d)
              [] d.kind = "email" -> EmailCalls(d)
              [] OTHER -> PersonCalls(d)

\* Calls that are noted when they fail; the others raise.
BestEffort == {"text", "invite", "mail"}

\* A person decides about the drafts.
Decide ==
    /\ decision = "open" /\ decision' \in {"accepted", "rejected"}
    /\ status' = IF decision' = "accepted" THEN "queued" ELSE status
    /\ UNCHANGED <<channels, owner, work, outside, artifacts, minutes, faults>>

Opened(k, results) ==
    IF k > Len(Due) THEN [NoWork EXCEPT !.stage = "publishing", !.at = k, !.results = results]
    ELSE [NoWork EXCEPT !.stage = "publishing", !.at = k, !.calls = Calls(Due[k]), !.results = results]

\* The step is claimed, and without any channel there is nothing to publish with.
Claim(w) ==
    /\ work[w].stage = "idle" /\ status = "queued"
    /\ status' = "running" /\ owner' = w
    /\ work' = [work EXCEPT ![w] = IF channels = {} THEN [Opened(1, <<>>) EXCEPT !.at = Len(Due) + 1]
                                   ELSE Opened(1, <<>>)]
    /\ UNCHANGED <<channels, decision, outside, artifacts, minutes, faults>>

Publishing(w) == work[w].stage = "publishing" /\ work[w].at <= Len(Due)
Calling(w) == Publishing(w) /\ work[w].calls # <<>>

\* The call an attempt has come to, by its draft and its number.
Number(w) == Len(Calls(Due[work[w].at])) - Len(work[w].calls) + 1
Place(w) == <<Due[work[w].at], Number(w)>>
Happened(c) ==
    outside' = [x \in DOMAIN outside \cup {c} |->
                   (IF x \in DOMAIN outside THEN outside[x] ELSE 0) + (IF x = c THEN 1 ELSE 0)]
Next1(w) == [work[w] EXCEPT !.calls = Tail(@), !.tries = 0]

\* A call takes place and is answered.
Call(w) ==
    /\ Calling(w) /\ Happened(Place(w))
    /\ work' = [work EXCEPT ![w] = [Next1(w) EXCEPT !.made = @ \cup {Number(w)}]]
    /\ UNCHANGED <<channels, decision, status, owner, artifacts, minutes, faults>>

\* Variant of Missed: what failed is told as made.
MissedTold(w) ==
    work' = [work EXCEPT ![w] =
        IF Head(work[w].calls) \in BestEffort THEN [Next1(w) EXCEPT !.made = @ \cup {Number(w)}]
        ELSE NoWork]

\* What becomes of an attempt whose call failed: a mail is tried again when the network
\* failed, until its tries are used up; what is a best effort is left out; else it raises.
Missed(w) ==
    IF Head(work[w].calls) = "mail" /\ work[w].tries < MailTries - 1
    THEN \/ work' = [work EXCEPT ![w].tries = @ + 1]
         \/ work' = [work EXCEPT ![w] = Next1(w)]
    ELSE work' = [work EXCEPT ![w] = IF Head(work[w].calls) \in BestEffort THEN Next1(w) ELSE NoWork]

\* A step whose attempt ended without a result is queued when its event is tried again.
Requeued(w) == IF owner = w /\ work'[w].stage = "idle" THEN "queued" ELSE status

\* A call fails, or it takes place and its answer is lost.
Fail(w) ==
    /\ Calling(w) /\ faults < MaxFaults /\ faults' = faults + 1
    /\ Missed(w) /\ (Happened(Place(w)) \/ UNCHANGED outside)
    /\ status' = Requeued(w)
    /\ UNCHANGED <<channels, decision, owner, artifacts, minutes>>

\* A draft is through: its result is kept for the end.
Through(w) ==
    /\ Publishing(w) /\ work[w].calls = <<>>
    /\ work' = [work EXCEPT ![w] =
                  Opened(work[w].at + 1,
                         Append(work[w].results, [draft |-> Due[work[w].at], made |-> work[w].made]))]
    /\ UNCHANGED <<channels, decision, status, owner, outside, artifacts, minutes, faults>>

\* The worker crashes.
Crash(w) ==
    /\ work[w].stage = "publishing" /\ faults < MaxFaults /\ faults' = faults + 1
    /\ work' = [work EXCEPT ![w] = NoWork] /\ status' = Requeued(w)
    /\ UNCHANGED <<channels, decision, owner, outside, artifacts, minutes>>

\* The lease of an attempt expires while it goes on: the step may be claimed again.
Expire ==
    /\ status = "running" /\ faults < MaxFaults /\ faults' = faults + 1
    /\ status' = "queued"
    /\ UNCHANGED <<channels, decision, owner, work, outside, artifacts, minutes>>

\* All drafts are through: who holds the claim tells the results, else they are dropped.
Finalize(w) ==
    /\ work[w].stage = "publishing" /\ work[w].at > Len(Due)
    /\ work' = [work EXCEPT ![w] = NoWork]
    /\ IF owner = w /\ status = "running"
       THEN status' = "succeeded" /\ artifacts' = work[w].results
       ELSE UNCHANGED <<status, artifacts>>
    /\ UNCHANGED <<channels, decision, owner, outside, minutes, faults>>

\* The step of the minutes reads the first meeting that was told; without one it is passed
\* over.
Meetings == SelectSeq(artifacts, LAMBDA a : Drafts[a.draft].kind = "convene" /\ a.made # {})
GenerateMinutes ==
    /\ status = "succeeded" /\ Meetings # <<>> /\ minutes = {}
    /\ minutes' = {Head(Meetings).draft}
    /\ UNCHANGED <<channels, decision, status, owner, work, outside, artifacts, faults>>

Next ==
    \/ Decide \/ Expire \/ GenerateMinutes
    \/ \E w \in Worker : Claim(w) \/ Call(w) \/ Fail(w) \/ Through(w) \/ Crash(w) \/ Finalize(w)

-----------------------------------------------------------------------------
\* The outside world hears nothing before a person accepted, and nothing of a draft of
\* another step (publish_key).
OnlyAccepted ==
    \A c \in DOMAIN outside : decision = "accepted" /\ Drafts[c[1]].key = Capability

\* What the step tells took place, each draft of its key has one result, and what took place
\* without being told needed a fault.
TellsTrue ==
    status = "succeeded" =>
      /\ \A i \in DOMAIN artifacts : \A n \in artifacts[i].made : <<artifacts[i].draft, n>> \in DOMAIN outside
      /\ channels # {} => [i \in DOMAIN artifacts |-> artifacts[i].draft] = Due
      /\ faults = 0 => \A c \in DOMAIN outside : \E i \in DOMAIN artifacts :
                          artifacts[i].draft = c[1] /\ c[2] \in artifacts[i].made

\* A call is made again only after a fault, and once more for each.
RepeatsNeedFault == \A c \in DOMAIN outside : outside[c] <= 1 + faults

\* A meeting has been opened and its topic put down before a head is told, and its minutes
\* are of one that took place.
MeetingsInOrder ==
    /\ \A c \in DOMAIN outside : Drafts[c[1]].kind = "convene" =>
          \A n \in {1, 2} : c[2] > n => <<c[1], n>> \in DOMAIN outside
    /\ \A i \in minutes : <<i, 1>> \in DOMAIN outside

(* What the documents promise and the code does not keep (see README). *)

\* What a person accepted once leaves once.
PublishedOnce == \A c \in DOMAIN outside : outside[c] = 1
=============================================================================
