---------------------------- MODULE SkillDispatch ----------------------------
(***************************************************************************)
(* What the words of an agent set off in one step of a workflow.           *)
(*                                                                         *)
(* ToolDispatcher.dispatch_text gives a text to every skill its speaker    *)
(* has: each parses its own directives and executes them one by one.  A    *)
(* consulted colleague answers, and the answer is a text of its own, of    *)
(* that colleague's skills; a skill that reads data, a page, an attachment *)
(* or the knowledge asks the same speaker to interpret what it read, and   *)
(* the interpretation is again a text.  What stops the recursion is the    *)
(* set of excluded skills a text is given with.  Skills of the outside     *)
(* world write drafts only: a mechanical step publishes them once a person *)
(* accepted the step (DraftPublishing).                                    *)
(*                                                                         *)
(* The texts are those of Says, whatever a model answers; a record of the  *)
(* tool stands for the whole of ToolExecution.  A fault is an exception    *)
(* that ends a skill's request, or a crash of the worker.                  *)
(***************************************************************************)
EXTENDS Integers, FiniteSets, Sequences, SequencesExt

CONSTANTS Agent,      \* the experts
          Lead,       \* the executor of the step
          Private,    \* those who are somebody's personal assistant
          ToolsOf,      \* agent |-> the sequence of its enabled skills
          Off,        \* the skills whose flag is off
          Says,       \* agent |-> the texts it may answer with
          Capability, \* the capability of the step
          NoAgent,    \* no addressee
          MaxAttempts, MaxFaults

\* What the registered skills do with their directives.
Kind == [collab |-> "collab", deliver |-> "keyed", data_query |-> "feed", read_url |-> "feed",
         read_attachment |-> "feed", knowledge_search |-> "feed", knowledge_index |-> "once",
         compose_feishu |-> "draft", feishu_notify_person |-> "draft",
         convene_consultation |-> "draft", send_email |-> "draft", feishu_notify |-> "once",
         create_operational_proposal |-> "once"]

\* How many directives of a skill one text may give.
Limit == [k \in DOMAIN Kind |->
            CASE k \in {"convene_consultation", "create_operational_proposal"} -> 1
              [] k \in {"read_attachment", "feishu_notify_person", "send_email"} -> 3
              [] OTHER -> 2]

SkillDispatchAssumption ==
    /\ Lead \in Agent /\ Private \subseteq Agent /\ NoAgent \notin Agent
    /\ \A a \in Agent : Range(ToolsOf[a]) \subseteq DOMAIN Kind
    /\ MaxAttempts \in Nat \ {0} /\ MaxFaults \in Nat

VARIABLES phase,     \* "idle", "talking", "waiting" (for a person) or "done"
          stack,     \* the texts being dispatched, the innermost last
          attempt,   \* the attempts begun
          faults,    \* the faults so far
          records,   \* the keys a tool execution is recorded for
          made,      \* what the skills did: [skill, by, key, text]
          drafts,    \* the drafts of this attempt: [skill, by]
          asked      \* who consulted whom
skillVars == <<phase, stack, attempt, faults, records, made, drafts, asked>>

TypeOK ==
    /\ phase \in {"idle", "talking", "waiting", "done"}
    /\ \A i \in DOMAIN stack : /\ stack[i].who \in Agent
                               /\ stack[i].excluded \subseteq DOMAIN Kind
    /\ attempt \in 0..MaxAttempts /\ faults \in 0..MaxFaults
    /\ asked \subseteq Agent \X Agent

Init ==
    /\ phase = "idle" /\ stack = <<>> /\ attempt = 0 /\ faults = 0
    /\ records = {} /\ made = {} /\ drafts = <<>> /\ asked = {}

\* The skills of an agent whose flag is on, in the order of its tools.
Enabled(a) == SelectSeq(ToolsOf[a], LAMBDA k : k \notin Off)

\* The first directives of those a text gives a skill, numbered from an index.
Numbered(mine, k, from) ==
    [i \in 1..(IF Len(mine) < Limit[k] THEN Len(mine) ELSE Limit[k]) |->
        [skill |-> k, to |-> mine[i].to, index |-> from + i - 1]]

\* What one skill reads in a text: consultations come before requests of collaboration.
Parsed(text, k) ==
    LET consults == Numbered(SelectSeq(text, LAMBDA d : d.skill = k /\ d.to # NoAgent), k, 0)
        rest == SelectSeq(text, LAMBDA d : d.skill = k /\ d.to = NoAgent)
    IN  consults \o Numbered(rest, k, Len(consults))

\* A text of an agent on the stack, with the requests all its skills read in it.
Frame(a, text, excluded) ==
    [who |-> a, excluded |-> excluded,
     todo |-> FoldLeft(LAMBDA s, k : IF k \in excluded THEN s ELSE s \o Parsed(text, k),
                       <<>>, Enabled(a))]

top == Last(stack)
now == Head(top.todo)
Popped == Front(stack) \o <<[top EXCEPT !.todo = Tail(@)]>>
Working(k) == phase = "talking" /\ stack # <<>> /\ top.todo # <<>> /\ now.skill = k

\* The step is claimed and its executor answers.
Begin ==
    /\ phase = "idle" /\ attempt < MaxAttempts
    /\ attempt' = attempt + 1 /\ phase' = "talking"
    /\ \E text \in Says[Lead] : stack' = <<Frame(Lead, text, {})>>
    /\ UNCHANGED <<faults, records, made, drafts, asked>>

\* Variant of Excluded: the text of a reply is dispatched without its own skill only.
ExcludedOwnOnly == {now.skill}

\* The skills that the text a request leads to is dispatched without.
Excluded == top.excluded \cup {now.skill}

\* Whom an agent may consult.
Consultable(a, by) == a \in Agent /\ a # by /\ a \notin Private

\* A colleague is consulted, and what it answers is dispatched as its own words.
Consult ==
    /\ Working("collab") /\ now.to # NoAgent
    /\ IF Consultable(now.to, top.who)
       THEN /\ asked' = asked \cup {<<top.who, now.to>>}
            /\ \E text \in Says[now.to] :
                 stack' = Popped \o (IF text = <<>> THEN <<>>
                                     ELSE <<Frame(now.to, text, Excluded)>>)
       ELSE stack' = Popped /\ UNCHANGED asked
    /\ UNCHANGED <<phase, attempt, faults, records, made, drafts>>

\* What a skill read goes back to its reader, whose interpretation is dispatched; nothing
\* read, an empty interpretation or no runner end the request.
Feed(k) ==
    /\ Working(k)
    /\ \E text \in Says[top.who] :
         stack' = Popped \o (IF text = <<>> THEN <<>> ELSE <<Frame(top.who, text, Excluded)>>)
    /\ UNCHANGED <<phase, attempt, faults, records, made, drafts, asked>>

DataQuery == Feed("data_query")
ReadUrl == Feed("read_url")
ReadAttachment == Feed("read_attachment")
SearchKnowledge == Feed("knowledge_search")

\* A deed of a request, at the depth of its text.
Deed == [skill |-> now.skill, by |-> top.who, key |-> <<now.skill, now.index>>,
         attempt |-> attempt, depth |-> Len(stack)]

\* What is done once for its key: a record of the key answers instead.
Keyed(k) ==
    /\ Working(k) /\ now.to = NoAgent
    /\ made' = IF Deed.key \in records THEN made ELSE made \cup {Deed}
    /\ records' = records \cup {Deed.key}
    /\ stack' = Popped
    /\ UNCHANGED <<phase, attempt, faults, drafts, asked>>

\* A file, and a request to a department.
Deliver == Keyed("deliver")
RequestCollaboration == Keyed("collab")

\* A draft for the outside world; nothing leaves the system.
Draft(k) ==
    /\ Working(k)
    /\ drafts' = Append(drafts, [skill |-> now.skill, by |-> top.who])
    /\ stack' = Popped
    /\ UNCHANGED <<phase, attempt, faults, records, made, asked>>

ComposeFeishu == Draft("compose_feishu")
NotifyPerson == Draft("feishu_notify_person")
ConveneConsultation == Draft("convene_consultation")
SendEmail == Draft("send_email")

\* What is made at once, without a key.
AtOnce(k) ==
    /\ Working(k)
    /\ made' = made \cup {Deed}
    /\ stack' = Popped
    /\ UNCHANGED <<phase, attempt, faults, records, drafts, asked>>

\* A broadcast to the group of the operation, an entry of the knowledge, a proposal of the
\* director's assistant.
Broadcast == AtOnce("feishu_notify")
IndexKnowledge == AtOnce("knowledge_index")
ProposeOperation == AtOnce("create_operational_proposal")

\* The skills that execute all their directives of a text together.
Together == {"feishu_notify", "create_operational_proposal"}

\* A request that fails is noted and its peers go on; a skill that executes them together
\* leaves the rest of its own.
Fails ==
    /\ phase = "talking" /\ stack # <<>> /\ top.todo # <<>> /\ faults < MaxFaults
    /\ faults' = faults + 1
    /\ stack' = IF now.skill \in Together
                THEN Front(stack) \o
                     <<[top EXCEPT !.todo = SelectSeq(@, LAMBDA r : r.skill # now.skill)]>>
                ELSE Popped
    /\ UNCHANGED <<phase, attempt, records, made, drafts, asked>>

\* A text is through; with the first one the step is, and one that drafts waits for a person.
Through ==
    /\ phase = "talking" /\ stack # <<>> /\ top.todo = <<>>
    /\ stack' = Front(stack)
    /\ phase' = IF Len(stack) > 1 THEN "talking"
                ELSE IF Kind[Capability] = "draft" THEN "waiting" ELSE "done"
    /\ UNCHANGED <<attempt, faults, records, made, drafts, asked>>

\* The worker dies or the step raises: what is recorded stays, the rest begins again.
Crash ==
    /\ phase = "talking" /\ attempt < MaxAttempts
    /\ faults < MaxFaults /\ faults' = faults + 1
    /\ phase' = "idle" /\ stack' = <<>> /\ drafts' = <<>>
    /\ UNCHANGED <<attempt, records, made, asked>>

Next ==
    \/ Begin \/ Consult \/ DataQuery \/ ReadUrl \/ ReadAttachment \/ SearchKnowledge
    \/ Deliver \/ RequestCollaboration
    \/ ComposeFeishu \/ NotifyPerson \/ ConveneConsultation \/ SendEmail
    \/ Broadcast \/ IndexKnowledge \/ ProposeOperation
    \/ Fails \/ Through \/ Crash

-----------------------------------------------------------------------------
\* The words of an agent cannot set off an endless talk: every text inside another is
\* dispatched without one skill more, nobody who was consulted consults a third, and no
\* private assistant answers for another (dispatch_text, merge_execution_context).
TalkIsBounded ==
    /\ \A i \in 1..(Len(stack) - 1) :
         /\ stack[i].excluded \subseteq stack[i + 1].excluded
         /\ stack[i].excluded # stack[i + 1].excluded
    /\ \A e \in asked : e[1] = Lead /\ e[2] \notin Private

\* What is done in an agent's name is of that agent's own tools, in the lead's step and in a
\* colleague's reply alike (enabled_skills).
OwnHands ==
    /\ \A d \in made : d.skill \in Range(ToolsOf[d.by]) \ Off
    /\ \A i \in DOMAIN drafts : drafts[i].skill \in Range(ToolsOf[drafts[i].by]) \ Off

\* One key does one thing, in every attempt of the step and at every depth of the talk.
KeyedOnce ==
    \A d, e \in made : d.key = e.key /\ Kind[d.skill] \in {"keyed", "collab"} => d = e

\* The talk ends.
TalkEnds == (phase = "talking") ~> (phase # "talking")

(* What the documents promise and the code does not keep (see README). *)

\* A file that a text asks for is made for that text: no key of this attempt is taken by
\* another text of it.
NoKeyShared ==
    phase = "talking" /\ stack # <<>> /\ top.todo # <<>> /\ Kind[now.skill] = "keyed"
        => \A d \in made : d.attempt = attempt /\ d.key = Deed.key => d.depth = Len(stack) /\ d.by = top.who
=============================================================================
