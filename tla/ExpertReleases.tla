---------------------------- MODULE ExpertReleases ----------------------------
(***************************************************************************)
(* The profiles of the AI employees and the releases that are frozen from  *)
(* them.  A request reads a profile, decides, and commits later: the ORM   *)
(* writes the columns that differ from what it had read, and the unique    *)
(* indexes are asked when it commits.  A release is pushed to a remote     *)
(* platform after its commit.                                              *)
(*                                                                         *)
(*   request: idle -read-> update | seed | publish -commit-> idle | push   *)
(***************************************************************************)
EXTENDS Integers, FiniteSets

CONSTANTS
    Expert,      \* ids of profiles
    Name, Code,  \* what a profile may be called, and the keys of the templates
    NoCode,      \* a profile that is not from a template has no code
    Prompt,      \* what an operator may write
    Seed,        \* the templates: records [code, name, prompt]
    Request,     \* requests that may be under way at once
    MaxVersion   \* how often an expert is released: bound

ReleaseAssumption == NoCode \notin Code /\ MaxVersion \in Nat

VARIABLES
    row,       \* agent_role: [Expert -> profile], current is the pointer, 0 for none
    release,   \* expert_release: set of [expert, version, prompt]
    request,   \* what each request has read and is about to write
    told,      \* the profile that the last source change of an expert was published for
    edited,    \* the prompt an operator wrote last, "" for none: history
    remote     \* the release the remote platform was given last, 0 for none

vars == <<row, release, request, told, edited, remote>>

-----------------------------------------------------------------------------
Absent == [state |-> "absent", name |-> "", code |-> NoCode, prompt |-> "", seed |-> FALSE,
           current |-> 0]
Idle == [pc |-> "idle"]
Live == {e \in Expert : row[e].state = "live"}
Unused == {e \in Expert : row[e].state = "absent"}
At(q, pc) == request[q].pc = pc
Versions(e) == {r.version : r \in {x \in release : x.expert = e}}
Fingerprint(p) == [name |-> p.name, code |-> p.code, seed |-> p.seed, state |-> p.state]

\* Variant of Allowed: the code is not indexed.
NamesAllowed(e, p) == \A d \in Live \ {e} : row[d].name # p.name

\* The unique indexes, over the profiles that are not deleted.
Allowed(e, p) == \A d \in Live \ {e} : /\ row[d].name # p.name
                                       /\ p.code # NoCode => row[d].code # p.code

\* What is stored when a profile that was read is saved as another.
save(e, read, new) ==
    [c \in DOMAIN new |-> IF new[c] # read[c] THEN new[c] ELSE row[e][c]]

Done(q) == request' = [request EXCEPT ![q] = Idle]

-----------------------------------------------------------------------------
Init == /\ row = [e \in Expert |-> Absent]
        /\ release = {}
        /\ request = [q \in Request |-> Idle]
        /\ told = [e \in Expert |-> Fingerprint(Absent)]
        /\ edited = [e \in Expert |-> ""]
        /\ remote = [e \in Expert |-> 0]

\* A profile is added as it is, and its source change in the same commit.
create(e, name, prompt) ==
    LET new == [Absent EXCEPT !.state = "live", !.name = name, !.prompt = prompt]
    IN  /\ e \in Unused /\ Allowed(e, new)
        /\ row' = [row EXCEPT ![e] = new]
        /\ told' = [told EXCEPT ![e] = Fingerprint(new)]
        /\ edited' = [edited EXCEPT ![e] = prompt]
        /\ UNCHANGED <<release, request, remote>>

\* get: the request goes on with the profile as it is now.
ReadUpdate(q, e, name, prompt) ==
    /\ At(q, "idle") /\ e \in Live
    /\ request' = [request EXCEPT ![q] =
         [pc |-> "save", e |-> e, read |-> row[e], operator |-> prompt \notin {"", row[e].prompt},
          new |-> [row[e] EXCEPT !.name = IF name = "" THEN @ ELSE name,
                                 !.prompt = IF prompt = "" THEN @ ELSE prompt]]]
    /\ UNCHANGED <<row, release, told, edited, remote>>

ReadDelete(q, e) ==
    /\ At(q, "idle") /\ e \in Live
    /\ request' = [request EXCEPT ![q] =
         [pc |-> "save", e |-> e, read |-> row[e], operator |-> FALSE,
          new |-> [row[e] EXCEPT !.state = "deleted"]]]
    /\ UNCHANGED <<row, release, told, edited, remote>>

\* The profile a template stands for: by its code, else by its name.
Templated(s) ==
    LET byCode == {e \in Live : row[e].code = s.code}
    IN  IF byCode # {} THEN byCode ELSE {e \in Live : row[e].name = s.name}

\* The stable fields are set; a prompt that was edited stays.
apply_seed(p, s) == [p EXCEPT !.code = s.code, !.name = s.name, !.seed = TRUE]

ReadSeed(q, s) ==
    /\ At(q, "idle")
    /\ \/ \E e \in Templated(s) :
            request' = [request EXCEPT ![q] =
              [pc |-> "save", e |-> e, read |-> row[e], operator |-> FALSE,
               new |-> apply_seed(row[e], s)]]
       \/ /\ Templated(s) = {}
          /\ request' = [request EXCEPT ![q] =
               [pc |-> "add", new |-> [Absent EXCEPT !.state = "live", !.name = s.name,
                          !.code = s.code, !.prompt = s.prompt, !.seed = TRUE]]]
    /\ UNCHANGED <<row, release, told, edited, remote>>

\* A template that was not found is added, unless an index refuses it.
CommitAdd(q) ==
    /\ At(q, "add")
    /\ LET new == request[q].new IN
       \/ \E e \in Unused : /\ \A d \in Expert : Allowed(d, new)
                            /\ row' = [row EXCEPT ![e] = new]
                            /\ told' = [told EXCEPT ![e] = Fingerprint(new)]
       \/ /\ \E d \in Live : row[d].name = new.name \/ row[d].code = new.code
          /\ UNCHANGED <<row, told>>
    /\ Done(q)
    /\ UNCHANGED <<release, edited, remote>>

\* A seed publishes a source change only when it changed what others see.
Announced(q) == Fingerprint(request[q].new) # Fingerprint(request[q].read)

\* What was read is saved, unless an index refuses it: then nothing is.
CommitSave(q) ==
    /\ At(q, "save")
    /\ LET e == request[q].e
           stored == save(e, request[q].read, request[q].new)
       IN  \/ /\ stored.state = "live" => Allowed(e, stored)
              /\ row' = [row EXCEPT ![e] = stored]
              /\ told' = IF Announced(q) THEN [told EXCEPT ![e] = Fingerprint(stored)]
                         ELSE told
              /\ edited' = IF request[q].operator
                           THEN [edited EXCEPT ![e] = request[q].new.prompt] ELSE edited
           \/ /\ stored.state = "live" /\ ~Allowed(e, stored)
              /\ UNCHANGED <<row, told, edited>>
    /\ Done(q)
    /\ UNCHANGED <<release, remote>>

-----------------------------------------------------------------------------
\* One more than the highest version of the expert.
next_version_no(e) ==
    IF Versions(e) = {} THEN 1
    ELSE 1 + CHOOSE v \in Versions(e) : \A w \in Versions(e) : w <= v

\* publish_release freezes what it reads under the next number ...
cut(q, e) ==
    /\ At(q, "idle") /\ e \in Live /\ next_version_no(e) <= MaxVersion
    /\ request' = [request EXCEPT ![q] =
         [pc |-> "release", e |-> e,
          new |-> [expert |-> e, version |-> next_version_no(e), prompt |-> row[e].prompt]]]
    /\ UNCHANGED <<row, release, told, edited, remote>>

\* ... and commits it with the pointer; a number that was taken meanwhile is refused.
publish_release(q) ==
    /\ At(q, "release")
    /\ LET new == request[q].new IN
       \/ /\ new.version \notin Versions(new.expert)
          /\ release' = release \cup {new}
          /\ row' = [row EXCEPT ![new.expert].current = new.version]
          /\ request' = [request EXCEPT ![q] = [pc |-> "push", new |-> new]]
       \/ /\ new.version \in Versions(new.expert)
          /\ Done(q) /\ UNCHANGED <<release, row>>
    /\ UNCHANGED <<told, edited, remote>>

\* The release is given to the remote platform; a failure is only logged.
publish(q) ==
    /\ At(q, "push")
    /\ remote' = [remote EXCEPT ![request[q].new.expert] = request[q].new.version]
    /\ Done(q)
    /\ UNCHANGED <<row, release, told, edited>>

PushFails(q) ==
    /\ At(q, "push") /\ Done(q)
    /\ UNCHANGED <<row, release, told, edited, remote>>

\* Only the pointer moves, to any version there is.
rollback_release(e, v) ==
    /\ e \in Live /\ v \in Versions(e)
    /\ row' = [row EXCEPT ![e].current = v]
    /\ UNCHANGED <<release, request, told, edited, remote>>

Managed == \/ \E e \in Expert, n \in Name, p \in Prompt : create(e, n, p)
           \/ \E q \in Request, e \in Expert, n \in Name \cup {""}, p \in Prompt \cup {""} :
                ReadUpdate(q, e, n, p)
           \/ \E q \in Request, e \in Expert : ReadDelete(q, e)
           \/ \E q \in Request, s \in Seed : ReadSeed(q, s)
           \/ \E q \in Request : CommitAdd(q) \/ CommitSave(q)

Released == \/ \E q \in Request, e \in Expert : cut(q, e)
            \/ \E q \in Request : publish_release(q) \/ publish(q)
            \/ \E e \in Expert, v \in 1..MaxVersion : rollback_release(e, v)

Lost == \E q \in Request : PushFails(q)

Next == Managed \/ Released \/ Lost

Spec == Init /\ [][Next]_vars

-----------------------------------------------------------------------------
\* The release a profile is executed from: get_by_id.
get_by_id(e) ==
    IF row[e].current = 0 THEN row[e].prompt
    ELSE (CHOOSE r \in release : r.expert = e /\ r.version = row[e].current).prompt

\* The operations director is looked up by his code: get_by_code.
get_by_code(e) == row[e].prompt

\* A pointer is to a release of the same expert, and a deleted profile keeps it.
TypeOK == /\ \A e \in Expert : /\ row[e].state \in {"absent", "live", "deleted"}
                               /\ row[e].current \in {0} \cup Versions(e)
                               /\ remote[e] \in {0} \cup Versions(e)
          /\ \A r \in release : r.expert \in Expert /\ r.version \in 1..MaxVersion

\* However creations, renamings and seeds interleave, no two live profiles share a name or
\* the code of a template.
NoTwins == \A d, e \in Live : d # e => /\ row[d].name # row[e].name
                                       /\ row[d].code = NoCode \/ row[d].code # row[e].code

\* Concurrent releases and rollbacks leave the versions of an expert 1, 2, ... without a
\* gap and each with one content.
VersionsCount ==
    \A e \in Expert : /\ Versions(e) = 1..Cardinality(Versions(e))
                      /\ Cardinality({r \in release : r.expert = e}) = Cardinality(Versions(e))

\* A profile has the prompt an operator changed it to last: neither a seed nor another
\* request that read an older prompt brings that back.
EditsSurvive == \A e \in Live : edited[e] # "" => row[e].prompt = edited[e]

\* What others were told of a profile is how it is: no change of what they see goes unsaid.
SourceIsTold == \A e \in Expert : told[e] = Fingerprint(row[e])

\* A release once made can be released after: no number stays taken.
Releasable == \A e \in Live : next_version_no(e) \notin Versions(e)

-----------------------------------------------------------------------------
(* What the documents promise and the code does not keep (see README). *)

\* docs/23: a draft does not touch what runs before it is released.
DraftsStayDrafts == \A e \in Live : row[e].current # 0 => get_by_code(e) = get_by_id(e)

\* docs/23: after a rollback the old version is what is executed, remotely too.
RemoteFollows == \A e \in Live : (\A q \in Request : At(q, "idle")) =>
                                    (remote[e] = 0 \/ remote[e] = row[e].current)

\* models/agent.py: a profile of the skeleton is not deleted by mistake.
SeedsSurvive == \A e \in Expert : row[e].seed => row[e].state = "live"
=============================================================================
