---------------------------- MODULE PromptQuality ----------------------------
(***************************************************************************)
(* How the prompt of an expert is measured and improved: an evaluation     *)
(* runs it on each case of the role and lets a judge mark the outputs, a   *)
(* shadow comparison does so with the current and with a candidate prompt, *)
(* a suggestion is made from outputs that people marked low.  A manager    *)
(* decides whether a prompt is changed.  And an output that matters is     *)
(* reviewed, and revised when the critic finds fault with it.              *)
(*                                                                         *)
(*   job:    idle -> baseline -> candidate -> done | raised                *)
(*           idle -> suggest -> done                                       *)
(*   review: none -> draft -> faulty -> final                              *)
(***************************************************************************)
EXTENDS Integers, FiniteSets, Sequences, FiniteSetsExt, SequencesExt

CONSTANTS
    Case,        \* evaluation cases
    Prompt,      \* versions of the prompt
    First,       \* the one the role has
    Score,       \* [Prompt -> [Case -> 1 .. 5]]: the marks a prompt deserves
    Job,         \* evaluations, comparisons and suggestions that managers ask for
    Record, Rater, \* executions, and people who mark their outputs
    MaxMarks,    \* bound: marks given
    Review,      \* outputs that are reviewed
    Fault        \* "edit": cases come and go; "fail": an execution may fail

QualityAssumption ==
    /\ First \in Prompt /\ IsFiniteSet(Case) /\ Score \in [Prompt -> [Case -> 1 .. 5]] /\ MaxMarks \in Nat

VARIABLES
    prompt,      \* the prompt of the role
    agreed,      \* the prompts that a manager set: history
    cases,       \* the cases that are not deleted
    job,         \* [Job -> job]
    feedback,    \* the rows of agent_feedback, by time
    review       \* [Review -> step]

vars == <<prompt, agreed, cases, job, feedback, review>>

-----------------------------------------------------------------------------
Idle == [pc |-> "idle", base |-> First, cand |-> First, todo |-> {}, sum |-> 0, n |-> 0,
         baseSum |-> 0, baseN |-> 0, better |-> FALSE]

Init == /\ prompt = First /\ agreed = {First} /\ cases = Case
        /\ job = [j \in Job |-> Idle]
        /\ feedback = <<>>
        /\ review = [r \in Review |-> "none"]

\* CreateEvaluationCase, DeleteEvaluationCase.
create_case(c) == /\ "edit" \in Fault /\ c \notin cases
                  /\ cases' = cases \cup {c}
                  /\ UNCHANGED <<prompt, agreed, job, feedback, review>>
delete_case(c) == /\ "edit" \in Fault /\ c \in cases
                  /\ cases' = cases \ {c}
                  /\ UNCHANGED <<prompt, agreed, job, feedback, review>>

\* PATCH /agents/roles: a manager sets a prompt that a job has shown him.
confirm(j) ==
    /\ job[j].pc = "done"
    /\ prompt' = job[j].cand /\ agreed' = agreed \cup {job[j].cand}
    /\ UNCHANGED <<cases, job, feedback, review>>

-----------------------------------------------------------------------------
\* Variant of compare: the candidate is written to the role while it is tried.
CompareInPlace(j, c) ==
    /\ job[j].pc = "idle" /\ cases # {}
    /\ prompt' = c
    /\ job' = [job EXCEPT ![j] = [Idle EXCEPT !.pc = "baseline", !.base = prompt,
                                              !.cand = c, !.todo = cases]]
    /\ UNCHANGED <<agreed, cases, feedback, review>>

\* CompareCandidatePrompt.execute: the prompt and the cases of its first evaluation.
compare(j, c) ==
    /\ job[j].pc = "idle" /\ cases # {}
    /\ job' = [job EXCEPT ![j] = [Idle EXCEPT !.pc = "baseline", !.base = prompt,
                                              !.cand = c, !.todo = cases]]
    /\ UNCHANGED <<prompt, agreed, cases, feedback, review>>

\* The executor's and the judge's answers to one case: the mark that the output deserves,
\* or that the message of a failed execution gets.
Marks(p, c) == {Score[p][c]} \cup (IF "fail" \in Fault THEN {1} ELSE {})

score(j, c) ==
    /\ job[j].pc \in {"baseline", "candidate"} /\ c \in job[j].todo
    /\ \E m \in Marks(IF job[j].pc = "baseline" THEN job[j].base ELSE job[j].cand, c) :
           job' = [job EXCEPT ![j].todo = @ \ {c}, ![j].sum = @ + m, ![j].n = @ + 1]
    /\ UNCHANGED <<prompt, agreed, cases, feedback, review>>

\* The judge raises.
Raise(j) == /\ "fail" \in Fault /\ job[j].pc \in {"baseline", "candidate", "suggest"}
            /\ job' = [job EXCEPT ![j].pc = "raised"]
            /\ UNCHANGED <<prompt, agreed, cases, feedback, review>>

\* Its second evaluation, on the cases there are now.
evaluate_candidate(j) ==
    /\ job[j].pc = "baseline" /\ job[j].todo = {}
    /\ \/ /\ cases = {}
          /\ job' = [job EXCEPT ![j].pc = "raised"]
       \/ /\ cases # {}
          /\ job' = [job EXCEPT ![j].pc = "candidate", ![j].todo = cases,
                                ![j].sum = 0, ![j].n = 0,
                                ![j].baseSum = job[j].sum, ![j].baseN = job[j].n]
    /\ UNCHANGED <<prompt, agreed, cases, feedback, review>>

\* average_score, ShadowComparisonResult: the averages are compared as fractions.
end_compare(j) ==
    /\ job[j].pc = "candidate" /\ job[j].todo = {}
    /\ job' = [job EXCEPT ![j].pc = "done",
           ![j].better = job[j].sum * job[j].baseN > job[j].baseSum * job[j].n]
    /\ UNCHANGED <<prompt, agreed, cases, feedback, review>>

-----------------------------------------------------------------------------
\* RecordFeedback, of a record that is there.
record_feedback(r, who, mark) ==
    /\ Len(feedback) < MaxMarks
    /\ feedback' = Append(feedback, [record |-> r, rater |-> who, mark |-> mark])
    /\ UNCHANGED <<prompt, agreed, cases, job, review>>

\* ListMyFeedback and list_records: the rows of a rater come in any order, and the last of a
\* record is shown.
mine(who, r) == {feedback[i].mark : i \in {k \in DOMAIN feedback :
                                           feedback[k].rater = who /\ feedback[k].record = r}}

\* ListLowScoreSamples.
low_scored == SelectSeq(feedback, LAMBDA f : f.mark <= 3)

\* SuggestPromptImprovement: the prompt and the samples are read, and the model is asked.
suggest(j) ==
    /\ job[j].pc = "idle" /\ low_scored # <<>>
    /\ job' = [job EXCEPT ![j] = [Idle EXCEPT !.pc = "suggest", !.base = prompt]]
    /\ UNCHANGED <<prompt, agreed, cases, feedback, review>>
suggested(j, c) ==
    /\ job[j].pc = "suggest"
    /\ job' = [job EXCEPT ![j].pc = "done", ![j].cand = c]
    /\ UNCHANGED <<prompt, agreed, cases, feedback, review>>

-----------------------------------------------------------------------------
\* ReviewOutput: an empty output is not reviewed.
submit(r) == /\ review[r] = "none"
             /\ review' = [review EXCEPT ![r] = "draft"]
             /\ UNCHANGED <<prompt, agreed, cases, job, feedback>>

\* The critic: finds nothing or little, finds faults, or fails.
critique(r) == /\ review[r] = "draft"
               /\ \E to \in {"kept", "faulty"} : review' = [review EXCEPT ![r] = to]
               /\ UNCHANGED <<prompt, agreed, cases, job, feedback>>

\* The expert: a revision, or nothing or a failure, and the draft is kept.
revise(r) == /\ review[r] = "faulty"
             /\ \E to \in {"revised", "kept"} : review' = [review EXCEPT ![r] = to]
             /\ UNCHANGED <<prompt, agreed, cases, job, feedback>>

-----------------------------------------------------------------------------
Work == \/ \E j \in Job : \/ Raise(j) \/ evaluate_candidate(j) \/ end_compare(j) \/ suggest(j)
                          \/ \E c \in Case : score(j, c)
                          \/ \E p \in Prompt : compare(j, p) \/ suggested(j, p)
        \/ \E r \in Review : critique(r) \/ revise(r)

Next == \/ Work
        \/ \E c \in Case : create_case(c) \/ delete_case(c)
        \/ \E j \in Job : confirm(j)
        \/ \E r \in Record, who \in Rater, mark \in {2, 5} : record_feedback(r, who, mark)
        \/ \E r \in Review : submit(r)

Spec == Init /\ [][Next]_vars

\* A review that was begun goes on: it is one coroutine.
FairSpec == Spec /\ \A r \in Review : WF_vars(critique(r)) /\ WF_vars(revise(r))

-----------------------------------------------------------------------------
TypeOK == /\ prompt \in Prompt /\ cases \subseteq Case
          /\ \A j \in Job : job[j].n + Cardinality(job[j].todo) <= Cardinality(Case)
                            /\ job[j].sum <= 5 * Cardinality(Case)
          /\ review \in [Review -> {"none", "draft", "faulty", "kept", "revised"}]

\* eval.py: the expert works with a prompt that a person set, whatever is being tried.
Confirmed == prompt \in agreed

\* eval_case.py: a comparison says whether a prompt is better: not of one that is better on no
\* case.
Verdict == \A j \in Job : job[j].better =>
    \E c \in Case : Score[job[j].cand][c] > Score[job[j].base][c]

\* use_cases.py: a review ends with the draft or with a revision of it, and never blocks.
Reviewed == \A r \in Review : (review[r] = "draft") ~> (review[r] \in {"kept", "revised"})

-----------------------------------------------------------------------------
(* What the documents promise and the code does not keep (see README). *)

\* ListMyFeedback: what a person sees as his mark is the last he gave.
EchoesLast == \A i \in DOMAIN feedback :
    (\A k \in (i + 1) .. Len(feedback) :
         feedback[k].rater # feedback[i].rater \/ feedback[k].record # feedback[i].record)
    => mine(feedback[i].rater, feedback[i].record) = {feedback[i].mark}
=============================================================================
