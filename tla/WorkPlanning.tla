---------------------------- MODULE WorkPlanning ----------------------------
(***************************************************************************)
(* From a plan to a graph of steps.  A plan comes from the planner's model *)
(* (parse_workflow_plan) or from a stored template (validated when it is   *)
(* saved, expanded when it is launched); WorkflowPlan checks it again, and *)
(* create_workflow pairs each compose step with the mechanical step that   *)
(* publishes it.  A step is [no, cap, deps, expert]: deps is a sequence,   *)
(* as the code counts what is in it.  Titles and texts are left out.       *)
(***************************************************************************)
EXTENDS Naturals, FiniteSets, SequencesExt

CONSTANTS
    Template,    \* ids of templates; the seeds are there from the start
    Seed,        \* [Template -> steps], for the seeds
    Proposal,    \* what the planning model may answer, and what an admin may save
    Capability,  \* keys the catalogue lists
    Automatic,   \* AUTOMATIC_CAPABILITIES, the mechanical ones included
    Publish,     \* _PUBLISH_PAIRINGS: compose key -> mechanical key
    Meeting,     \* _REPOINT_COMPOSE_KEYS
    Expert,      \* codes of agent roles
    MaxSteps,    \* MAX_PLAN_STEPS
    NONE

PlanningAssumption == /\ DOMAIN Seed \subseteq Template
                             /\ Meeting \subseteq DOMAIN Publish
                             /\ MaxSteps \in Nat /\ NONE \notin Expert

VARIABLES
    template,  \* workflow_template rows
    active,    \* roles that are active
    launch     \* the last plan that was proposed and what came of it

vars == <<template, active, launch>>

-----------------------------------------------------------------------------
Composes == DOMAIN Publish
PublishKeys == {Publish[c] : c \in Composes}
Numbers(steps) == {steps[i].no : i \in DOMAIN steps}
Unique(steps) == \A i, j \in DOMAIN steps : steps[i].no = steps[j].no => i = j
Closed(steps) == \A i \in DOMAIN steps : Range(steps[i].deps) \subseteq Numbers(steps)
NoSelf(steps) == \A i \in DOMAIN steps : steps[i].no \notin Range(steps[i].deps)
Step(steps, n) == steps[CHOOSE i \in DOMAIN steps : steps[i].no = n]
Deps(steps, n) == Step(steps, n).deps

\* A graph has no cycle: no steps each of which depends on one of them.
Acyclic(steps) ==
    \A C \in SUBSET Numbers(steps) \ {{}} :
        \E n \in C : Range(Deps(steps, n)) \cap C = {}

-----------------------------------------------------------------------------
\* WorkflowPlan: depth first, 1 is on the path and 2 was left.
RECURSIVE visit(_, _, _)
visit(steps, n, colors) ==
    LET Follow(seen, d) ==
            CASE seen.cycle -> seen
              [] seen.colors[d] = 1 -> [seen EXCEPT !.cycle = TRUE]
              [] seen.colors[d] = 0 -> visit(steps, d, seen.colors)
              [] OTHER -> seen
        after == FoldLeft(Follow, [cycle |-> FALSE, colors |-> [colors EXCEPT ![n] = 1]],
                          Deps(steps, n))
    IN  IF after.cycle THEN after ELSE [after EXCEPT !.colors[n] = 2]

_has_cycle(steps) ==
    LET Enter(seen, step) == IF seen.cycle \/ seen.colors[step.no] # 0 THEN seen
                             ELSE visit(steps, step.no, seen.colors)
    IN  FoldLeft(Enter, [cycle |-> FALSE, colors |-> [n \in Numbers(steps) |-> 0]],
                 steps).cycle

\* Templates: the steps whose dependencies are resolved are taken off a stack.
RECURSIVE Resolve(_, _, _, _)
Resolve(steps, stack, indegree, resolved) ==
    IF stack = <<>> THEN resolved
    ELSE LET n == Last(stack)
             hits == [m \in Numbers(steps) |->
                        Cardinality({k \in DOMAIN Deps(steps, m) : Deps(steps, m)[k] = n})]
             freed == {m \in Numbers(steps) : hits[m] > 0 /\ hits[m] = indegree[m]}
         IN  Resolve(steps, Front(stack) \o SetToSeq(freed),
                     [m \in Numbers(steps) |-> indegree[m] - hits[m]], resolved + 1)

_reject_cycle(steps) ==
    LET indegree == [n \in Numbers(steps) |-> Len(Deps(steps, n))]
    IN  Resolve(steps, SetToSeq({n \in Numbers(steps) : indegree[n] = 0}), indegree, 0)
            # Len(steps)

validate_template_steps(steps) ==
    /\ steps # <<>>
    /\ Unique(steps) /\ \A i \in DOMAIN steps : steps[i].cap \in Capability
    /\ NoSelf(steps) /\ Closed(steps)
    /\ ~_reject_cycle(steps)

WorkflowPlan(steps) ==
    /\ NoSelf(steps) /\ Unique(steps) /\ Closed(steps)
    /\ ~_has_cycle(steps)

\* What the planner makes of the model's answer: too many steps are cut off.
Cut(steps) == SubSeq(steps, 1, IF Len(steps) < MaxSteps THEN Len(steps) ELSE MaxSteps)
parse_workflow_plan(steps) == Len(steps) >= 2 /\ WorkflowPlan(Cut(steps))

-----------------------------------------------------------------------------
\* Composes of a plan, in order; each gets a publish step with the next number.
ComposeSteps(steps) == SelectSeq(steps, LAMBDA s : s.cap \in Composes)
Kept(steps) == SelectSeq(steps, LAMBDA s : s.cap \notin PublishKeys)
Highest(steps) == CHOOSE n \in Numbers(steps) : \A m \in Numbers(steps) : m <= n

\* Variant of Under: the step that publishes waits for what the draft waits for.
UnderBeside(compose) == compose.deps

\* The step that publishes a draft waits for the draft.
Under(compose) == <<compose.no>>

\* Whoever waited for a draft that makes a meeting waits for its publish step.
pair_publish_steps(steps) ==
    LET composes == ComposeSteps(Kept(steps))
        PublishNo(i) == Highest(Kept(steps)) + i
        Repoint(d) == IF \E i \in DOMAIN composes :
                            composes[i].no = d /\ composes[i].cap \in Meeting
                      THEN PublishNo(CHOOSE i \in DOMAIN composes : composes[i].no = d)
                      ELSE d
        Repointed(s) == [s EXCEPT !.deps = [k \in DOMAIN s.deps |-> Repoint(s.deps[k])]]
    IN  [i \in DOMAIN Kept(steps) |-> Repointed(Kept(steps)[i])]
        \o [i \in DOMAIN composes |-> [no |-> PublishNo(i), cap |-> Publish[composes[i].cap],
                                        deps |-> Under(composes[i]), expert |-> NONE]]

\* create_workflow: two steps are asked for first, every dependency is looked up last.
Outcome(steps) ==
    CASE ~WorkflowPlan(steps) -> "invalid"
      [] Len(steps) < 2 -> "too_short"
      [] ~Closed(pair_publish_steps(steps)) -> "error"
      [] OTHER -> "started"

create_workflow(by, steps) ==
    launch' = [by |-> by, plan |-> steps, outcome |-> Outcome(steps),
               graph |-> IF Outcome(steps) = "started" THEN pair_publish_steps(steps)
                         ELSE <<>>]

\* Runtime v2 names every step and carries number, title and instruction as its input.
planning_to_runtime_v2(steps) ==
    [i \in DOMAIN steps |-> [key |-> steps[i].no, executor |-> steps[i].cap,
                             depends_on |-> steps[i].deps]]
_to_legacy_plan(submitted) ==
    [i \in DOMAIN submitted |-> [no |-> submitted[i].key, cap |-> submitted[i].executor,
                                 deps |-> submitted[i].depends_on, expert |-> NONE]]

-----------------------------------------------------------------------------
Init == /\ template = [t \in DOMAIN Seed |-> [steps |-> Seed[t], enabled |-> TRUE,
                                              is_seed |-> TRUE, is_delete |-> FALSE]]
        /\ active = Expert
        /\ launch = [by |-> "nobody", plan |-> <<>>, outcome |-> "none", graph |-> <<>>]

get_any(t) == t \in DOMAIN template /\ ~template[t].is_delete

create_template(t, steps) ==
    /\ t \notin DOMAIN template
    /\ validate_template_steps(steps)
    /\ template' = [u \in DOMAIN template \cup {t} |->
                      IF u = t THEN [steps |-> steps, enabled |-> TRUE, is_seed |-> FALSE,
                                     is_delete |-> FALSE]
                      ELSE template[u]]
    /\ UNCHANGED <<active, launch>>

UpdateSteps(t, steps) ==
    /\ get_any(t) /\ validate_template_steps(steps)
    /\ template' = [template EXCEPT ![t].steps = steps]
    /\ UNCHANGED <<active, launch>>

UpdateEnabled(t) ==
    /\ get_any(t)
    /\ template' = [template EXCEPT ![t].enabled = ~@]
    /\ UNCHANGED <<active, launch>>

delete_template(t) ==
    /\ get_any(t) /\ ~template[t].is_seed
    /\ template' = [template EXCEPT ![t].is_delete = TRUE]
    /\ UNCHANGED <<active, launch>>

\* A role is switched off or on.
SwitchRole(e) ==
    /\ active' = IF e \in active THEN active \ {e} ELSE active \cup {e}
    /\ UNCHANGED <<template, launch>>

load_agent_ids == active

\* An unknown or inactive code falls back to the assignee of the run.
expand_template(steps) ==
    [i \in DOMAIN steps |-> [steps[i] EXCEPT !.expert = IF @ \in load_agent_ids THEN @
                                                        ELSE NONE]]

LaunchTemplate(t) ==
    /\ get_any(t) /\ template[t].enabled
    /\ create_workflow("template", expand_template(template[t].steps))
    /\ UNCHANGED <<template, active>>

\* A plan that does not pass is refused, and the request is one action.
plan_work(steps) ==
    /\ IF parse_workflow_plan(steps) THEN create_workflow("planner", Cut(steps))
       ELSE launch' = [by |-> "planner", plan |-> steps, outcome |-> "refused", graph |-> <<>>]
    /\ UNCHANGED <<template, active>>

Next == \/ \E t \in Template, steps \in Proposal : create_template(t, steps) \/ UpdateSteps(t, steps)
        \/ \E t \in Template : UpdateEnabled(t) \/ delete_template(t) \/ LaunchTemplate(t)
        \/ \E e \in Expert : SwitchRole(e)
        \/ \E steps \in Proposal : plan_work(steps)

Spec == Init /\ [][Next]_vars

-----------------------------------------------------------------------------
\* The steps of a stored template passed the checks; a graph is numbers, keys and steps.
TypeOK == /\ DOMAIN template \subseteq Template
          /\ \A t \in DOMAIN template : Closed(template[t].steps)
          /\ active \subseteq Expert
          /\ launch.outcome \in {"none", "refused", "invalid", "too_short", "error", "started"}

\* The two checks for cycles, of templates and of plans, accept the same graphs, and
\* these are the ones without a cycle.
ChecksAgree ==
    LET p == launch.plan IN
    Unique(p) /\ Closed(p) => /\ _has_cycle(p) <=> ~Acyclic(p)
                              /\ _reject_cycle(p) <=> ~Acyclic(p)

\* A step that publishes can only run after the draft it publishes was accepted by a
\* person: its only dependency is a compose step that stops for review, no two publish
\* the same draft, and every draft has one.
GraphIsGated ==
    LET g == launch.graph
        publishing == {i \in DOMAIN g : g[i].cap \in PublishKeys}
        composing == {i \in DOMAIN g : g[i].cap \in Composes}
    IN  /\ \A i \in publishing :
             \E j \in composing : /\ g[i].deps = <<g[j].no>>
                                  /\ g[i].cap = Publish[g[j].cap]
                                  /\ g[j].cap \notin Automatic
        /\ \A j \in composing : Cardinality({i \in publishing : g[i].deps = <<g[j].no>>}) = 1

\* A graph that is started can be run to its end: its numbers are unique, every
\* dependency is in it, and it has no cycle.
GraphIsSound ==
    LET g == launch.graph IN Unique(g) /\ Closed(g) /\ Acyclic(g)

\* What was started from a plan keeps its order: a step still runs after the steps it
\* depended on, and after the meeting was held when it depended on its draft.
OrderIsKept ==
    LET g == launch.graph
        Waits(s, d) == LET c == Step(launch.plan, d) IN
            IF c.cap \in Meeting
            THEN \E k \in DOMAIN g : /\ g[k].cap = Publish[c.cap] /\ g[k].deps = <<d>>
                                     /\ g[k].no \in Range(s.deps)
            ELSE d \in Range(s.deps)
    IN  \A s \in Range(g) : s.cap \notin PublishKeys =>
            \A d \in Range(Deps(launch.plan, s.no)) : Waits(s, d)

\* A role that is switched off is not given a step when a template is launched; what
\* was launched before keeps it.
InactiveGetNothing ==
    LET g == launch'.graph IN
       launch' # launch /\ launch'.by = "template" =>
            \A i \in DOMAIN g : g[i].expert \in active \cup {NONE}

-----------------------------------------------------------------------------
(* What the documents promise and the code does not keep (see README). *)

\* validation.py: what it lets through does not blow up when it is run.
StoredTemplatesStart == launch.by = "template" => launch.outcome = "started"

\* policies.py: a bare publish step is dropped as a defence; the plan still starts.
PlansStart == launch.by = "planner" => launch.outcome \in {"refused", "started"}

\* create_workflow: a durable run has at least two steps.
AtLeastTwo == launch.outcome = "started" => Len(launch.graph) >= 2

\* local_runtime_adapter.py: Runtime v2 is translated back to the unchanged contract.
RoundTrip == launch.outcome = "started" =>
                _to_legacy_plan(planning_to_runtime_v2(launch.plan)) = launch.plan
=============================================================================
