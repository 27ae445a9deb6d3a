---------------------------- MODULE AgentExecution ----------------------------
(***************************************************************************)
(* One execution of an expert: it is prepared, the budget of the day is    *)
(* asked, the model is called - here, behind the gateway, or on the expert *)
(* platform, with the one falling back to the other - and the outcome is   *)
(* recorded, logged and counted against the budget in steps of their own.  *)
(*                                                                         *)
(*   idle -> prepare -> (create ->) invoke -> record -> log -> count       *)
(*        -> add -> done                                                   *)
(*   and "raised", "cancelled" or "crashed" where the execution stops      *)
(*                                                                         *)
(* via says who is asked for the answer: "expert" is the expert platform,  *)
(* "gateway" the model gateway, "model" the model of this process.         *)
(***************************************************************************)
EXTENDS Integers, FiniteSets, FiniteSetsExt

CONSTANTS
    Call,       \* executions
    Process,    \* server processes
    Home,       \* [Call -> Process]
    Route,      \* [Call -> {"model", "gateway", "expert"}]: the samples of the canaries
    Streaming,  \* the calls that are streamed to a browser
    Personal,   \* the direct calls of people, whose results are sunk
    Active,     \* how many may be under way at once: bound
    Cost,       \* tokens of one answer
    Budget,     \* llm_daily_token_budget, a hard limit
    MaxRetries, \* llm_gateway_max_retries
    Fault       \* what may go wrong: "redis", "remote", "model", "leave", "crash"

ExecutionAssumption ==
    /\ Home \in [Call -> Process] /\ Route \in [Call -> {"model", "gateway", "expert"}]
    /\ Streaming \subseteq Call /\ Personal \subseteq Call
    /\ Active \in Nat /\ Cost \in Nat \ {0} /\ Budget \in Nat \ {0} /\ MaxRetries \in Nat

VARIABLES
    call,     \* [Call -> call]
    counter,  \* the tokens of the day in Redis
    local,    \* [Process -> tokens of the day counted here while Redis was away]
    redisUp,
    away,     \* [Process -> BOOLEAN]: it failed to reach Redis and pauses
    alerts,   \* messages that the budget is exceeded
    spent     \* tokens of the answers of all models: history

budget == <<counter, local, away>>
vars == <<call, counter, local, redisUp, away, alerts, spent>>

-----------------------------------------------------------------------------
NewCall(c) == [pc |-> "idle", via |-> Route[c], tries |-> 0, sent |-> {}, status |-> "none",
               tokens |-> 0, rows |-> 0, sunk |-> FALSE, logged |-> FALSE, before |-> 0]

Init == /\ call = [c \in Call |-> NewCall(c)]
        /\ counter = 0 /\ local = [p \in Process |-> 0]
        /\ redisUp = TRUE /\ away = [p \in Process |-> FALSE]
        /\ alerts = 0 /\ spent = 0

Ended(c) == call[c].pc \in {"done", "raised", "cancelled", "crashed"}
Running == {c \in Call : call[c].pc # "idle" /\ ~Ended(c)}

\* check_budget reads and adds without an await: its process does nothing else between.
Awake(c) == \A d \in Call \ {c} : call[d].pc = "add" => Home[d] # Home[c]

Go(c, pc) == call' = [call EXCEPT ![c].pc = pc]
Outcome(c, status, tokens) ==
    call' = [call EXCEPT ![c].pc = "record", ![c].status = status, ![c].tokens = tokens]

-----------------------------------------------------------------------------
\* The tokens of the day after some are added: in Redis, or in the process for thirty
\* seconds after Redis did not answer.
budget_add(p, seen, tokens, total) ==
    \/ /\ redisUp /\ ~away[p] /\ total = counter + tokens
       /\ counter' = total /\ UNCHANGED <<local, away>>
    \/ /\ ~redisUp \/ away[p]
       /\ total = local[p] + tokens
       /\ local' = [local EXCEPT ![p] = total]
       /\ away' = [away EXCEPT ![p] = TRUE] /\ UNCHANGED counter

\* What current() sees: nothing is added.
current(p) == IF redisUp /\ ~away[p] THEN counter ELSE local[p]
Noticed(p) == away' = [away EXCEPT ![p] = @ \/ ~redisUp]

authorize_usage(tokens) == tokens < Budget

crossed_budget(before, after) == before <= Budget /\ Budget < after

-----------------------------------------------------------------------------
\* execute, stream: the prompt and the knowledge are read.
start(c) ==
    /\ call[c].pc = "idle" /\ Awake(c) /\ Cardinality(Running) < Active
    /\ Go(c, "prepare")
    /\ UNCHANGED <<redisUp, alerts, spent>> /\ UNCHANGED budget

\* A failure here, or the refusal below, is an outcome; on the way to the expert platform
\* it is an exception of execute.
Refuse(c) == \/ call[c].via # "expert" /\ Outcome(c, "failed", 0)
             \/ call[c].via = "expert" /\ Go(c, "raised")

FailPrepare(c) ==
    /\ call[c].pc = "prepare" /\ Awake(c) /\ "model" \in Fault
    /\ Refuse(c)
    /\ UNCHANGED <<redisUp, alerts, spent>> /\ UNCHANGED budget

\* The budget is asked, and the transaction released.
authorize(c) ==
    /\ call[c].pc = "prepare" /\ Awake(c)
    /\ \/ /\ authorize_usage(current(Home[c]))
          /\ Go(c, IF call[c].via = "expert" THEN "create" ELSE "invoke")
       \/ ~authorize_usage(current(Home[c])) /\ Refuse(c)
    /\ Noticed(Home[c])
    /\ UNCHANGED <<counter, local, redisUp, alerts, spent>>

\* An execution here, from its beginning.
fall_back_local(c) == call' = [call EXCEPT ![c].via = "model", ![c].pc = "prepare"]

\* The expert platform creates the execution; if it does not, there is one here, and if its
\* answer cannot be read, an exception of execute.
create(c) ==
    /\ call[c].pc = "create" /\ Awake(c)
    /\ \/ Go(c, "invoke")
       \/ "remote" \in Fault /\ (fall_back_local(c) \/ Go(c, "raised"))
    /\ UNCHANGED <<redisUp, alerts, spent>> /\ UNCHANGED budget

\* A piece of the answer reaches the browser.
deliver(c) ==
    /\ call[c].pc = "invoke" /\ Awake(c) /\ c \in Streaming
    /\ call' = [call EXCEPT ![c].sent = @ \cup {call[c].via}]
    /\ UNCHANGED <<redisUp, alerts, spent>> /\ UNCHANGED budget

\* The whole answer, with its usage: of the model of this process, of the gateway, or of
\* the expert platform.
Answered(c) ==
    /\ call[c].pc = "invoke" /\ Awake(c)
    /\ c \in Streaming => call[c].sent # {}
    /\ Outcome(c, "success", Cost)
    /\ spent' = spent + Cost
    /\ UNCHANGED <<redisUp, alerts>> /\ UNCHANGED budget

LocalAnswer(c) == call[c].via = "model" /\ Answered(c)
GatewayAnswer(c) == call[c].via = "gateway" /\ Answered(c)
ExpertAnswer(c) == call[c].via = "expert" /\ Answered(c)

\* A stream of a remote service that just ends is taken for an answer, without its usage.
cut(c) ==
    /\ call[c].pc = "invoke" /\ Awake(c) /\ "remote" \in Fault
    /\ c \in Streaming /\ call[c].via # "model" /\ call[c].sent # {}
    /\ Outcome(c, "success", 0)
    /\ spent' = spent + Cost
    /\ UNCHANGED <<redisUp, alerts>> /\ UNCHANGED budget

\* Variant of retry: for ever.
RetryForever(c) ==
    /\ call[c].via = "gateway" /\ c \notin Streaming
    /\ call' = [call EXCEPT ![c].tries = (@ + 1) % (MaxRetries + 1)]

\* _request_json: what is not streamed is asked for again, a bounded number of times.
retry(c) ==
    /\ call[c].via = "gateway" /\ c \notin Streaming /\ call[c].tries < MaxRetries
    /\ call' = [call EXCEPT ![c].tries = @ + 1]

\* Variant of fall_back: also after the answer began.
FallBackAlways(c) ==
    /\ call[c].via = "gateway"
    /\ c \notin Streaming => call[c].tries = MaxRetries
    /\ call' = [call EXCEPT ![c].via = "model"]

\* Before the first piece the gateway is replaced by the model of this process.
fall_back(c) ==
    /\ call[c].via = "gateway" /\ call[c].sent = {}
    /\ c \notin Streaming => call[c].tries = MaxRetries
    /\ call' = [call EXCEPT ![c].via = "model"]

\* Who is asked fails: the gateway may be asked again or replaced before its first piece;
\* the expert platform has created the execution, and is not.
FailInvoke(c) ==
    /\ call[c].pc = "invoke" /\ Awake(c)
    /\ \/ "remote" \in Fault /\ (retry(c) \/ fall_back(c))
       \/ /\ "remote" \in Fault /\ call[c].via = "gateway" /\ call[c].sent # {}
          /\ Outcome(c, "failed", 0)
       \/ "remote" \in Fault /\ call[c].via = "expert" /\ Outcome(c, "failed", 0)
       \/ "model" \in Fault /\ call[c].via = "model" /\ Outcome(c, "failed", 0)
    /\ UNCHANGED <<redisUp, alerts, spent>> /\ UNCHANGED budget

\* The browser goes: the generator is closed at the piece it waits to deliver.
leave(c) ==
    /\ call[c].pc = "invoke" /\ Awake(c) /\ c \in Streaming /\ "leave" \in Fault
    /\ Go(c, "cancelled")
    /\ spent' = spent + Cost
    /\ UNCHANGED <<redisUp, alerts>> /\ UNCHANGED budget

-----------------------------------------------------------------------------
\* The record and what is sunk of it are committed together,
record(c) ==
    /\ call[c].pc = "record" /\ Awake(c)
    /\ call' = [call EXCEPT ![c].pc = "log", ![c].rows = @ + 1,
                            ![c].sunk = c \in Personal /\ call[c].status = "success"]
    /\ UNCHANGED <<redisUp, alerts, spent>> /\ UNCHANGED budget

\* then the usage; a failure is reported and forgotten,
record_usage(c) ==
    /\ call[c].pc = "log" /\ Awake(c)
    /\ \/ call' = [call EXCEPT ![c].pc = "count", ![c].logged = TRUE]
       \/ "model" \in Fault /\ Go(c, "done")
    /\ UNCHANGED <<redisUp, alerts, spent>> /\ UNCHANGED budget

\* and the counter of the day is read
check_budget(c) ==
    /\ call[c].pc = "count" /\ Awake(c)
    /\ call' = [call EXCEPT ![c].pc = "add", ![c].before = current(Home[c])]
    /\ Noticed(Home[c])
    /\ UNCHANGED <<counter, local, redisUp, alerts, spent>>

\* and raised.
add(c) ==
    /\ call[c].pc = "add"
    /\ \E total \in 0 .. Cost * Cardinality(Call) :
         /\ budget_add(Home[c], call[c].before, call[c].tokens, total)
         /\ alerts' = IF crossed_budget(call[c].before, total) /\ alerts < 2
                      THEN alerts + 1 ELSE alerts
    /\ Go(c, "done")
    /\ UNCHANGED <<redisUp, spent>>

-----------------------------------------------------------------------------
\* Redis goes and comes back; a process tries again after its pause.
SwitchRedis == /\ "redis" \in Fault
               /\ redisUp' = ~redisUp
               /\ UNCHANGED <<call, alerts, spent>> /\ UNCHANGED budget
Reconnect(p) == /\ away[p]
                /\ away' = [away EXCEPT ![p] = FALSE]
                /\ UNCHANGED <<call, counter, local, redisUp, alerts, spent>>

\* A process dies with its executions and what it counted itself.
Crash(p) ==
    /\ "crash" \in Fault /\ \E c \in Running : Home[c] = p
    /\ call' = [c \in Call |-> IF c \in Running /\ Home[c] = p
                               THEN [call[c] EXCEPT !.pc = "crashed"] ELSE call[c]]
    /\ local' = [local EXCEPT ![p] = 0]
    /\ away' = [away EXCEPT ![p] = FALSE]
    /\ UNCHANGED <<counter, redisUp, alerts, spent>>

Advance(c) == \/ authorize(c) \/ create(c) \/ FailInvoke(c) \/ record(c)
              \/ LocalAnswer(c) \/ GatewayAnswer(c) \/ ExpertAnswer(c)
              \/ record_usage(c) \/ check_budget(c) \/ add(c)

Next == \/ \E c \in Call : \/ start(c) \/ Advance(c) \/ FailPrepare(c) \/ deliver(c)
                           \/ cut(c) \/ leave(c)
        \/ SwitchRedis
        \/ \E p \in Process : Reconnect(p) \/ Crash(p)

Spec == Init /\ [][Next]_vars

\* Whoever is asked answers, or his time runs out; the database does too.
FairSpec == Spec /\ \A c \in Call : WF_vars(Advance(c) \/ cut(c) \/ leave(c))

-----------------------------------------------------------------------------
Resting == Running = {}

TypeOK == /\ counter \in 0 .. Cost * Cardinality(Call) /\ alerts \in 0 .. 2
          /\ \A p \in Process : local[p] \in 0 .. Cost * Cardinality(Call)
          /\ \A c \in Call : call[c].tries \in 0 .. MaxRetries

\* Whatever two processes do at once, the tokens that were logged are the tokens that were
\* counted when nothing is under way, as long as Redis answers; and when they are more than
\* the budget, somebody was told.
AllCounted == Resting =>
    /\ counter = MapThenSumSet(LAMBDA c : IF call[c].logged THEN call[c].tokens ELSE 0, Call)
    /\ counter > Budget => alerts > 0

\* An execution is recorded once, whoever falls back to whom, and what is sunk is recorded.
RecordedOnce == \A c \in Call : /\ call[c].rows <= 1
                                /\ call[c].pc = "done" => call[c].rows = 1
                                /\ call[c].sunk => call[c].rows = 1 /\ call[c].status = "success"

\* The pieces that reach a browser come from one model: nobody takes over an answer that
\* somebody else began.
OneVoice == \A c \in Call : Cardinality(call[c].sent) <= 1

\* The hard limit: no execution calls a model once the answers so far used up the budget.
WithinBudget == \A c \in Call :
    (call[c].pc = "prepare" /\ call'[c].pc \in {"create", "invoke"}) => spent < Budget

\* Whatever fails, an execution that began ends: every way of asking again is bounded.
Ends == \A c \in Call : (call[c].pc # "idle") ~> Ended(c)

-----------------------------------------------------------------------------
(* What the documents promise and the code does not keep (see README). *)

\* use_cases.py: an execution always leaves a record of its outcome.
AlwaysRecorded == \A c \in Call : call[c].pc \in {"raised", "cancelled"} => call[c].rows = 1

\* remote_application.py: until the first piece a failure of the expert platform is followed
\* by an execution here.
FallsBack == \A c \in Call :
    (call[c].via = "expert" /\ call[c].status = "failed" /\ c \in Streaming) => call[c].sent # {}
=============================================================================
