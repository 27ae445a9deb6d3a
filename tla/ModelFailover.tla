---------------------------- MODULE ModelFailover ----------------------------
(***************************************************************************)
(* One call of a model of this process.  Its candidates are the active     *)
(* cards of a tier, those that failed of late at the end; each failure     *)
(* moves on to the next, and opens the breaker of the provider for a while *)
(* in Redis, or in the process as long as Redis is away.                   *)
(*                                                                         *)
(*   call: idle -> try -> served | raised                                  *)
(***************************************************************************)
EXTENDS Integers, FiniteSets, Sequences, SequencesExt

CONSTANTS
    Call,      \* calls of a model
    Process,   \* server processes
    Home,      \* [Call -> Process]
    Tier,      \* the candidates of the tier, a sequence of providers
    Streaming, \* the calls that are streamed
    Created,   \* the calls of create_llm; the others are of get_llm_for_role
    Cap,       \* llm_failover_max_attempts
    Fault      \* "redis": Redis may go; "time": create_llm's calls may use up their time

Provider == Range(Tier)

FailoverAssumption ==
    /\ Home \in [Call -> Process] /\ Streaming \subseteq Call /\ Created \subseteq Call
    /\ Tier # <<>> /\ Cardinality(Provider) = Len(Tier) /\ Cap \in Nat \ {0}

VARIABLES
    call,      \* [Call -> call]
    shared,    \* the providers with a cooldown in Redis
    local,     \* [Process -> those with a cooldown in the process]
    redisUp,
    away,      \* [Process -> BOOLEAN]: it failed to reach Redis and pauses
    failed,    \* the providers whose last outcome anywhere was a failure: history
    own        \* [Process -> those whose last outcome there was one]: history

breaker == <<shared, local, away>>
vars == <<call, shared, local, redisUp, away, failed, own>>

-----------------------------------------------------------------------------
Idle == [pc |-> "idle", order |-> <<>>, i |-> 0, exc |-> 0, bad |-> FALSE, sent |-> {},
         healthy |-> TRUE, remembered |-> TRUE]

Init == /\ call = [c \in Call |-> Idle]
        /\ shared = {} /\ local = [p \in Process |-> {}]
        /\ redisUp = TRUE /\ away = [p \in Process |-> FALSE]
        /\ failed = {} /\ own = [p \in Process |-> {}]

\* _with_redis: the operation in Redis, or in the process if Redis does not answer now or
\* did not less than thirty seconds ago.
Reaches(p) == redisUp /\ ~away[p]
Noticed(p) == away' = [away EXCEPT ![p] = ~Reaches(p)]

\* is_open, cooldown_active.
Open(p) == IF Reaches(p) THEN shared ELSE local[p]

cooldown_set(p, provider) ==
    \/ Reaches(p) /\ shared' = shared \cup {provider} /\ UNCHANGED local
    \/ ~Reaches(p) /\ local' = [local EXCEPT ![p] = @ \cup {provider}] /\ UNCHANGED shared

cooldown_clear(p, provider) ==
    \/ Reaches(p) /\ shared' = shared \ {provider} /\ UNCHANGED local
    \/ ~Reaches(p) /\ local' = [local EXCEPT ![p] = @ \ {provider}] /\ UNCHANGED shared

\* _record_call, of the candidate that was tried.
record_failure(c) ==
    LET p == Home[c] provider == call[c].order[call[c].i] IN
    /\ cooldown_set(p, provider) /\ Noticed(p)
    /\ failed' = failed \cup {provider}
    /\ own' = [own EXCEPT ![p] = @ \cup {provider}]

record_success(c) ==
    LET p == Home[c] provider == call[c].order[call[c].i] IN
    /\ cooldown_clear(p, provider) /\ Noticed(p)
    /\ failed' = failed \ {provider}
    /\ own' = [q \in Process |-> own[q] \ {provider}]

-----------------------------------------------------------------------------
\* The healthy ones first, in the order of the tier.
rank_providers(open) ==
    SelectSeq(Tier, LAMBDA x : x \notin open) \o SelectSeq(Tier, LAMBDA x : x \in open)

\* build_candidates: of get_llm_for_role as ranked; create_llm's own provider goes first.
build_candidates(c) ==
    LET ranked == rank_providers(Open(Home[c])) IN
    IF c \in Created THEN <<Head(Tier)>> \o SelectSeq(ranked, LAMBDA x : x # Head(Tier))
                      ELSE ranked

\* get_llm_for_role, create_llm.
get_llm(c) ==
    /\ call[c].pc = "idle"
    /\ LET order == build_candidates(c) IN
       call' = [call EXCEPT ![c] = [Idle EXCEPT !.pc = "try", !.order = order, !.i = 1,
           !.healthy = (order[1] \in failed => Provider \subseteq failed),
           !.remembered = (order[1] \in own[Home[c]] => Provider \subseteq own[Home[c]])]]
    /\ Noticed(Home[c])
    /\ UNCHANGED <<shared, local, redisUp, failed, own>>

\* _active: how many candidates a call may try.
Limit(c) == IF c \in Created /\ Cap < Len(Tier) THEN Cap ELSE Len(Tier)

\* The call after its candidate failed: there is a next one, or not, or no time for it.
MoveOn(c, exc, bad) ==
    LET next == [call[c] EXCEPT !.i = @ + 1, !.exc = exc, !.bad = bad]
        raise == [call[c] EXCEPT !.pc = "raised", !.exc = exc, !.bad = bad]
    IN  \/ call[c].i < Limit(c) /\ call' = [call EXCEPT ![c] = next]
        \/ call[c].i = Limit(c) /\ call' = [call EXCEPT ![c] = raise]
        \/ /\ c \in Created /\ "time" \in Fault   \* _over_budget
           /\ call' = [call EXCEPT ![c] = raise]

\* _agenerate: an answer, of a form that validate_output accepts.
answer(c) ==
    /\ call[c].pc = "try"
    /\ call' = [call EXCEPT ![c].pc = "served"]
    /\ record_success(c)
    /\ UNCHANGED redisUp

\* An answer of a form that it does not: the last of all candidates is accepted, another
\* is a failure, whose exception does not replace an earlier one.
reject(c) ==
    /\ call[c].pc = "try" /\ c \notin Streaming
    /\ \/ /\ call[c].i = Len(Tier)
          /\ call' = [call EXCEPT ![c].pc = "served"]
          /\ record_success(c)
       \/ /\ call[c].i # Len(Tier)
          /\ MoveOn(c, IF call[c].exc = 0 THEN call[c].i ELSE call[c].exc, TRUE)
          /\ record_failure(c)
    /\ UNCHANGED redisUp

\* _astream: a piece is passed on.
deliver(c) ==
    /\ call[c].pc = "try" /\ c \in Streaming
    /\ call' = [call EXCEPT ![c].sent = @ \cup {call[c].order[call[c].i]}]
    /\ UNCHANGED <<redisUp, failed, own>> /\ UNCHANGED breaker

\* An exception of the candidate: the next one, unless a piece was passed on.
fail(c) ==
    /\ call[c].pc = "try"
    /\ \/ call[c].sent = {} /\ MoveOn(c, call[c].i, FALSE)
       \/ /\ call[c].sent # {}
          /\ call' = [call EXCEPT ![c].pc = "raised", ![c].exc = call[c].i, ![c].bad = FALSE]
    /\ record_failure(c)
    /\ UNCHANGED redisUp

\* The next call of the same place.
again(c) ==
    /\ call[c].pc \in {"served", "raised"}
    /\ call' = [call EXCEPT ![c] = Idle]
    /\ UNCHANGED <<redisUp, failed, own>> /\ UNCHANGED breaker

-----------------------------------------------------------------------------
\* A cooldown ends after a time that depends on the reason: all there are of a provider.
Expire(provider) ==
    /\ provider \in failed
    /\ shared' = shared \ {provider}
    /\ local' = [p \in Process |-> local[p] \ {provider}]
    /\ failed' = failed \ {provider}
    /\ own' = [p \in Process |-> own[p] \ {provider}]
    /\ UNCHANGED <<call, redisUp, away>>

SwitchRedis == /\ "redis" \in Fault
               /\ redisUp' = ~redisUp
               /\ UNCHANGED <<call, failed, own>> /\ UNCHANGED breaker
Reconnect(p) == /\ away[p]
                /\ away' = [away EXCEPT ![p] = FALSE]
                /\ UNCHANGED <<call, shared, local, redisUp, failed, own>>

Next == \/ \E c \in Call : \/ get_llm(c) \/ answer(c) \/ reject(c) \/ deliver(c)
                           \/ fail(c) \/ again(c)
        \/ \E x \in Provider : Expire(x)
        \/ SwitchRedis
        \/ \E p \in Process : Reconnect(p)

Spec == Init /\ [][Next]_vars

-----------------------------------------------------------------------------
TypeOK == \A c \in Call : call[c].pc \in {"try", "served", "raised"} =>
    /\ Range(call[c].order) = Provider /\ call[c].i \in 1 .. Limit(c)
    /\ call[c].exc \in 0 .. call[c].i
    /\ call[c].pc = "raised" => call[c].exc # 0

\* What a browser is passed comes from one provider, and from the one that served.
OneVoice == \A c \in Call :
    /\ Cardinality(call[c].sent) <= 1
    /\ call[c].pc = "served" => call[c].sent \subseteq {call[c].order[call[c].i]}

\* health.py: what failed in one process is remembered in all of them: a call begins with a
\* provider that failed of late only if all did.
SharedMemory == \A c \in Call : call[c].healthy

-----------------------------------------------------------------------------
(* What the documents promise and the code does not keep (see README). *)

\* shared_state.py: without Redis a process at least remembers its own failures.
OwnMemory == \A c \in Call : call[c].remembered

\* fallback.py: a call does not fail for the form of the last answer,
AcceptsLast == \A c \in Call : call[c].pc = "raised" => ~call[c].bad

\* it fails with the last exception,
RaisesLast == \A c \in Call : call[c].pc = "raised" => call[c].exc = call[c].i

\* and docs/16: it tries at most so many candidates.
Capped == \A c \in Call : call[c].i <= Cap
=============================================================================
