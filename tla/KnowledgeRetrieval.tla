-------------------------- MODULE KnowledgeRetrieval --------------------------
(***************************************************************************)
(* One search of the knowledge base, from the question to what its caller  *)
(* does with the hits.  Two arms, by vectors and by keywords, share the    *)
(* session of the caller, whose connection runs one statement at a time;   *)
(* their lists are fused and perhaps reranked.  Or a remote service is     *)
(* asked.  A caller answers a question, or adds the hits to what an        *)
(* employee is asked, or carries out a directive of an employee.           *)
(***************************************************************************)
EXTENDS Integers, Sequences, FiniteSets, SequencesExt, Functions

CONSTANTS
    Chunk,      \* chunks of documents that the caller may see
    TopK, CandN,\* hits that are asked for; hits of an arm
    K,          \* the constant of the fusion
    Pool,       \* hits that are reranked
    Hybrid, Rerank, \* BOOLEAN: settings
    Trgm,       \* BOOLEAN: the database has word_similarity
    Postgres,   \* BOOLEAN: a statement that fails aborts the transaction (not in SQLite)
    Callers,    \* of "ask", "agent", "directive"
    Routes,     \* of "local", "remote", and "none": there is nothing to search
    Retries     \* attempts at the remote service after the first

RetrievalAssumption ==
    /\ TopK \in Nat \ {0} /\ CandN \in Nat \ {0} /\ K \in Nat /\ Pool \in Nat /\ Retries \in Nat
    /\ {Hybrid, Rerank, Trgm, Postgres} \subseteq BOOLEAN
    /\ Callers \subseteq {"ask", "agent", "directive"} /\ Routes \subseteq {"local", "remote", "none"}

VARIABLES
    pc, caller, route,
    vec, kw,    \* the arms: [pc, hits]
    session,    \* "ok" or "aborted"
    fused,      \* hits, after the fusion and the reranking
    tries, served, \* attempts, and whether the service said that there are no hits
    error       \* "none", "local", "gateway" or "other"

vars == <<pc, caller, route, vec, kw, session, fused, tries, served, error>>

-----------------------------------------------------------------------------
\* What an arm may return: distinct chunks, the best first.
Lists == {s \in SeqOf(Chunk, CandN) : IsInjective(s)}
Truncated(s) == SubSeq(s, 1, IF Len(s) < TopK THEN Len(s) ELSE TopK)

Arm(p) == [pc |-> p, hits |-> <<>>]

Init == /\ pc = "idle" /\ caller \in Callers /\ route \in Routes
        /\ vec = Arm("off") /\ kw = Arm("off") /\ session = "ok"
        /\ fused = <<>> /\ tries = 0 /\ served = FALSE /\ error = "none"

\* search: of a blank question, or where no base is visible, nothing is found.
search_nothing ==
    /\ pc = "idle" /\ route = "none" /\ pc' = "found"
    /\ UNCHANGED <<caller, route, vec, kw, session, fused, tries, served, error>>

\* The arms are gathered; while the question is embedded, the keywords are searched.
search ==
    /\ pc = "idle" /\ route = "local"
    /\ pc' = "arms" /\ vec' = Arm("embed") /\ kw' = Arm(IF Hybrid THEN "query" ELSE "done")
    /\ UNCHANGED <<caller, route, session, fused, tries, served, error>>

Raise == pc' = "raised" /\ error' = "local"

embed_query ==
    /\ vec.pc = "embed"
    /\ \/ vec' = Arm("ready") /\ UNCHANGED <<pc, error>>
       \/ vec' = Arm("failed") /\ Raise
    /\ UNCHANGED <<caller, route, kw, session, fused, tries, served>>

\* Its statement waits for that of the other arm.
vector_arm ==
    /\ vec.pc = "ready" /\ kw.pc # "query"
    /\ IF session = "ok"
       THEN /\ \E s \in Lists : vec' = [pc |-> "done", hits |-> s]
            /\ UNCHANGED <<pc, error>>
       ELSE vec' = Arm("refused") /\ Raise
    /\ UNCHANGED <<caller, route, kw, session, fused, tries, served>>

\* After any exception it has no hits.
keyword_arm ==
    /\ kw.pc = "query"
    /\ IF Trgm THEN \E s \in Lists : kw' = [pc |-> "done", hits |-> s] ELSE kw' = Arm("done")
    /\ session' = IF ~Trgm /\ Postgres THEN "aborted" ELSE session
    /\ UNCHANGED <<pc, caller, route, vec, fused, tries, served, error>>

-----------------------------------------------------------------------------
Rank(s, c) == CHOOSE i \in DOMAIN s : s[i] = c
In(s, c) == c \in Range(s)

\* 1/(K + rank), summed over the lists that hold the chunk, as <<numerator, denominator>>.
Score(c) ==
    LET a == K + Rank(vec.hits, c) b == K + Rank(kw.hits, c)
    IN  CASE In(vec.hits, c) /\ In(kw.hits, c) -> <<a + b, a * b>>
          [] In(vec.hits, c) /\ ~In(kw.hits, c) -> <<1, a>>
          [] OTHER -> <<1, b>>

Better(c, d) == Score(c)[1] * Score(d)[2] > Score(d)[1] * Score(c)[2]

\* rrf_fuse: a stable sort of the chunks as they were met.
rrf_fuse ==
    LET met == vec.hits \o SelectSeq(kw.hits, LAMBDA c : ~In(vec.hits, c))
    IN  SetToSortSeq(Range(met), LAMBDA c, d :
            Better(c, d) \/ (~Better(d, c) /\ Rank(met, c) < Rank(met, d)))

\* The arms are done; the settings of the fusion are read.
fuse ==
    /\ pc = "arms" /\ vec.pc = "done" /\ kw.pc = "done"
    /\ IF session = "aborted" THEN Raise /\ UNCHANGED fused
       ELSE /\ IF Rerank /\ Hybrid /\ rrf_fuse # <<>> THEN pc' = "rerank" /\ fused' = rrf_fuse
               ELSE pc' = "found" /\ fused' = Truncated(rrf_fuse)
            /\ UNCHANGED error
    /\ UNCHANGED <<caller, route, vec, kw, session, tries, served>>

\* _maybe_rerank: the first of them in the order of the service, which may name some only;
\* when it fails or names none, in the order of the fusion.
maybe_rerank ==
    /\ pc = "rerank" /\ pc' = "found"
    /\ \E order \in {s \in SeqOf(1 .. Pool, Pool) : IsInjective(s)} :
           LET named == SelectSeq(order, LAMBDA i : i <= Len(fused))
           IN  fused' = Truncated(IF order = <<>> THEN fused
                                  ELSE [i \in DOMAIN named |-> fused[named[i]]])
    /\ UNCHANGED <<caller, route, vec, kw, session, tries, served, error>>

-----------------------------------------------------------------------------
\* The remote service has an answer; or a 5xx or nothing, which is retried; or another status,
\* or an answer without hits or with bad ones, which is an error of the gateway; or a body that
\* is not JSON.
remote_search ==
    /\ pc = "idle" /\ route = "remote"
    /\ \/ tries < Retries /\ tries' = tries + 1 /\ UNCHANGED <<pc, fused, served, error>>
       \/ pc' = "raised" /\ error' \in {"gateway", "other"} /\ UNCHANGED <<tries, fused, served>>
       \/ /\ \E s \in Lists : fused' = Truncated(s) /\ served' = (s = <<>>)
          /\ pc' = "found" /\ UNCHANGED <<tries, error>>
    /\ UNCHANGED <<caller, route, vec, kw, session>>

-----------------------------------------------------------------------------
Quiet == kw.pc # "query"  \* a statement of an arm that was left behind has ended

\* answer: without hits no model is asked; it answers or fails, and its usage is recorded.
answer ==
    /\ caller = "ask" /\ pc \in {"found", "raised"} /\ Quiet
    /\ \/ pc = "found" /\ pc' = "done"
       \/ (pc = "raised" \/ fused # <<>>) /\ pc' = "failed"
    /\ UNCHANGED <<caller, route, vec, kw, session, fused, tries, served, error>>

\* augment: without hits when the search raised; the transaction is rolled back before the
\* model is asked.
augment ==
    /\ caller = "agent" /\ pc \in {"found", "raised"} /\ Quiet
    /\ pc' = "write" /\ session' = "ok"
    /\ UNCHANGED <<caller, route, vec, kw, fused, tries, served, error>>

\* The directive's failure is a note.
dispatch_directive ==
    /\ caller = "directive" /\ pc \in {"found", "raised"} /\ Quiet
    /\ pc' = "write"
    /\ UNCHANGED <<session, caller, route, vec, kw, fused, tries, served, error>>

\* The caller goes on with its session.
go_on ==
    /\ pc = "write" /\ pc' = IF session = "ok" THEN "done" ELSE "failed"
    /\ UNCHANGED <<session, caller, route, vec, kw, fused, tries, served, error>>

Next == \/ search_nothing \/ search \/ embed_query \/ vector_arm \/ keyword_arm
        \/ fuse \/ maybe_rerank \/ remote_search
        \/ answer \/ augment \/ dispatch_directive \/ go_on

\* The clients of the model, of the embeddings and of the service have timeouts.
Spec == Init /\ [][Next]_vars

-----------------------------------------------------------------------------
\* search: no chunk is given twice, nor more than were asked for.
TypeOK == pc = "found" => IsInjective(fused) /\ Len(fused) <= TopK

\* rrf_fuse: a chunk that is before another in both lists is before it in the result.
Pareto == pc \in {"rerank", "found"} /\ route = "local" /\ ~Rerank =>
    \A c, d \in Chunk :
        /\ \A s \in {vec.hits, kw.hits} : In(s, c) /\ (In(s, d) => Rank(s, c) < Rank(s, d))
        /\ In(fused, d)
        => In(fused, c) /\ Rank(fused, c) < Rank(fused, d)

\* test_rrf_multi_arm_hit_ranks_first: what both arms found is before what one did.
BothFirst == pc \in {"rerank", "found"} /\ route = "local" /\ ~Rerank =>
    \A c, d \in Chunk :
        In(vec.hits, c) /\ In(kw.hits, c) /\ In(fused, d) /\ In(vec.hits, d) # In(kw.hits, d)
        => In(fused, c) /\ Rank(fused, c) < Rank(fused, d)

\* docs/15: a search fails with the embeddings only, never because of the keywords.
KeywordsOptional == pc = "raised" /\ route = "local" => vec.pc = "failed"

\* The comment in augment: a failure of the knowledge keeps the execution available.
AgentGoesOn == caller = "agent" => pc # "failed"

\* The remote adapter: no hits, only if the service says so.
NeverSilentlyEmpty == pc = "found" /\ route = "remote" /\ fused = <<>> => served

-----------------------------------------------------------------------------
(* What the documents promise and the code does not keep (see README). *)

\* execute of the directive: no failure interrupts the flow of messages.
DirectiveGoesOn == caller = "directive" => pc # "failed"

\* The remote adapter: a failure of the service is an error of the gateway.
GatewayErrors == error # "other"
=============================================================================
