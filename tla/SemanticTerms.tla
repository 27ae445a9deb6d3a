----------------------------- MODULE SemanticTerms -----------------------------
(***************************************************************************)
(* The dictionary of business terms, and the queries it widens.            *)
(*                                                                         *)
(* An administrator's request loads a term, checks that its name is free,  *)
(* and saves the columns that differ, with the event of the change; then   *)
(* it leaves an audit record in a transaction of its own.  The index keeps *)
(* the names of live terms apart.  A search reads all terms and adds the   *)
(* other names of those its query mentions; if that fails it goes on with  *)
(* the query as it was.                                                    *)
(*                                                                         *)
(* A query stands for the names that occur in its text.                    *)
(***************************************************************************)
EXTENDS Naturals, FiniteSets, Sequences, SequencesExt, TLC

CONSTANTS Term, Name, Rank,    \* name |-> its place in the order of the list
          AliasSet,              \* the sets of other names a request may give
          Initial,               \* the terms there are at first |-> their names
          Request, Search, Query, MaxExpand, MaxFaults

SemanticTermsAssumption ==
    /\ Rank \in [Name -> 1..Cardinality(Name)] /\ MaxExpand \in Nat \ {0}
    /\ DOMAIN Initial \subseteq Term /\ \A t, u \in DOMAIN Initial : t # u => Initial[t] # Initial[u]
    /\ Query \cup AliasSet \subseteq SUBSET Name

VARIABLES term,     \* the table
          request, event, audit,
          lost,     \* audit records that could only be reported
          search,   \* [stage, query, extra, terms]
          faults
termVars == <<term, request, event, audit, lost, search, faults>>

Absent == [state |-> "absent", name |-> "", aliases |-> {}]
Idle == [stage |-> "idle", kind |-> "none", of |-> "none", loaded |-> Absent, set |-> <<>>]
NoSearch == [stage |-> "idle", query |-> {}, extra |-> <<>>, terms |-> {}]

TypeOK ==
    /\ \A t \in Term : term[t].state \in {"absent", "live", "deleted"}
    /\ \A q \in Request : request[q].stage \in {"idle", "loaded", "checked", "changed", "done", "refused", "raised"}
    /\ \A s \in Search : search[s].stage \in {"idle", "done", "failed_open"}
    /\ audit \cup lost \subseteq Request /\ faults \in 0..MaxFaults

Init ==
    /\ term = [t \in Term |-> IF t \in DOMAIN Initial THEN [Absent EXCEPT !.state = "live", !.name = Initial[t]]
                               ELSE Absent]
    /\ request = [q \in Request |-> Idle]
    /\ event = {} /\ audit = {} /\ lost = {} /\ faults = 0
    /\ search = [s \in Search |-> NoSearch]

Live == {t \in Term : term[t].state = "live"}
Clash(t, n) == \E u \in Live \ {t} : term[u].name = n
Goto(q, stage) == request' = [request EXCEPT ![q].stage = stage]

\* A request: for a new term, or for one that is there.
Ask(q, kind, t, set) ==
    /\ request[q].stage = "idle"
    /\ (kind = "create") <=> (term[t].state = "absent")
    /\ request' = [request EXCEPT ![q] =
          [kind |-> kind, of |-> t, set |-> set, loaded |-> term[t],
           stage |-> IF term[t].state = "deleted" THEN "refused" ELSE "loaded"]]
    /\ UNCHANGED <<term, event, audit, lost, search, faults>>

\* A name that another live term has is refused.
find_by_canonical(q) ==
    /\ request[q].stage = "loaded"
    /\ Goto(q, IF "name" \in DOMAIN request[q].set /\ Clash(request[q].of, request[q].set.name)
               THEN "refused" ELSE "checked")
    /\ UNCHANGED <<term, event, audit, lost, search, faults>>

\* What a save leaves of the row there is now.
Saved(loaded, set, current) ==
    [k \in DOMAIN current |-> IF k \in DOMAIN set /\ set[k] # loaded[k] THEN set[k] ELSE current[k]]

\* What the row of a request's term is to be.
Wanted(q) ==
    LET r == request[q]
    IN  CASE r.kind = "create" -> [state |-> "live"] @@ r.set @@ Absent
          [] r.kind = "update" -> Saved(r.loaded, r.set, term[r.of])
          [] r.kind = "delete" -> Saved(r.loaded, [state |-> "deleted"], term[r.of])

\* The change and its event are committed; the index refuses a name that was taken since
\* it was checked, and an error of the database is raised as it is.
Commit(q) ==
    /\ request[q].stage = "checked"
    /\ LET t == request[q].of   new == Wanted(q)
       IN  IF \/ new.state = "live" /\ Clash(t, new.name)
              \/ request[q].kind = "create" /\ term[t].state # "absent"
           THEN Goto(q, "raised") /\ UNCHANGED <<term, event>>
           ELSE /\ term' = [term EXCEPT ![t] = new]
                /\ event' = event \cup {[of |-> t, at |-> q]}
                /\ Goto(q, "changed")
    /\ UNCHANGED <<audit, lost, search, faults>>

\* The record: twice at most, and then it is reported as lost.
append_audit_record(q) ==
    /\ request[q].stage = "changed"
    /\ \/ audit' = audit \cup {q} /\ UNCHANGED <<lost, faults>>
       \/ /\ faults + 2 <= MaxFaults /\ faults' = faults + 2
          /\ lost' = lost \cup {q} /\ UNCHANGED audit
    /\ Goto(q, "done") /\ UNCHANGED <<term, event, search>>

\* The process dies between the change and its record.
Crash(q) ==
    /\ request[q].stage = "changed" /\ faults < MaxFaults
    /\ faults' = faults + 1 /\ Goto(q, "raised")
    /\ UNCHANGED <<term, event, audit, lost, search>>

-----------------------------------------------------------------------------
\* The names of a term, its own first.
Names(t) == <<term[t].name>> \o SetToSeq(term[t].aliases)

\* Variant of expand_terms: the names of all terms are added.
expand_termsAll(query, terms) ==
    LET names == FlattenSeq([n \in DOMAIN terms |-> Names(terms[n])])
    IN  FoldLeft(LAMBDA got, n : IF n \in query \/ Contains(got, n) \/ Len(got) = MaxExpand THEN got
                                 ELSE Append(got, n), <<>>, names)

\* The names that a query does not mention, of the terms it mentions by one of theirs.
expand_terms(query, terms) ==
    LET hit == SelectSeq(terms, LAMBDA t : \E n \in ToSet(Names(t)) : n \in query)
        names == FlattenSeq([n \in DOMAIN hit |-> Names(hit[n])])
    IN  FoldLeft(LAMBDA got, n : IF n \in query \/ Contains(got, n) \/ Len(got) = MaxExpand THEN got
                                 ELSE Append(got, n), <<>>, names)

\* The live terms in the order of their names.
list_active == SetToSortSeq(Live, LAMBDA t, u : Rank[term[t].name] < Rank[term[u].name])

expand_query(s, query) ==
    /\ search[s].stage = "idle"
    /\ \/ /\ search' = [search EXCEPT ![s] = [stage |-> "done", query |-> query,
                           extra |-> expand_terms(query, list_active),
                           terms |-> {[name |-> term[t].name, aliases |-> term[t].aliases] : t \in Live}]]
          /\ UNCHANGED faults
       \/ /\ faults < MaxFaults /\ faults' = faults + 1
          /\ search' = [search EXCEPT ![s] = [NoSearch EXCEPT !.stage = "failed_open", !.query = query]]
    /\ UNCHANGED <<term, request, event, audit, lost>>

Sets == [name : Name, aliases : AliasSet]
Changes == [name : Name] \cup [aliases : AliasSet]
Next ==
    \/ \E q \in Request, t \in Term : \/ \E s \in Sets : Ask(q, "create", t, s)
                                      \/ \E s \in Changes : Ask(q, "update", t, s)
                                      \/ Ask(q, "delete", t, <<>>)
    \/ \E q \in Request : find_by_canonical(q) \/ Commit(q) \/ append_audit_record(q) \/ Crash(q)
    \/ \E s \in Search, query \in Query : expand_query(s, query)

-----------------------------------------------------------------------------
\* Live terms have names of their own, though the check and the write are apart.
NamesAreOwn == \A t, u \in Live : t # u => term[t].name # term[u].name

\* What was changed stays unless another request changed it: a deleted term is not brought
\* back, and what a request that ended set is there or was set otherwise by another.
ChangesHold ==
    \A q \in Request : request[q].stage \in {"changed", "done"} =>
       LET t == request[q].of
       IN  /\ request[q].kind = "delete" => term[t].state = "deleted"
           /\ \A k \in DOMAIN request[q].set :
                 \/ term[t][k] = request[q].set[k]
                 \/ \E e \in event : /\ e.of = t /\ k \in DOMAIN request[e.at].set
                                     /\ request[e.at].set[k] = term[t][k]

\* A request that was answered has its record, or the log reports it lost.
AnsweredIsAudited == \A q \in Request : request[q].stage = "done" => q \in audit \cup lost

\* A search is widened by names of terms it mentions, each once, none it has, and no more
\* than allowed; when less than allowed, by all of them.
ExpandsByMeaning ==
    \A s \in Search : search[s].stage # "idle" =>
       LET query == search[s].query   extra == ToSet(search[s].extra)
           named(r) == {r.name} \cup r.aliases
           due == UNION {named(r) : r \in {x \in search[s].terms : named(x) \cap query # {}}} \ query
       IN  /\ extra \subseteq due /\ Cardinality(extra) = Len(search[s].extra)
           /\ Len(search[s].extra) < MaxExpand => extra = due

(* What the documents promise and the code does not keep (see README). *)

\* Every change of the dictionary is on the audit trail once its request has ended.
ChangesAreAudited ==
    \A e \in event : request[e.at].stage \in {"done", "raised"} => e.at \in audit
=============================================================================
