---------------------------- MODULE GovernedQuery ----------------------------
(***************************************************************************)
(* Read-only queries of business data: what agents and managers may ask    *)
(* of ThinkingData.                                                        *)
(*                                                                         *)
(* GovernedDataQuery.run checks a statement against the catalogue of this  *)
(* moment (check_sql), asks the source through a client that retries when  *)
(* it is told to slow down, cuts the answer to a shape, and leaves audit   *)
(* evidence.  An admin may change the views of the catalogue meanwhile.    *)
(*                                                                         *)
(* A statement is what check_sql looks at: how many statements it parses   *)
(* to, its kind, what it writes, the tables it reads, whether one is       *)
(* qualified, its limit, and the rows the source has for it.  The source   *)
(* honours the limit.  A fault is a request that fails, an answer out of shape or  *)
(* an audit record that cannot be written.                                 *)
(***************************************************************************)
EXTENDS Integers, FiniteSets, Sequences, SequencesExt

CONSTANTS Query,     \* the queries asked
          Statement, \* what they may ask
          Configs,   \* what td_event_views may be set to: [json, views]
          DefaultViews, MaxRows, MaxTries, MaxFaults

GovernedQueryAssumption ==
    /\ MaxRows \in Nat \ {0} /\ MaxTries \in Nat \ {0} /\ MaxFaults \in Nat
    /\ \A s \in Statement : s.limit \in Nat \cup {-1}

VARIABLES config,   \* the configured views
          stage,    \* query |-> "new", "asking", "recording", "done" or "raised"
          sql,      \* query |-> its statement, once it was checked
          allowed,  \* query |-> the views when it was checked
          tries,    \* query |-> the requests sent to the source
          answer,   \* query |-> [status, rows, truncated]
          told,     \* query |-> whether its asker has the answer
          audit,    \* the evidence: <<query, status>>
          lost,     \* evidence that could only be reported
          faults
queryVars == <<config, stage, sql, allowed, tries, answer, told, audit, lost, faults>>

NoSql == [statements |-> 0, kind |-> "none", writes |-> FALSE, tables |-> {},
          qualified |-> FALSE, limit |-> -1, rows |-> <<>>]
NoAnswer == [status |-> "none", rows |-> <<>>, truncated |-> FALSE]

TypeOK ==
    /\ \A q \in Query :
         /\ stage[q] \in {"new", "asking", "recording", "done", "raised"}
         /\ tries[q] \in 0..MaxTries
         /\ answer[q].status \in {"none", "ok", "fail", "rejected"}
    /\ told \in [Query -> BOOLEAN] /\ faults \in 0..MaxFaults
    /\ audit \cup lost \subseteq Query \X {"ok", "fail", "rejected"}

Init ==
    /\ config \in Configs
    /\ stage = [q \in Query |-> "new"] /\ allowed = [q \in Query |-> {}]
    /\ sql = [q \in Query |-> NoSql]
    /\ tries = [q \in Query |-> 0] /\ answer = [q \in Query |-> NoAnswer]
    /\ told = [q \in Query |-> FALSE] /\ audit = {} /\ lost = {} /\ faults = 0

\* The views of the catalogue; what cannot be read gives the default ones.
Views == IF ~config.json \/ config.views = {} THEN DefaultViews ELSE config.views

\* One statement that only reads.
ReadQuery(s) == s.statements = 1 /\ s.kind \in {"select", "union"} /\ ~s.writes

\* Variant of Listed: a qualified name passes for the view of that name.
ListedUnqualified(s, views) == s.tables # {} /\ s.tables \subseteq views

\* It reads tables, none of them qualified, all of them views of the catalogue.
Listed(s, views) == s.tables # {} /\ ~s.qualified /\ s.tables \subseteq views

CheckSql(s, views) == ReadQuery(s) /\ Listed(s, views)

\* The limit the statement is sent with.
Bound(s) == IF s.limit = -1 \/ s.limit > MaxRows THEN MaxRows ELSE s.limit

\* The columns are those of the first row; what a row lacks is null.
Shaped(rows) ==
    LET first == SubSeq(rows, 1, IF Len(rows) > MaxRows THEN MaxRows ELSE Len(rows))
    IN  [i \in DOMAIN first |->
            [c \in DOMAIN first[1] |-> IF c \in DOMAIN first[i] THEN first[i][c] ELSE "null"]]

\* What the source gives for a statement it is sent with a bound.
Given(s) == SubSeq(s.rows, 1, IF Len(s.rows) > Bound(s) THEN Bound(s) ELSE Len(s.rows))

\* An admin sets the views.
Configure ==
    /\ config' \in Configs \ {config}
    /\ \E q \in Query : stage[q] # "done"
    /\ UNCHANGED <<stage, sql, allowed, tries, answer, told, audit, lost, faults>>

\* The statement is checked: what is refused goes to the audit, the rest to the source.
Check(q) ==
    /\ stage[q] = "new"
    /\ allowed' = [allowed EXCEPT ![q] = Views]
    /\ \E s \in Statement :
          /\ sql' = [sql EXCEPT ![q] = s]
          /\ IF CheckSql(s, Views)
             THEN stage' = [stage EXCEPT ![q] = "asking"] /\ UNCHANGED answer
             ELSE /\ stage' = [stage EXCEPT ![q] = "recording"]
                  /\ answer' = [answer EXCEPT ![q].status = "rejected"]
    /\ UNCHANGED <<config, tries, told, audit, lost, faults>>

\* No address or no secret: the query fails, and leaves no evidence.
Unconfigured(q) ==
    /\ stage[q] = "asking" /\ tries[q] = 0 /\ faults < MaxFaults
    /\ faults' = faults + 1
    /\ stage' = [stage EXCEPT ![q] = "done"]
    /\ answer' = [answer EXCEPT ![q].status = "fail"] /\ told' = [told EXCEPT ![q] = TRUE]
    /\ UNCHANGED <<config, sql, allowed, tries, audit, lost>>

\* The source answers with rows, which are cut to a shape.
Answer(q) ==
    /\ stage[q] = "asking" /\ tries[q] < MaxTries
    /\ tries' = [tries EXCEPT ![q] = @ + 1]
    /\ answer' = [answer EXCEPT ![q] = [status |-> "ok", rows |-> Shaped(Given(sql[q])),
                                        truncated |-> Len(Given(sql[q])) > MaxRows]]
    /\ stage' = [stage EXCEPT ![q] = "recording"]
    /\ UNCHANGED <<config, sql, allowed, told, audit, lost, faults>>

\* The network fails or the source asks to slow down: again, until the tries are used up.
SlowDown(q) ==
    /\ stage[q] = "asking" /\ tries[q] < MaxTries /\ faults < MaxFaults
    /\ faults' = faults + 1 /\ tries' = [tries EXCEPT ![q] = @ + 1]
    /\ IF tries'[q] = MaxTries
       THEN /\ stage' = [stage EXCEPT ![q] = "recording"]
            /\ answer' = [answer EXCEPT ![q].status = "fail"]
       ELSE UNCHANGED <<stage, answer>>
    /\ UNCHANGED <<config, sql, allowed, told, audit, lost>>

\* Any other code of the source ends the query at once.
Refuse(q) ==
    /\ stage[q] = "asking" /\ tries[q] < MaxTries /\ faults < MaxFaults
    /\ faults' = faults + 1 /\ tries' = [tries EXCEPT ![q] = @ + 1]
    /\ stage' = [stage EXCEPT ![q] = "recording"]
    /\ answer' = [answer EXCEPT ![q].status = "fail"]
    /\ UNCHANGED <<config, sql, allowed, told, audit, lost>>

\* A line of the answer that is no JSON is no failure of the connector: it is raised.
Malformed(q) ==
    /\ stage[q] = "asking" /\ tries[q] < MaxTries /\ faults < MaxFaults
    /\ faults' = faults + 1 /\ tries' = [tries EXCEPT ![q] = @ + 1]
    /\ stage' = [stage EXCEPT ![q] = "raised"]
    /\ UNCHANGED <<config, sql, allowed, answer, told, audit, lost>>

\* The evidence is written, and the asker has the answer; evidence that fails twice is
\* reported in the log and stops nobody.
Record(q) ==
    /\ stage[q] = "recording"
    /\ \/ audit' = audit \cup {<<q, answer[q].status>>} /\ UNCHANGED <<lost, faults>>
       \/ /\ faults < MaxFaults - 1 /\ faults' = faults + 2
          /\ lost' = lost \cup {<<q, answer[q].status>>} /\ UNCHANGED audit
    /\ stage' = [stage EXCEPT ![q] = "done"] /\ told' = [told EXCEPT ![q] = TRUE]
    /\ UNCHANGED <<config, sql, allowed, tries, answer>>

Next ==
    \/ Configure
    \/ \E q \in Query : \/ Check(q) \/ Unconfigured(q) \/ Answer(q) \/ SlowDown(q)
                        \/ Refuse(q) \/ Malformed(q) \/ Record(q)

-----------------------------------------------------------------------------
\* What validate_dataset finds in a column of shaped rows.
Kinds(rows, c) == {rows[i][c] : i \in DOMAIN rows} \ {"null"}
Findings(rows) ==
    IF rows = <<>> THEN {}
    ELSE {<<c, "empty">> : c \in {d \in DOMAIN rows[1] : \E i \in DOMAIN rows : rows[i][d] = "null"}}
         \cup {<<c, "mixed">> : c \in {d \in DOMAIN rows[1] : Cardinality(Kinds(rows, d)) > 1}}

\* The source is asked only what one statement reads from views the catalogue listed when
\* it was checked, whatever is configured since, and gives no more rows than allowed.
AskedIsGoverned ==
    \A q \in Query :
       tries[q] > 0 => /\ ReadQuery(sql[q]) /\ ~sql[q].qualified
                       /\ sql[q].tables # {} /\ sql[q].tables \subseteq allowed[q]
                       /\ Len(answer[q].rows) <= MaxRows

\* Whoever has an answer of the source left evidence of it, or the log says it was lost.
AnsweredIsEvident ==
    \A q \in Query : told[q] /\ (tries[q] > 0 \/ answer[q].status = "rejected")
                        => <<q, answer[q].status>> \in audit \cup lost

\* A busy source is asked a limited number of times, and the query then ends.
TriesAreLimited == \A q \in Query : tries[q] = MaxTries => stage[q] # "asking"

\* A column without a finding has a value of one kind in every row of the answer.
CleanIsClean ==
    \A q \in Query : \A c \in UNION {DOMAIN answer[q].rows[i] : i \in DOMAIN answer[q].rows} :
       (\A f \in Findings(answer[q].rows) : f[1] # c)
          => \E k \in {"number", "text"} : \A i \in DOMAIN answer[q].rows : answer[q].rows[i][c] = k

(* What the documents promise and the code does not keep (see README). *)

\* An answer the bound has cut says so: the bound is in the statement, and never exceeded.
TruncationIsTold ==
    \A q \in Query : answer[q].status = "ok" /\ Len(sql[q].rows) > MaxRows /\ sql[q].limit = -1
                        => answer[q].truncated
=============================================================================
